--------------------------- MODULE DispatchProofs ---------------------------
(***************************************************************************)
(* Proofs about the dispatch state: it is well typed, no more workers run  *)
(* than there are slots, and a ticket has one worker at a time.            *)
(*                                                                         *)
(* Two events break the last two, as the code has it: a reopen hold whose  *)
(* tracker write fails starts the ticket without a second look, and the    *)
(* force-eject of a stalled worker drops an entry whose task may live on.  *)
(* The theorems therefore speak of the behaviours without them, and only   *)
(* of those: every other event may happen in any order.                    *)
(*                                                                         *)
(* The agents of one turn that the workers drive (AgentTurn): however      *)
(* run_turn and stop() interleave, a live process is the one the backend   *)
(* still holds, and once stop() has returned no prompted process runs, for *)
(* any number of processes, faults, stops and cancellations.  The ladder   *)
(* that takes a group down never says that it is gone of another process   *)
(* than the one it was started for, as nothing is spawned while it works.  *)
(*                                                                         *)
(* The agents that live on from turn to turn (AgentRpc): what a turn       *)
(* reports is its own unless a request to the same process was given up    *)
(* unanswered.  One request is under way at a time, so whatever the agent  *)
(* owes or has on the wire belongs to it, and its answer is the last frame *)
(* of it; the reader keeps that order, and a relaunch starts from nothing. *)
(***************************************************************************)
EXTENDS Dispatch, AgentTurn, AgentRpc, FiniteSetTheorems, WellFoundedInduction, TLAPS

(* A failed reopen hold is the only start that does not decide in the step *)
(* that starts.                                                            *)
HoldsSettle == ~({"reopen", "tracker"} \subseteq Enabled)
NoEjects == "stall" \notin Enabled

-----------------------------------------------------------------------------
(* What the actions rest on besides the types *)

(* A task that is not free works for a ticket. *)
TasksHaveIssue == \A t \in Tasks : task[t].phase # "free" => task[t].issue \in Issues

(* A force-eject, planned or awaited, is one of a ticket. *)
EjectsHaveIssue ==
    /\ eject # NoEject => eject.issue \in Issues
    /\ \A z \in tick.zombies : z.issue \in Issues

(* The escalations of a ticket stay within their bound. *)
EscalationsBounded == \A i \in Issues : escReady[i] + escWriting[i] <= MaxEscalations

(* The tick awaits a reopen hold only where tickets are reopened. *)
HoldIsReopen == tick.held # NoIssue => "reopen" \in Enabled

Sound == TypeOK /\ TasksHaveIssue /\ EjectsHaveIssue /\ EscalationsBounded /\ HoldIsReopen

-----------------------------------------------------------------------------
(* The helpers of the actions *)

LEMMA Constants ==
    /\ 1 \in Attempts /\ 0 \in Attempts
    /\ \A a \in Attempts : a + 1 <= MaxRetries => a + 1 \in Attempts
    /\ NoRetry \in Retry /\ FreeTask \in Task /\ NoEject \in Eject /\ IdleTick \in Tick
  <1>1. 1 \in Attempts /\ 0 \in Attempts /\ \A a \in Attempts : a + 1 <= MaxRetries => a + 1 \in Attempts
    BY DispatchAssumption DEF Attempts
  <1>2. NoRetry \in Retry /\ NoEject \in Eject
    BY <1>1 DEF NoRetry, Retry, Kinds, NoEject, Eject
  <1>3. FreeTask \in Task
    BY <1>1 DEF FreeTask, Task
  <1>4. IdleTick \in Tick
    BY DEF IdleTick, Tick
  <1> QED BY <1>1, <1>2, <1>3, <1>4

(* A waiting retry is scheduled again without an escalation. *)
LEMMA ReparkType ==
    ASSUME TypeOK, EscalationsBounded, NEW i \in Issues, NEW r \in Retry, NEW slot \in BOOLEAN,
           Repark(i, r, slot)
    PROVE  /\ retry' \in [Issues -> Retry] /\ persisted' \in [Issues -> Attempts]
           /\ UNCHANGED escReady
  <1>1. r.attempt \in Attempts /\ r.kind \in Kinds /\ ~(r.attempt > MaxRetries)
    BY DispatchAssumption DEF Retry, Attempts
  <1>2. [on |-> TRUE, attempt |-> r.attempt, kind |-> r.kind, slot |-> slot] \in Retry
    BY <1>1 DEF Retry
  <1> QED BY <1>1, <1>2, Constants DEF Repark, ScheduleRetry, TypeOK

(* A failure schedules the next attempt or, beyond the cap, an escalation. *)
LEMMA FailureType ==
    ASSUME TypeOK, EscalationsBounded, NEW i \in Issues, NEW a \in Attempts,
           ScheduleFailure(i, a)
    PROVE  /\ retry' \in [Issues -> Retry] /\ persisted' \in [Issues -> Attempts]
           /\ escReady' \in [Issues -> 0..MaxEscalations]
           /\ \A j \in Issues : escReady'[j] + escWriting[j] <= MaxEscalations
  <1> USE DEF TypeOK
  <1>0. a \in Nat /\ MaxRetries \in Nat /\ MaxEscalations \in Nat
        /\ \A j \in Issues : escReady[j] \in Nat /\ escWriting[j] \in Nat
    BY DispatchAssumption DEF Attempts
  <1>1. CASE a + 1 > MaxRetries
    <2>1. escReady' = [escReady EXCEPT ![i] = @ + 1] /\ UNCHANGED retry
          /\ persisted' = [persisted EXCEPT ![i] = 0]
      BY <1>1 DEF ScheduleFailure, ScheduleRetry
    <2>2. escReady[i] + escWriting[i] < MaxEscalations
      BY <1>1 DEF ScheduleFailure, EscalationRoom
    <2>3. escReady' \in [Issues -> 0..MaxEscalations]
      BY <1>0, <2>1, <2>2
    <2>4. \A j \in Issues : escReady'[j] + escWriting[j] <= MaxEscalations
      BY <1>0, <2>1, <2>2 DEF EscalationsBounded
    <2> QED BY <2>1, <2>3, <2>4, Constants
  <1>2. CASE ~(a + 1 > MaxRetries)
    <2>1. a + 1 \in Attempts
      BY <1>0, <1>2, Constants
    <2>2. [on |-> TRUE, attempt |-> a + 1, kind |-> "retry", slot |-> TRUE] \in Retry
      BY <2>1 DEF Retry, Kinds
    <2> QED BY <1>2, <2>1, <2>2 DEF ScheduleFailure, ScheduleRetry, EscalationsBounded
  <1> QED BY <1>1, <1>2

LEMMA ContinuationType ==
    ASSUME TypeOK, NEW i \in Issues, ScheduleRetry(i, 1, "continuation", TRUE)
    PROVE  /\ retry' \in [Issues -> Retry] /\ persisted' \in [Issues -> Attempts]
           /\ UNCHANGED escReady
  <1>1. [on |-> TRUE, attempt |-> 1, kind |-> "continuation", slot |-> TRUE] \in Retry
    BY Constants DEF Retry, Kinds
  <1> QED BY <1>1, Constants DEF ScheduleRetry, TypeOK

(* What a worker's task becomes.  `t` is a free identity. *)
Working(i, a) == [FreeTask EXCEPT !.phase = "working", !.issue = i, !.attempt = a]

LEMMA WorkingType ==
    ASSUME NEW i \in Issues, NEW a \in Attempts
    PROVE  /\ Working(i, a) \in Task /\ Working(i, a).phase = "working"
           /\ Working(i, a).issue = i /\ ~Working(i, a).stalled
  BY DEF Working, FreeTask, Task

(* A dispatch takes a free task for the ticket or leaves the tasks alone. *)
LEMMA DispatchType ==
    ASSUME TypeOK, TasksHaveIssue, NEW i \in Issues, NEW a \in Attempts, DispatchRun(i, a)
    PROVE  /\ lease' \in [Issues -> Tasks \cup {NoTask, Orphan}]
           /\ task' \in [Tasks -> Task] /\ running' \in [Issues -> Tasks \cup {NoTask}]
           /\ claimed' \subseteq Issues /\ retry' \in [Issues -> Retry] /\ TasksHaveIssue'
  <1> USE DEF TypeOK
  <1>1. CASE StartRun(i, a)
    <2>1. PICK t \in FreeTasks :
              /\ \/ lease[i] = NoTask /\ lease' = [lease EXCEPT ![i] = t]
                 \/ "registry" \in Enabled /\ UNCHANGED lease
              /\ task' = [task EXCEPT ![t] = Working(i, a)]
              /\ running' = [running EXCEPT ![i] = t]
              /\ claimed' = claimed \cup {i}
              /\ retry' = [retry EXCEPT ![i] = NoRetry]
      BY <1>1 DEF StartRun, Working
    <2>2. t \in Tasks
      BY DEF FreeTasks
    <2> QED BY <2>1, <2>2, WorkingType, Constants DEF TasksHaveIssue
  <1>2. CASE RefuseRun(i)
    BY <1>2, Constants DEF RefuseRun, TasksHaveIssue
  <1> QED BY <1>1, <1>2 DEF DispatchRun

LEMMA FinishType ==
    ASSUME TypeOK, NEW i, NEW t, FinishLease(i, t)
    PROVE  lease' \in [Issues -> Tasks \cup {NoTask, Orphan}]
  BY DEF FinishLease, TypeOK

(* A worker's task as its exit handler goes on. *)
LEMMA HandlerType ==
    ASSUME TypeOK, TasksHaveIssue, NEW t \in Tasks, task[t].phase # "free",
           \/ \E left \in {"none", "budget", "no_stage_change"} : Decided(t, left)
           \/ task' = [task EXCEPT ![t].left = "none"]
           \/ \E reason \in {"normal", "error", "cancelled"}, seen \in {"active", "closed"} :
                 task' = [task EXCEPT ![t].phase = "handling", ![t].reason = reason,
                                      ![t].seen = seen]
    PROVE  /\ task' \in [Tasks -> Task]
           /\ \A u \in Tasks : task'[u].issue = task[u].issue
           /\ \A u \in Tasks : u # t => task'[u] = task[u]
           /\ TasksHaveIssue'
  <1>1. task \in [Tasks -> Task] /\ task[t] \in Task
    BY DEF TypeOK
  <1>2. \E r \in Task : r.issue = task[t].issue /\ task' = [task EXCEPT ![t] = r]
    <2>1. CASE \E left \in {"none", "budget", "no_stage_change"} : Decided(t, left)
      <3>1. PICK left \in {"none", "budget", "no_stage_change"} :
                task' = [task EXCEPT ![t] = [task[t] EXCEPT !.phase = "tail", !.left = left]]
        BY <1>1, <2>1 DEF Decided
      <3>2. [task[t] EXCEPT !.phase = "tail", !.left = left] \in Task
        BY <1>1 DEF Task
      <3> QED BY <1>1, <3>1, <3>2 DEF Task
    <2>2. CASE task' = [task EXCEPT ![t].left = "none"]
      BY <1>1, <2>2 DEF Task
    <2>3. CASE \E reason \in {"normal", "error", "cancelled"}, seen \in {"active", "closed"} :
                 task' = [task EXCEPT ![t].phase = "handling", ![t].reason = reason,
                                      ![t].seen = seen]
      <3>1. PICK reason \in {"normal", "error", "cancelled"}, seen \in {"active", "closed"} :
                task' = [task EXCEPT ![t].phase = "handling", ![t].reason = reason,
                                     ![t].seen = seen]
        BY <2>3
      <3>2. task' = [task EXCEPT ![t] = [task[t] EXCEPT !.phase = "handling",
                                            !.reason = reason, !.seen = seen]]
        BY <1>1, <3>1
      <3>3. [task[t] EXCEPT !.phase = "handling", !.reason = reason, !.seen = seen] \in Task
        BY <1>1 DEF Task
      <3> QED BY <1>1, <3>2, <3>3 DEF Task
    <2> QED BY <2>1, <2>2, <2>3
  <1> QED BY <1>1, <1>2 DEF TasksHaveIssue

(* The entry's task as a reconcile pass cancels it, whatever its phase. *)
LEMMA CancelType ==
    ASSUME TypeOK, TasksHaveIssue, NEW t \in Tasks,
           \/ task' = [task EXCEPT ![t].cancelled = TRUE]
           \/ task' = [task EXCEPT ![t].stalled = TRUE, ![t].cancelled = TRUE]
    PROVE  /\ task' \in [Tasks -> Task] /\ TasksHaveIssue'
           /\ \A u \in Tasks : task'[u].issue = task[u].issue /\ task'[u].phase = task[u].phase
  <1>1. task \in [Tasks -> Task] /\ task[t] \in Task
    BY DEF TypeOK
  <1>2. \E r \in Task : /\ r.issue = task[t].issue /\ r.phase = task[t].phase
                        /\ task' = [task EXCEPT ![t] = r]
    <2>1. CASE task' = [task EXCEPT ![t].cancelled = TRUE]
      BY <1>1, <2>1 DEF Task
    <2>2. CASE task' = [task EXCEPT ![t].stalled = TRUE, ![t].cancelled = TRUE]
      <3>1. task' = [task EXCEPT ![t] = [task[t] EXCEPT !.stalled = TRUE, !.cancelled = TRUE]]
        BY <1>1, <2>2
      <3>2. [task[t] EXCEPT !.stalled = TRUE, !.cancelled = TRUE] \in Task
        BY <1>1 DEF Task
      <3> QED BY <1>1, <3>1, <3>2 DEF Task
    <2> QED BY <2>1, <2>2
  <1> QED BY <1>1, <1>2 DEF TasksHaveIssue

-----------------------------------------------------------------------------
(* Soundness of the state *)

LEMMA InitSound == Init => Sound
  <1> SUFFICES ASSUME Init PROVE Sound
    OBVIOUS
  <1>1. TypeOK
    BY Constants, DispatchAssumption DEF Init, TypeOK
  <1>2. TasksHaveIssue
    BY DEF Init, TasksHaveIssue, FreeTask
  <1>3. EjectsHaveIssue /\ HoldIsReopen
    BY DEF Init, EjectsHaveIssue, IdleTick, HoldIsReopen
  <1>4. EscalationsBounded
    BY DispatchAssumption DEF Init, EscalationsBounded
  <1> QED BY <1>1, <1>2, <1>3, <1>4 DEF Sound

LEMMA TickSound ==
    ASSUME Sound, TickNext
    PROVE  Sound'
  <1> USE DEF Sound
  <1>0. tick \in Tick /\ eject \in Eject
    BY DEF TypeOK
  <1>1. CASE TickStart
    <2> DEFINE zs == {EjectOf(i) : i \in {j \in Running : task[running[j]].stalled}}
    <2>1. \A i \in Running : i \in Issues /\ running[i] \in Tasks /\ EjectOf(i) \in Eject
                              /\ EjectOf(i).issue = i
      BY DEF Running, TypeOK, EjectOf, Eject, Task
    <2>2. zs \in SUBSET Eject /\ \A z \in zs : z.issue \in Issues
      BY <2>1
    <2>3. tick' = [tick EXCEPT !.phase = "reconciling", !.zombies = zs]
      BY <1>1 DEF TickStart
    <2> HIDE DEF zs
    <2>4. tick' \in Tick /\ tick'.zombies = zs /\ tick'.held = tick.held
      BY <1>0, <2>2, <2>3 DEF Tick
    <2> QED BY <1>1, <2>2, <2>4
            DEF TickStart, TypeOK, TasksHaveIssue, EjectsHaveIssue, EscalationsBounded,
                HoldIsReopen, slotVars, escVars, Enabled
  <1>2. CASE TickPrune
    <2>1. tick' \in Tick /\ tick'.zombies = {} /\ tick'.held = NoIssue
      BY <1>2, <1>0, Constants DEF TickPrune, IdleTick, Tick
    <2> QED BY <1>2, <2>1
            DEF TickPrune, TypeOK, TasksHaveIssue, EjectsHaveIssue, EscalationsBounded,
                HoldIsReopen, slotVars, escVars, Enabled
  <1>3. CASE TickFetch
    <2> DEFINE act == {i \in Issues : board[i] = "active"}
    <2>1. CASE tick' = [IdleTick EXCEPT !.phase = "scanning", !.todo = act, !.fetched = act]
      <3>1. act \in SUBSET Issues
        OBVIOUS
      <3> HIDE DEF act
      <3>2. tick' \in Tick /\ tick'.zombies = {} /\ tick'.held = NoIssue
        BY <2>1, <3>1 DEF Tick, IdleTick
      <3> QED BY <1>3, <3>2
            DEF TickFetch, TypeOK, TasksHaveIssue, EjectsHaveIssue, EscalationsBounded,
                HoldIsReopen, slotVars, escVars, Enabled
    <2>2. CASE tick' = IdleTick
      <3>2. tick' \in Tick /\ tick'.zombies = {} /\ tick'.held = NoIssue
        BY <2>2, Constants DEF IdleTick
      <3> QED BY <1>3, <3>2
            DEF TickFetch, TypeOK, TasksHaveIssue, EjectsHaveIssue, EscalationsBounded,
                HoldIsReopen, slotVars, escVars, Enabled
    <2> QED BY <1>3, <2>1, <2>2 DEF TickFetch
  <1>4. CASE TickEnd
    <2>1. tick' \in Tick /\ tick'.zombies = {} /\ tick'.held = NoIssue
      BY <1>4, Constants DEF TickEnd, IdleTick
    <2> QED BY <1>4, <2>1
            DEF TickEnd, TypeOK, TasksHaveIssue, EjectsHaveIssue, EscalationsBounded,
                HoldIsReopen, slotVars, escVars, Enabled
  <1>5. CASE HoldEnds
    <2> DEFINE i == tick.held
    <2>1. i \in Issues /\ persisted[i] \in Attempts
      BY <1>0, <1>5 DEF HoldEnds, Tick, TypeOK
    <2>2. tick' \in Tick /\ tick'.zombies = tick.zombies /\ tick'.held = NoIssue
      BY <1>0, <1>5, <2>1 DEF HoldEnds, Scanned, Tick
    <2>3. /\ board' \in [Issues -> {"active", "closed"}]
          /\ lease' \in [Issues -> Tasks \cup {NoTask, Orphan}]
          /\ task' \in [Tasks -> Task] /\ running' \in [Issues -> Tasks \cup {NoTask}]
          /\ claimed' \subseteq Issues /\ retry' \in [Issues -> Retry] /\ TasksHaveIssue'
      <3>1. CASE DispatchRun(i, persisted[i]) /\ UNCHANGED board
        BY <2>1, <3>1, DispatchType DEF TypeOK
      <3>2. CASE ParkTicket(i)
        BY <2>1, <3>2 DEF ParkTicket, TypeOK, TasksHaveIssue
      <3>3. CASE UNCHANGED <<running, claimed, retry, task, lease>>
                 /\ board' = [board EXCEPT ![i] = "closed"]
        BY <2>1, <3>3 DEF TypeOK, TasksHaveIssue
      <3> QED BY <1>5, <3>1, <3>2, <3>3 DEF HoldEnds, StartCandidate
    <2> QED BY <1>5, <2>2, <2>3
            DEF HoldEnds, TypeOK, EjectsHaveIssue, EscalationsBounded, HoldIsReopen, escVars, Enabled
  <1>6. CASE EjectFinish
    <2>1. eject.issue \in Issues /\ eject.attempt \in Attempts
      BY <1>0, <1>6 DEF EjectFinish, EjectsHaveIssue, Eject
    <2>2. lease' \in [Issues -> Tasks \cup {NoTask, Orphan}]
      BY <1>6, FinishType DEF EjectFinish
    <2>3. /\ retry' \in [Issues -> Retry] /\ persisted' \in [Issues -> Attempts]
          /\ escReady' \in [Issues -> 0..MaxEscalations]
          /\ \A j \in Issues : escReady'[j] + escWriting[j] <= MaxEscalations
      BY <1>6, <2>1, FailureType DEF EjectFinish
    <2>4. running' \in [Issues -> Tasks \cup {NoTask}] /\ claimed' \subseteq Issues
          /\ eject' = NoEject /\ eject' \in Eject
      BY <1>6, <2>1, Constants DEF EjectFinish, TypeOK
    <2> QED BY <1>6, <2>2, <2>3, <2>4
            DEF EjectFinish, TypeOK, TasksHaveIssue, EjectsHaveIssue, EscalationsBounded,
                HoldIsReopen, Enabled
  <1>7. ASSUME NEW z \in tick.zombies, EjectKill(z) PROVE Sound'
    <2>1. z \in Eject /\ z.issue \in Issues /\ tick.zombies \ {z} \in SUBSET Eject
      BY <1>0 DEF Tick, EjectsHaveIssue
    <2>2. tick' \in Tick /\ tick'.zombies \subseteq tick.zombies /\ tick'.held = tick.held
      BY <1>0, <1>7, <2>1 DEF EjectKill, Tick
    <2> QED BY <1>7, <2>1, <2>2
            DEF EjectKill, TypeOK, TasksHaveIssue, EjectsHaveIssue, EscalationsBounded,
                HoldIsReopen, slotVars, escVars, Enabled
  <1>8. ASSUME NEW i \in Issues, StallCancel(i) \/ CancelClosed(i) PROVE Sound'
    <2>1. running[i] \in Tasks
      BY <1>8 DEF StallCancel, CancelClosed, Reconciling, Running, TypeOK
    <2>2. task' = [task EXCEPT ![running[i]].cancelled = TRUE] \/
          task' = [task EXCEPT ![running[i]].stalled = TRUE, ![running[i]].cancelled = TRUE]
      BY <1>8 DEF StallCancel, CancelClosed
    <2>3. task' \in [Tasks -> Task] /\ TasksHaveIssue'
      BY <1>0, <2>1, <2>2, CancelType
    <2> QED BY <1>8, <2>3
            DEF StallCancel, CancelClosed, TypeOK, EjectsHaveIssue, EscalationsBounded,
                HoldIsReopen, slotVars, escVars, Enabled
  <1>9. ASSUME NEW i \in Issues, ScanPass(i) \/ ScanStart(i) PROVE Sound'
    <2>1. persisted[i] \in Attempts
      BY DEF TypeOK
    <2>2. tick' \in Tick /\ tick'.zombies = tick.zombies /\ tick'.held = NoIssue
      <3>1. tick' = Scanned(i, StillOpen) \/ tick' = Scanned(i, TRUE)
        BY <1>9 DEF ScanPass, ScanStart
      <3>2. StillOpen \in BOOLEAN
        BY DEF StillOpen
      <3>3. PICK open \in BOOLEAN : tick' = Scanned(i, open)
        BY <3>1, <3>2
      <3> QED BY <1>0, <3>3 DEF Scanned, Tick
    <2>3. CASE ScanPass(i)
      BY <2>2, <2>3
            DEF ScanPass, TypeOK, TasksHaveIssue, EjectsHaveIssue, EscalationsBounded,
                HoldIsReopen, slotVars, escVars, Enabled
    <2>4. CASE ScanStart(i)
      <3>1. /\ board' \in [Issues -> {"active", "closed"}]
            /\ lease' \in [Issues -> Tasks \cup {NoTask, Orphan}]
            /\ task' \in [Tasks -> Task] /\ running' \in [Issues -> Tasks \cup {NoTask}]
            /\ claimed' \subseteq Issues /\ retry' \in [Issues -> Retry] /\ TasksHaveIssue'
        <4>1. CASE DispatchRun(i, persisted[i]) /\ UNCHANGED board
          BY <2>1, <4>1, DispatchType DEF TypeOK
        <4>2. CASE ParkTicket(i)
          BY <4>2 DEF ParkTicket, TypeOK, TasksHaveIssue
        <4> QED BY <2>4, <4>1, <4>2 DEF ScanStart, StartCandidate
      <3> QED BY <2>2, <2>4, <3>1
            DEF ScanStart, TypeOK, EjectsHaveIssue, EscalationsBounded, HoldIsReopen, escVars, Enabled
    <2> QED BY <1>9, <2>3, <2>4
  <1>10. ASSUME NEW i \in Issues, HoldReopened(i) PROVE Sound'
    <2>1. tick' \in Tick /\ tick'.zombies = tick.zombies
      BY <1>0, <1>10 DEF HoldReopened, Tick
    <2> QED BY <1>10, <2>1
            DEF HoldReopened, TypeOK, TasksHaveIssue, EjectsHaveIssue, EscalationsBounded,
                HoldIsReopen, slotVars, escVars, Enabled
  <1> QED BY <1>1, <1>2, <1>3, <1>4, <1>5, <1>6, <1>7, <1>8, <1>9, <1>10 DEF TickNext

LEMMA RetrySound ==
    ASSUME Sound, RetryNext
    PROVE  Sound'
  <1> USE DEF Sound
  <1>0. PICK i \in Issues : RetryFire(i) \/ RetryFetchFails(i) \/ RetryMissing(i) \/ RetryDecide(i)
    BY DEF RetryNext
  <1>1. retry[i] \in Retry /\ firing[i] \in Retry /\ firing[i].attempt \in Attempts
        /\ firing[i].slot \in BOOLEAN
    BY DEF TypeOK, Retry
  <1>2. CASE RetryFire(i)
    <2>1. CASE Repark(i, retry[i], TRUE) /\ UNCHANGED firing
      <3>1. /\ retry' \in [Issues -> Retry] /\ persisted' \in [Issues -> Attempts]
            /\ UNCHANGED escReady
        BY <1>1, <2>1, ReparkType
      <3> QED BY <1>2, <2>1, <3>1
            DEF RetryFire, TypeOK, TasksHaveIssue, EjectsHaveIssue, EscalationsBounded,
                HoldIsReopen, Enabled
    <2>2. CASE /\ retry' = [retry EXCEPT ![i] = NoRetry]
               /\ firing' = [firing EXCEPT ![i] = retry[i]]
               /\ UNCHANGED <<persisted, escReady>>
      <3>1. retry' \in [Issues -> Retry] /\ firing' \in [Issues -> Retry]
        BY <1>1, <2>2, Constants DEF TypeOK
      <3> QED BY <1>2, <2>2, <3>1
            DEF RetryFire, TypeOK, TasksHaveIssue, EjectsHaveIssue, EscalationsBounded,
                HoldIsReopen, Enabled
    <2> QED BY <1>2, <2>1, <2>2 DEF RetryFire
  <1>3. CASE RetryFetchFails(i)
    <2>1. /\ retry' \in [Issues -> Retry] /\ persisted' \in [Issues -> Attempts]
          /\ UNCHANGED escReady
      BY <1>1, <1>3, ReparkType DEF RetryFetchFails
    <2>2. firing' \in [Issues -> Retry]
      BY <1>3, Constants DEF RetryFetchFails, TypeOK
    <2> QED BY <1>3, <2>1, <2>2
            DEF RetryFetchFails, TypeOK, TasksHaveIssue, EjectsHaveIssue, EscalationsBounded,
                HoldIsReopen, Enabled
  <1>4. CASE RetryMissing(i)
    <2>1. /\ firing' \in [Issues -> Retry] /\ persisted' \in [Issues -> Attempts]
          /\ claimed' \subseteq Issues /\ paused' \subseteq Issues
      BY <1>4, Constants DEF RetryMissing, ReleaseRetry, TypeOK
    <2> QED BY <1>4, <2>1
            DEF RetryMissing, TypeOK, TasksHaveIssue, EjectsHaveIssue, EscalationsBounded,
                HoldIsReopen, escVars, Enabled
  <1>5. CASE RetryDecide(i)
    <2>1. firing' \in [Issues -> Retry]
      BY <1>5, Constants DEF RetryDecide, TypeOK
    <2>2. /\ running' \in [Issues -> Tasks \cup {NoTask}] /\ retry' \in [Issues -> Retry]
          /\ task' \in [Tasks -> Task] /\ lease' \in [Issues -> Tasks \cup {NoTask, Orphan}]
          /\ claimed' \subseteq Issues /\ paused' \subseteq Issues
          /\ persisted' \in [Issues -> Attempts] /\ UNCHANGED escReady /\ TasksHaveIssue'
      <3>1. CASE ReleaseRetry(i, FALSE) /\ UNCHANGED <<running, retry, escReady, task, lease>>
        BY <3>1, Constants DEF ReleaseRetry, TypeOK, TasksHaveIssue
      <3>2. CASE \E slot \in BOOLEAN : /\ Repark(i, firing[i], slot)
                                       /\ UNCHANGED <<running, claimed, paused, task, lease>>
        BY <1>1, <3>2, ReparkType DEF TypeOK, TasksHaveIssue
      <3>3. CASE DispatchRun(i, firing[i].attempt) /\ UNCHANGED <<persisted, escReady, paused>>
        BY <1>1, <3>3, DispatchType DEF TypeOK
      <3> QED BY <1>5, <3>1, <3>2, <3>3 DEF RetryDecide
    <2> QED BY <1>5, <2>1, <2>2
            DEF RetryDecide, TypeOK, EjectsHaveIssue, EscalationsBounded, HoldIsReopen, Enabled
  <1> QED BY <1>0, <1>2, <1>3, <1>4, <1>5

LEMMA ExitSound ==
    ASSUME Sound, ExitNext
    PROVE  Sound'
  <1> USE DEF Sound
  <1>0. PICK t \in Tasks : \/ WorkerEnds(t) \/ ExitClosed(t) \/ ExitError(t)
                           \/ ExitNormal(t) \/ ExitPersist(t) \/ ExitFinish(t)
    BY DEF ExitNext
  <1> DEFINE i == task[t].issue
  <1>1. i \in Issues /\ task[t].phase # "free" /\ task[t] \in Task /\ task[t].attempt \in Attempts
    <2>1. task[t].phase \in {"working", "handling", "tail"}
      BY <1>0 DEF WorkerEnds, ExitClosed, ExitError, ExitNormal, ExitPersist, ExitFinish
    <2> QED BY <2>1 DEF TasksHaveIssue, TypeOK, Task
  <1>2. CASE WorkerEnds(t)
    <2>1. CASE Owns(t)
      <3>1. PICK reason \in {"normal", "error", "cancelled"} :
                task' = [task EXCEPT ![t].phase = "handling", ![t].reason = reason,
                                     ![t].seen = board[i]]
        BY <1>2, <2>1 DEF WorkerEnds
      <3>2. board[i] \in {"active", "closed"}
        BY <1>1 DEF TypeOK
      <3>3. task' \in [Tasks -> Task] /\ TasksHaveIssue'
        BY <1>1, <3>1, <3>2, HandlerType
      <3>4. running' \in [Issues -> Tasks \cup {NoTask}] /\ pending' \subseteq Issues
        BY <1>1, <1>2, <2>1 DEF WorkerEnds, TypeOK
      <3> QED BY <1>2, <2>1, <3>3, <3>4
            DEF WorkerEnds, TypeOK, EjectsHaveIssue, EscalationsBounded, HoldIsReopen,
                escVars, Enabled
    <2>2. CASE ~Owns(t)
      <3>1. task' = [task EXCEPT ![t] = FreeTask]
        BY <1>2, <2>2 DEF WorkerEnds
      <3>2. task' \in [Tasks -> Task] /\ TasksHaveIssue'
        BY <3>1, Constants DEF TypeOK, TasksHaveIssue, FreeTask
      <3>3. lease' \in [Issues -> Tasks \cup {NoTask, Orphan}]
        BY <1>1, <1>2, <2>2 DEF WorkerEnds, TypeOK
      <3> QED BY <1>2, <2>2, <3>2, <3>3
            DEF WorkerEnds, TypeOK, EjectsHaveIssue, EscalationsBounded, HoldIsReopen,
                escVars, Enabled
    <2> QED BY <2>1, <2>2
  <1>3. CASE ExitClosed(t)
    <2>1. task' \in [Tasks -> Task] /\ TasksHaveIssue'
      BY <1>1, <1>3, HandlerType DEF ExitClosed
    <2>2. /\ retry' \in [Issues -> Retry] /\ claimed' \subseteq Issues
          /\ persisted' \in [Issues -> Attempts]
      BY <1>1, <1>3, Constants DEF ExitClosed, TypeOK
    <2> QED BY <1>3, <2>1, <2>2
            DEF ExitClosed, TypeOK, EjectsHaveIssue, EscalationsBounded, HoldIsReopen,
                escVars, Enabled
  <1>4. CASE ExitError(t)
    <2>1. task' \in [Tasks -> Task] /\ TasksHaveIssue'
      BY <1>1, <1>4, HandlerType DEF ExitError
    <2>2. /\ retry' \in [Issues -> Retry] /\ persisted' \in [Issues -> Attempts]
          /\ escReady' \in [Issues -> 0..MaxEscalations]
          /\ \A j \in Issues : escReady'[j] + escWriting[j] <= MaxEscalations
      BY <1>1, <1>4, FailureType DEF ExitError
    <2>3. paused' \subseteq Issues
      BY <1>1, <1>4 DEF ExitError, TypeOK
    <2> QED BY <1>4, <2>1, <2>2, <2>3
            DEF ExitError, TypeOK, EjectsHaveIssue, EscalationsBounded, HoldIsReopen, Enabled
  <1>5. CASE ExitNormal(t)
    <2>1. task' \in [Tasks -> Task] /\ TasksHaveIssue'
      BY <1>1, <1>5, HandlerType DEF ExitNormal
    <2>2. /\ retry' \in [Issues -> Retry] /\ persisted' \in [Issues -> Attempts]
          /\ UNCHANGED escReady /\ claimed' \subseteq Issues /\ budget' \subseteq Issues
      <3>1. CASE ScheduleRetry(i, 1, "continuation", TRUE) /\ UNCHANGED <<claimed, budget>>
        BY <1>1, <3>1, ContinuationType DEF TypeOK
      <3>2. CASE /\ persisted' = [persisted EXCEPT ![i] = 0] /\ UNCHANGED <<retry, escReady>>
                 /\ claimed' \in {claimed, claimed \cup {i}} /\ budget' \in {budget, budget \cup {i}}
        BY <1>1, <3>2, Constants DEF TypeOK
      <3> QED BY <1>5, <3>1, <3>2 DEF ExitNormal
    <2> QED BY <1>5, <2>1, <2>2
            DEF ExitNormal, TypeOK, EjectsHaveIssue, EscalationsBounded, HoldIsReopen, Enabled
  <1>6. CASE ExitPersist(t)
    <2>1. task' \in [Tasks -> Task] /\ TasksHaveIssue'
      BY <1>1, <1>6, HandlerType DEF ExitPersist
    <2>2. board' \in [Issues -> {"active", "closed"}] /\ paused' \subseteq Issues
      BY <1>1, <1>6 DEF ExitPersist, TypeOK
    <2> QED BY <1>6, <2>1, <2>2
            DEF ExitPersist, TypeOK, EjectsHaveIssue, EscalationsBounded, HoldIsReopen,
                slotVars, escVars, Enabled
  <1>7. CASE ExitFinish(t)
    <2>1. task' \in [Tasks -> Task] /\ TasksHaveIssue'
      BY <1>7, Constants DEF ExitFinish, TypeOK, TasksHaveIssue, FreeTask
    <2>2. lease' \in [Issues -> Tasks \cup {NoTask, Orphan}] /\ pending' \subseteq Issues
      BY <1>7, FinishType DEF ExitFinish, TypeOK
    <2> QED BY <1>7, <2>1, <2>2
            DEF ExitFinish, TypeOK, EjectsHaveIssue, EscalationsBounded, HoldIsReopen,
                slotVars, escVars, Enabled
  <1> QED BY <1>0, <1>2, <1>3, <1>4, <1>5, <1>6, <1>7

LEMMA OtherSound ==
    ASSUME Sound, OtherNext
    PROVE  Sound'
  <1> USE DEF Sound
  <1>0. PICK i \in Issues : \/ EscalationBegin(i) \/ EscalationEnds(i) \/ PauseWorker(i)
                            \/ ResumeWorker(i) \/ MoveTicket(i) \/ LeaseLapses(i)
    BY DEF OtherNext
  <1>n. /\ MaxEscalations \in Nat /\ EscalationMax \in Nat
        /\ \A j \in Issues : escReady[j] \in Nat /\ escWriting[j] \in Nat /\ escal[j] \in Nat
    BY DispatchAssumption DEF TypeOK
  <1>1. CASE EscalationBegin(i)
    <2>1. /\ escReady' \in [Issues -> 0..MaxEscalations]
          /\ escWriting' \in [Issues -> 0..MaxEscalations]
          /\ EscalationsBounded'
      BY <1>1, <1>n DEF EscalationBegin, TypeOK, EscalationsBounded
    <2>2. retry' \in [Issues -> Retry]
      BY <1>1, Constants DEF EscalationBegin, TypeOK
    <2> QED BY <1>1, <2>1, <2>2
            DEF EscalationBegin, TypeOK, TasksHaveIssue, EjectsHaveIssue, HoldIsReopen, Enabled
  <1>2. CASE EscalationEnds(i)
    <2>1. /\ escReady' \in [Issues -> 0..MaxEscalations]
          /\ escWriting' \in [Issues -> 0..MaxEscalations]
          /\ escal' \in [Issues -> 0..(EscalationMax - 1)]
          /\ EscalationsBounded'
      <3>1. CASE UNCHANGED escReady /\ escal' = [escal EXCEPT ![i] = 0]
        BY <1>2, <1>n, <3>1, DispatchAssumption DEF EscalationEnds, TypeOK, EscalationsBounded
      <3>2. CASE /\ ~(escal[i] + 1 >= EscalationMax)
                 /\ escal' = [escal EXCEPT ![i] = @ + 1]
                 /\ escReady' = [escReady EXCEPT ![i] = @ + 1]
        BY <1>2, <1>n, <3>2 DEF EscalationEnds, TypeOK, EscalationsBounded
      <3> QED BY <1>2, <3>1, <3>2 DEF EscalationEnds
    <2>2. board' \in [Issues -> {"active", "closed"}] /\ claimed' \subseteq Issues
      BY <1>2 DEF EscalationEnds, TypeOK
    <2> QED BY <1>2, <2>1, <2>2
            DEF EscalationEnds, TypeOK, TasksHaveIssue, EjectsHaveIssue, HoldIsReopen, Enabled
  <1>3. CASE PauseWorker(i) \/ ResumeWorker(i)
    BY <1>3 DEF PauseWorker, ResumeWorker, TypeOK, TasksHaveIssue, EjectsHaveIssue,
                EscalationsBounded, HoldIsReopen, slotVars, escVars, Enabled
  <1>4. CASE MoveTicket(i)
    BY <1>4 DEF MoveTicket, TypeOK, TasksHaveIssue, EjectsHaveIssue,
                EscalationsBounded, HoldIsReopen, slotVars, escVars, Enabled
  <1>5. CASE LeaseLapses(i)
    <2>1. lease' \in [Issues -> Tasks \cup {NoTask, Orphan}]
      BY <1>5 DEF LeaseLapses, TypeOK
    <2> QED BY <1>5, <2>1
            DEF LeaseLapses, TypeOK, TasksHaveIssue, EjectsHaveIssue,
                EscalationsBounded, HoldIsReopen, slotVars, escVars, Enabled
  <1> QED BY <1>0, <1>1, <1>2, <1>3, <1>4, <1>5

LEMMA NextSound == Sound /\ [Next]_vars => Sound'
  <1>1. Sound /\ UNCHANGED vars => Sound'
    BY DEF vars, Sound, TypeOK, TasksHaveIssue, EjectsHaveIssue, EscalationsBounded,
           HoldIsReopen, Enabled
  <1> QED BY <1>1, TickSound, RetrySound, ExitSound, OtherSound DEF Next

(* The dispatch state stays well typed whatever fails and in whatever      *)
(* order the tick, the timers, the exit handlers and the escalations run,  *)
(* and a ticket's escalations stay within their bound.                     *)
THEOREM DispatchStateIsSound == Spec => []Sound
  BY InitSound, NextSound, PTL DEF Spec

-----------------------------------------------------------------------------
(* Slots *)

(* A ticket is ready only while it neither runs nor has an exit handler,   *)
(* and, where the decision looks at the slots, only while one is left.     *)
LEMMA ReadyFacts ==
    ASSUME NEW i, NEW owning \in BOOLEAN, NEW slots \in BOOLEAN, NEW act, NEW leased \in BOOLEAN,
           Decision(i, owning, slots, act, leased) = "ready"
    PROVE  i \notin Running /\ i \notin pending /\ (slots => AvailableSlots # 0)
  BY DEF Decision

(* A step starts at most one run, of a ticket that is ready and while a    *)
(* slot is left.                                                           *)
StartsOne(i) ==
    /\ i \in Issues /\ i \notin Running /\ i \notin pending /\ AvailableSlots # 0
    /\ \E a \in Attempts : StartRun(i, a)

RunsKept == UNCHANGED <<running, task>>

LEMMA ScanStarts ==
    ASSUME Sound, NEW i \in Issues, ScanStart(i)
    PROVE  StartsOne(i) \/ RunsKept
  <1>1. PICK leased \in LeaseReads(i) : ScanReady(i, leased)
    BY DEF ScanStart
  <1>2. leased \in BOOLEAN
    BY DEF LeaseReads
  <1>3. i \notin Running /\ i \notin pending
    BY <1>1, <1>2, ReadyFacts DEF ScanReady
  <1>4. AvailableSlots # 0
    BY DEF ScanStart, StillOpen
  <1>5. persisted[i] \in Attempts
    BY DEF Sound, TypeOK
  <1>6. CASE ParkTicket(i)
    BY <1>6 DEF ParkTicket, RunsKept
  <1>7. CASE StartCandidate(i)
    BY <1>3, <1>4, <1>5, <1>7 DEF StartCandidate, DispatchRun, StartsOne, RefuseRun, RunsKept
  <1> QED BY <1>6, <1>7 DEF ScanStart

LEMMA HoldSettles ==
    ASSUME Sound, HoldsSettle, HoldEnds
    PROVE  RunsKept
  BY DEF Sound, HoldIsReopen, HoldsSettle, HoldEnds, RunsKept

LEMMA RetryStarts ==
    ASSUME Sound, NEW i \in Issues, RetryDecide(i)
    PROVE  StartsOne(i) \/ RunsKept
  <1> DEFINE act == {j \in Issues : board[j] = "active"}
  <1>1. PICK leased \in LeaseReads(i) :
            LET decision == Decision(i, TRUE, TRUE, act, leased) IN
            \/ /\ decision = "reject" /\ ReleaseRetry(i, FALSE)
               /\ UNCHANGED <<running, retry, escReady, task, lease>>
            \/ /\ decision \in {"wait", "wait_slot"}
               /\ Repark(i, firing[i], decision = "wait_slot")
               /\ UNCHANGED <<running, claimed, paused, task, lease>>
            \/ /\ decision = "ready" /\ DispatchRun(i, firing[i].attempt)
               /\ UNCHANGED <<persisted, escReady, paused>>
    BY DEF RetryDecide
  <1>2. leased \in BOOLEAN
    BY DEF LeaseReads
  <1> HIDE DEF act
  <1>3. CASE Decision(i, TRUE, TRUE, act, leased) = "ready" /\ DispatchRun(i, firing[i].attempt)
    <2>1. i \notin Running /\ i \notin pending /\ AvailableSlots # 0
      BY <1>2, <1>3, ReadyFacts
    <2>2. firing[i].attempt \in Attempts
      BY DEF Sound, TypeOK, Retry
    <2> QED BY <1>3, <2>1, <2>2 DEF DispatchRun, StartsOne, RefuseRun, RunsKept
  <1>4. CASE UNCHANGED <<running, task>>
    BY <1>4 DEF RunsKept
  <1> QED BY <1>1, <1>3, <1>4

(* What a step does to `_running`. *)
LEMMA RunningStep ==
    ASSUME Sound, HoldsSettle, [Next]_vars
    PROVE  \/ \E i \in Issues : StartsOne(i)
           \/ \A i \in Issues : running'[i] \in {running[i], NoTask}
  <1>0. running \in [Issues -> Tasks \cup {NoTask}]
    BY DEF Sound, TypeOK
  <1>1. CASE TickNext
    <2>1. CASE EjectFinish
      BY <1>0, <2>1 DEF EjectFinish
    <2>2. CASE HoldEnds
      BY <2>2, HoldSettles DEF RunsKept
    <2>3. ASSUME NEW i \in Issues, ScanStart(i) PROVE StartsOne(i) \/ running' = running
      BY <2>3, ScanStarts DEF RunsKept
    <2>4. CASE \/ TickStart \/ TickPrune \/ TickFetch \/ TickEnd
               \/ \E z \in tick.zombies : EjectKill(z)
               \/ \E i \in Issues : StallCancel(i) \/ CancelClosed(i) \/ ScanPass(i) \/ HoldReopened(i)
      BY <2>4 DEF TickStart, TickPrune, TickFetch, TickEnd, EjectKill, StallCancel,
                  CancelClosed, ScanPass, HoldReopened, slotVars
    <2> QED BY <1>1, <2>1, <2>2, <2>3, <2>4 DEF TickNext
  <1>2. CASE RetryNext
    <2>1. ASSUME NEW i \in Issues, RetryDecide(i) PROVE StartsOne(i) \/ running' = running
      BY <2>1, RetryStarts DEF RunsKept
    <2>2. ASSUME NEW i \in Issues, RetryFire(i) \/ RetryFetchFails(i) \/ RetryMissing(i)
          PROVE  running' = running
      BY <2>2 DEF RetryFire, RetryFetchFails, RetryMissing
    <2> QED BY <1>2, <2>1, <2>2 DEF RetryNext
  <1>3. CASE ExitNext
    BY <1>0, <1>3 DEF ExitNext, WorkerEnds, ExitClosed, ExitError, ExitNormal, ExitPersist,
                      ExitFinish, slotVars
  <1>4. CASE OtherNext
    BY <1>4 DEF OtherNext, EscalationBegin, EscalationEnds, PauseWorker, ResumeWorker,
                MoveTicket, LeaseLapses, slotVars
  <1>5. CASE UNCHANGED vars
    BY <1>5 DEF vars
  <1> QED BY <1>1, <1>2, <1>3, <1>4, <1>5 DEF Next

(* A slot that is left is one the running workers do not fill. *)
LEMMA SlotLeft ==
    ASSUME AvailableSlots # 0
    PROVE  Cardinality(Running) + 1 <= MaxAgents
  <1> DEFINE waiting == {i \in Retrying : retry[i].slot}
  <1>1. IsFiniteSet(Running) /\ IsFiniteSet(waiting)
    BY FS_Subset, DispatchAssumption DEF Running, Retrying
  <1>2. Cardinality(Running) \in Nat /\ Cardinality(waiting) \in Nat
    BY <1>1, FS_CardinalityType
  <1>3. ~(Cardinality(Running) + Cardinality(waiting) >= MaxAgents)
    BY DEF AvailableSlots
  <1> HIDE DEF waiting
  <1> QED BY <1>2, <1>3, DispatchAssumption

LEMMA CapKept ==
    ASSUME Sound, HoldsSettle, RunningWithinCap, [Next]_vars
    PROVE  RunningWithinCap'
  <1>0. /\ IsFiniteSet(Running) /\ Cardinality(Running) \in Nat /\ MaxAgents \in Nat
        /\ IsFiniteSet(Running') /\ Cardinality(Running') \in Nat
    BY FS_Subset, FS_CardinalityType, DispatchAssumption DEF Running
  <1>1. CASE \A i \in Issues : running'[i] \in {running[i], NoTask}
    <2>1. Running' \subseteq Running
      BY <1>1 DEF Running
    <2>2. Cardinality(Running') <= Cardinality(Running)
      BY <1>0, <2>1, FS_Subset
    <2> QED BY <1>0, <2>2 DEF RunningWithinCap
  <1>2. ASSUME NEW i \in Issues, StartsOne(i) PROVE RunningWithinCap'
    <2>1. Running' \subseteq Running \cup {i}
      BY <1>2 DEF StartsOne, StartRun, Running, Sound, TypeOK
    <2>2. /\ IsFiniteSet(Running \cup {i})
          /\ Cardinality(Running \cup {i}) <= Cardinality(Running) + 1
          /\ Cardinality(Running \cup {i}) \in Nat
      <3>1. /\ IsFiniteSet(Running \cup {i})
            /\ \/ Cardinality(Running \cup {i}) = Cardinality(Running)
               \/ Cardinality(Running \cup {i}) = Cardinality(Running) + 1
        BY <1>0, FS_AddElement
      <3> QED BY <1>0, <3>1
    <2>3. Cardinality(Running') <= Cardinality(Running \cup {i})
      BY <2>1, <2>2, FS_Subset
    <2>4. Cardinality(Running) + 1 <= MaxAgents
      BY <1>2, SlotLeft DEF StartsOne
    <2> QED BY <1>0, <2>2, <2>3, <2>4 DEF RunningWithinCap
  <1> QED BY <1>1, <1>2, RunningStep

(* The reach of an event is fixed for a behaviour. *)
LEMMA WorldKept == [Next]_vars => UNCHANGED world
  <1>1. TickNext => UNCHANGED world
    BY DEF TickNext, TickStart, TickPrune, TickFetch, TickEnd, HoldEnds, EjectFinish, EjectKill,
           StallCancel, CancelClosed, ScanPass, ScanStart, HoldReopened
  <1>2. RetryNext => UNCHANGED world
    BY DEF RetryNext, RetryFire, RetryFetchFails, RetryMissing, RetryDecide
  <1>3. ExitNext => UNCHANGED world
    BY DEF ExitNext, WorkerEnds, ExitClosed, ExitError, ExitNormal, ExitPersist, ExitFinish
  <1>4. OtherNext => UNCHANGED world
    BY DEF OtherNext, EscalationBegin, EscalationEnds, PauseWorker, ResumeWorker,
           MoveTicket, LeaseLapses
  <1> QED BY <1>1, <1>2, <1>3, <1>4 DEF Next, vars

(* No more workers run than `agent.max_concurrent_agents`, whichever of    *)
(* the tick and the retry timers starts them (_available_slots,            *)
(* _process_retry, _on_tick): each decides in the step that starts.  Only  *)
(* a reopen hold that fails starts without a second look; where it cannot, *)
(* the cap holds for every number of tickets, tasks and slots, whatever    *)
(* else happens.                                                           *)
THEOREM CapHolds == Spec => [](HoldsSettle => RunningWithinCap)
  <1>1. Init => RunningWithinCap
    <2> SUFFICES ASSUME Init PROVE RunningWithinCap
      OBVIOUS
    <2>1. Running = {}
      BY DEF Init, Running
    <2> QED BY <2>1, FS_EmptySet, DispatchAssumption DEF RunningWithinCap
  <1>2. ASSUME Sound, HoldsSettle => RunningWithinCap, [Next]_vars
        PROVE  (HoldsSettle => RunningWithinCap)'
    <2>1. HoldsSettle' => HoldsSettle
      BY <1>2, WorldKept DEF HoldsSettle, Enabled
    <2> QED BY <1>2, <2>1, CapKept
  <1> QED BY <1>1, <1>2, DispatchStateIsSound, PTL DEF Spec

-----------------------------------------------------------------------------
(* Owners *)

(* Without stall timeouts no worker is ejected. *)
Calm ==
    /\ tick.zombies = {} /\ eject = NoEject
    /\ \A t \in Tasks : ~task[t].stalled

Handled(t) == task[t].phase \in {"handling", "tail"}

(* An entry of `_running` belongs to the worker of its ticket, and a       *)
(* worker's ticket has its entry.                                          *)
EntriesMatch ==
    /\ \A i \in Issues : running[i] # NoTask =>
          running[i] \in Tasks /\ task[running[i]].phase = "working" /\ task[running[i]].issue = i
    /\ \A t \in Tasks : task[t].phase = "working" => running[task[t].issue] = t

(* A ticket with an exit handler is marked as pending and does not run,    *)
(* and it has one handler.                                                 *)
HandlersMatch ==
    /\ \A t \in Tasks : Handled(t) =>
          task[t].issue \in pending /\ running[task[t].issue] = NoTask
    /\ \A t, u \in Tasks : Handled(t) /\ Handled(u) /\ t # u => task[t].issue # task[u].issue

Ownership == Calm /\ EntriesMatch /\ HandlersMatch

(* OneOwner, the property the runs check, is what the two say together. *)
LEMMA OwnershipGivesOneOwner == Sound /\ Ownership => OneOwner
  <1> SUFFICES ASSUME Sound, Ownership, NEW t \in Tasks, NEW u \in Tasks, t # u,
                      task[t].phase # "free", task[u].phase # "free",
                      task[t].issue = task[u].issue
               PROVE  FALSE
    BY DEF OneOwner
  <1>1. /\ task[t].phase = "working" \/ Handled(t)
        /\ task[u].phase = "working" \/ Handled(u)
        /\ NoTask \notin Tasks
    BY DispatchAssumption DEF Sound, TypeOK, Task, Handled
  <1> QED BY <1>1 DEF Ownership, EntriesMatch, HandlersMatch

(* What a step without stall timeouts does to the owners. *)
OwnersKept ==
    /\ UNCHANGED <<running, pending>>
    /\ \A t \in Tasks : /\ task'[t].issue = task[t].issue /\ task'[t].stalled = task[t].stalled
                         /\ \/ task'[t].phase = task[t].phase
                            \/ task[t].phase = "handling" /\ task'[t].phase = "tail"

(* A started run is that of a free task. *)
StartsRun(i) ==
    /\ i \in Issues /\ i \notin Running /\ i \notin pending /\ UNCHANGED pending
    /\ \E t \in Tasks, a \in Attempts :
          /\ task[t].phase = "free"
          /\ task' = [task EXCEPT ![t] = Working(i, a)] /\ running' = [running EXCEPT ![i] = t]

(* The worker that owns its entry ends; its handler begins. *)
HandlerBegins(t) ==
    /\ task[t].phase = "working"
    /\ running' = [running EXCEPT ![task[t].issue] = NoTask]
    /\ pending' = pending \cup {task[t].issue}
    /\ task'[t].phase = "handling" /\ task'[t].issue = task[t].issue
    /\ task'[t].stalled = task[t].stalled
    /\ \A u \in Tasks : u # t => task'[u] = task[u]

HandlerFinishes(t) ==
    /\ Handled(t) /\ UNCHANGED running
    /\ pending' = pending \ {task[t].issue}
    /\ task' = [task EXCEPT ![t] = FreeTask]

OwnerEffect ==
    \/ OwnersKept
    \/ \E i \in Issues : StartsRun(i)
    \/ \E t \in Tasks : HandlerBegins(t) \/ HandlerFinishes(t)

LEMMA StartsOneEffect ==
    ASSUME NEW i \in Issues, StartsOne(i), UNCHANGED pending
    PROVE  StartsRun(i)
  <1>1. PICK a \in Attempts : StartRun(i, a)
    BY DEF StartsOne
  <1>2. PICK t \in FreeTasks : /\ task' = [task EXCEPT ![t] = Working(i, a)]
                               /\ running' = [running EXCEPT ![i] = t]
    BY <1>1 DEF StartRun, Working
  <1>3. t \in Tasks /\ task[t].phase = "free"
    BY DEF FreeTasks
  <1> QED BY <1>2, <1>3 DEF StartsRun, StartsOne

(* A step of an exit handler that is past its beginning. *)
LEMMA HandlerGoesOn ==
    ASSUME Sound, NEW t \in Tasks, UNCHANGED <<running, pending>>,
           \/ /\ task[t].phase = "handling"
              /\ \E left \in {"none", "budget", "no_stage_change"} : Decided(t, left)
           \/ task' = [task EXCEPT ![t].left = "none"]
           \/ task' = [task EXCEPT ![t].cancelled = TRUE]
    PROVE  OwnersKept
  <1>1. task \in [Tasks -> Task] /\ task[t] \in Task
    BY DEF Sound, TypeOK
  <1>2. CASE /\ task[t].phase = "handling"
             /\ \E left \in {"none", "budget", "no_stage_change"} : Decided(t, left)
    <2>1. PICK left \in {"none", "budget", "no_stage_change"} :
              task' = [task EXCEPT ![t] = [task[t] EXCEPT !.phase = "tail", !.left = left]]
      BY <1>1, <1>2 DEF Decided
    <2>2. /\ task'[t].phase = "tail" /\ task'[t].issue = task[t].issue
          /\ task'[t].stalled = task[t].stalled /\ \A u \in Tasks : u # t => task'[u] = task[u]
      BY <1>1, <2>1 DEF Task
    <2> QED BY <1>2, <2>2 DEF OwnersKept
  <1>3. CASE \/ task' = [task EXCEPT ![t].left = "none"]
             \/ task' = [task EXCEPT ![t].cancelled = TRUE]
    BY <1>1, <1>3 DEF Task, OwnersKept
  <1> QED BY <1>2, <1>3

LEMMA OwnerStep ==
    ASSUME Sound, HoldsSettle, NoEjects, Ownership, [Next]_vars
    PROVE  OwnerEffect
  <1>0. task \in [Tasks -> Task]
    BY DEF Sound, TypeOK
  <1>k. ASSUME UNCHANGED <<running, pending, task>> PROVE OwnersKept
    BY <1>k DEF OwnersKept
  <1>1. CASE TickNext
    <2>1. CASE EjectFinish \/ \E z \in tick.zombies : EjectKill(z)
      BY <2>1 DEF EjectFinish, Ownership, Calm
    <2>2. CASE HoldEnds
      <3>1. RunsKept
        BY <2>2, HoldSettles
      <3> QED BY <1>k, <2>2, <3>1 DEF HoldEnds, RunsKept, OwnerEffect
    <2>3. ASSUME NEW i \in Issues, ScanStart(i) PROVE OwnerEffect
      <3>1. UNCHANGED pending
        BY <2>3 DEF ScanStart
      <3> QED BY <1>k, <2>3, <3>1, ScanStarts, StartsOneEffect DEF RunsKept, OwnerEffect
    <2>4. CASE \/ TickStart \/ TickPrune \/ TickFetch \/ TickEnd
               \/ \E i \in Issues : ScanPass(i) \/ HoldReopened(i)
      <3>1. UNCHANGED <<running, pending, task>>
        BY <2>4 DEF TickStart, TickPrune, TickFetch, TickEnd, ScanPass, HoldReopened, slotVars
      <3> QED BY <1>k, <3>1 DEF OwnerEffect
    <2>5. ASSUME NEW i \in Issues, StallCancel(i) PROVE OwnerEffect
      BY <2>5 DEF StallCancel, NoEjects
    <2>6. ASSUME NEW i \in Issues, CancelClosed(i) PROVE OwnerEffect
      <3>1. running[i] \in Tasks
        BY <2>6 DEF CancelClosed, Reconciling, Running, Sound, TypeOK
      <3>2. UNCHANGED <<running, pending>> /\ task' = [task EXCEPT ![running[i]].cancelled = TRUE]
        BY <2>6 DEF CancelClosed, slotVars
      <3> QED BY <3>1, <3>2, HandlerGoesOn DEF OwnerEffect
    <2> QED BY <1>1, <2>1, <2>2, <2>3, <2>4, <2>5, <2>6 DEF TickNext
  <1>2. CASE RetryNext
    <2>1. ASSUME NEW i \in Issues, RetryDecide(i) PROVE OwnerEffect
      <3>1. UNCHANGED pending
        BY <2>1 DEF RetryDecide
      <3> QED BY <1>k, <2>1, <3>1, RetryStarts, StartsOneEffect DEF RunsKept, OwnerEffect
    <2>2. ASSUME NEW i \in Issues, RetryFire(i) \/ RetryFetchFails(i) \/ RetryMissing(i)
          PROVE  UNCHANGED <<running, pending, task>>
      BY <2>2 DEF RetryFire, RetryFetchFails, RetryMissing
    <2> QED BY <1>2, <1>k, <2>1, <2>2 DEF RetryNext, OwnerEffect
  <1>3. CASE ExitNext
    <2>0. PICK t \in Tasks : \/ WorkerEnds(t) \/ ExitClosed(t) \/ ExitError(t)
                             \/ ExitNormal(t) \/ ExitPersist(t) \/ ExitFinish(t)
      BY <1>3 DEF ExitNext
    <2>1. CASE WorkerEnds(t)
      <3>1. Owns(t) /\ task[t].phase = "working" /\ task[t] \in Task
        BY <1>0, <2>1 DEF WorkerEnds, Owns, Ownership, EntriesMatch
      <3>2. PICK reason \in {"normal", "error", "cancelled"} :
                task' = [task EXCEPT ![t].phase = "handling", ![t].reason = reason,
                                     ![t].seen = board[task[t].issue]]
        BY <2>1, <3>1 DEF WorkerEnds
      <3>3. /\ task'[t].phase = "handling" /\ task'[t].issue = task[t].issue
            /\ task'[t].stalled = task[t].stalled
            /\ \A u \in Tasks : u # t => task'[u] = task[u]
        BY <1>0, <3>1, <3>2 DEF Task
      <3>4. /\ running' = [running EXCEPT ![task[t].issue] = NoTask]
            /\ pending' = pending \cup {task[t].issue}
        BY <2>1, <3>1 DEF WorkerEnds
      <3> QED BY <3>1, <3>3, <3>4 DEF HandlerBegins, OwnerEffect
    <2>2. CASE ExitClosed(t) \/ ExitError(t) \/ ExitNormal(t)
      <3>1. /\ UNCHANGED <<running, pending>> /\ task[t].phase = "handling"
            /\ \E left \in {"none", "budget", "no_stage_change"} : Decided(t, left)
        BY <2>2 DEF ExitClosed, ExitError, ExitNormal
      <3> QED BY <3>1, HandlerGoesOn DEF OwnerEffect
    <2>3. CASE ExitPersist(t)
      <3>1. UNCHANGED <<running, pending>> /\ task' = [task EXCEPT ![t].left = "none"]
        BY <2>3 DEF ExitPersist, slotVars
      <3> QED BY <3>1, HandlerGoesOn DEF OwnerEffect
    <2>4. CASE ExitFinish(t)
      BY <2>4 DEF ExitFinish, slotVars, OwnerEffect, HandlerFinishes, Handled
    <2> QED BY <2>0, <2>1, <2>2, <2>3, <2>4
  <1>4. CASE OtherNext
    <2>1. UNCHANGED <<running, pending, task>>
      BY <1>4 DEF OtherNext, EscalationBegin, EscalationEnds, PauseWorker, ResumeWorker,
                  MoveTicket, LeaseLapses, slotVars
    <2> QED BY <1>k, <2>1 DEF OwnerEffect
  <1>5. CASE UNCHANGED vars
    BY <1>5, <1>k DEF vars, OwnerEffect
  <1> QED BY <1>1, <1>2, <1>3, <1>4, <1>5 DEF Next

LEMMA OwnersStay ==
    ASSUME Sound, Ownership, OwnerEffect
    PROVE  EntriesMatch' /\ HandlersMatch' /\ \A t \in Tasks : ~task'[t].stalled
  <1>0. /\ task \in [Tasks -> Task] /\ running \in [Issues -> Tasks \cup {NoTask}]
        /\ NoTask \notin Tasks /\ TasksHaveIssue
    BY DispatchAssumption DEF Sound, TypeOK
  <1>1. EntriesMatch /\ HandlersMatch /\ \A t \in Tasks : ~task[t].stalled
    BY DEF Ownership, Calm
  <1>2. CASE OwnersKept
    BY <1>0, <1>1, <1>2 DEF OwnersKept, EntriesMatch, HandlersMatch, Handled, TasksHaveIssue
  <1>3. ASSUME NEW i \in Issues, StartsRun(i)
        PROVE  EntriesMatch' /\ HandlersMatch' /\ \A t \in Tasks : ~task'[t].stalled
    <2>1. PICK t \in Tasks, a \in Attempts :
              /\ task[t].phase = "free"
              /\ task' = [task EXCEPT ![t] = Working(i, a)] /\ running' = [running EXCEPT ![i] = t]
      BY <1>3 DEF StartsRun
    <2>2. /\ task'[t].phase = "working" /\ task'[t].issue = i /\ ~task'[t].stalled
          /\ \A u \in Tasks : u # t => task'[u] = task[u]
          /\ running'[i] = t /\ \A j \in Issues : j # i => running'[j] = running[j]
      BY <1>0, <2>1, WorkingType
    <2>3. running[i] = NoTask /\ i \notin pending /\ UNCHANGED pending
      BY <1>0, <1>3 DEF StartsRun, Running
    <2>4. EntriesMatch'
      BY <1>0, <1>1, <2>1, <2>2, <2>3 DEF EntriesMatch, TasksHaveIssue
    <2>5. HandlersMatch'
      BY <1>0, <1>1, <2>1, <2>2, <2>3 DEF HandlersMatch, Handled, TasksHaveIssue
    <2> QED BY <1>1, <2>2, <2>4, <2>5
  <1>4. ASSUME NEW t \in Tasks, HandlerBegins(t)
        PROVE  EntriesMatch' /\ HandlersMatch' /\ \A u \in Tasks : ~task'[u].stalled
    <2> DEFINE i == task[t].issue
    <2>1. i \in Issues /\ running[i] = t
      BY <1>0, <1>1, <1>4 DEF HandlerBegins, EntriesMatch, TasksHaveIssue
    <2>2. running'[i] = NoTask /\ (\A j \in Issues : j # i => running'[j] = running[j])
          /\ pending' = pending \cup {i}
      BY <1>0, <1>4, <2>1 DEF HandlerBegins
    <2>3. /\ task'[t].phase = "handling" /\ task'[t].issue = i /\ task'[t].stalled = task[t].stalled
          /\ \A u \in Tasks : u # t => task'[u] = task[u]
      BY <1>4 DEF HandlerBegins
    <2>4. \A u \in Tasks : u # t /\ task[u].phase # "free" => task[u].issue # i
      <3>1. \A u \in Tasks : u # t /\ task[u].phase = "working" => task[u].issue # i
        BY <1>1, <2>1 DEF EntriesMatch
      <3>2. \A u \in Tasks : Handled(u) => task[u].issue # i
        BY <1>0, <1>1, <2>1 DEF HandlersMatch
      <3> QED BY <1>0, <3>1, <3>2 DEF Handled, Task
    <2> HIDE DEF i
    <2>5. EntriesMatch'
      BY <1>0, <1>1, <2>1, <2>2, <2>3, <2>4 DEF EntriesMatch, TasksHaveIssue
    <2>6. HandlersMatch'
      BY <1>0, <1>1, <2>1, <2>2, <2>3, <2>4 DEF HandlersMatch, Handled, TasksHaveIssue
    <2> QED BY <1>1, <2>3, <2>5, <2>6
  <1>5. ASSUME NEW t \in Tasks, HandlerFinishes(t)
        PROVE  EntriesMatch' /\ HandlersMatch' /\ \A u \in Tasks : ~task'[u].stalled
    <2>1. /\ task'[t].phase = "free" /\ ~task'[t].stalled
          /\ \A u \in Tasks : u # t => task'[u] = task[u]
      BY <1>0, <1>5 DEF HandlerFinishes, FreeTask
    <2>2. Handled(t) /\ UNCHANGED running /\ pending' = pending \ {task[t].issue}
      BY <1>5 DEF HandlerFinishes
    <2>3. EntriesMatch'
      BY <1>0, <1>1, <2>1, <2>2 DEF EntriesMatch, Handled, TasksHaveIssue
    <2>4. HandlersMatch'
      BY <1>0, <1>1, <2>1, <2>2 DEF HandlersMatch, Handled
    <2> QED BY <1>1, <2>1, <2>3, <2>4
  <1> QED BY <1>2, <1>3, <1>4, <1>5 DEF OwnerEffect

LEMMA NoEjectAwaited ==
    ASSUME Sound, NoEjects, Calm, [Next]_vars
    PROVE  tick'.zombies = {} /\ eject' = NoEject
  <1>0. tick \in Tick /\ tick.zombies = {} /\ eject = NoEject
    BY DEF Sound, TypeOK, Calm
  <1>1. CASE TickNext
    <2>1. CASE TickStart
      <3>1. \A j \in Running : running[j] \in Tasks
        BY DEF Running, Sound, TypeOK
      <3>2. {j \in Running : task[running[j]].stalled} = {}
        BY <3>1 DEF Calm
      <3>3. tick' = [tick EXCEPT !.phase = "reconciling", !.zombies = {}]
        BY <2>1, <3>2 DEF TickStart
      <3> QED BY <1>0, <2>1, <3>3 DEF TickStart, Tick
    <2>2. CASE TickPrune \/ TickFetch \/ TickEnd
      <3>1. eject' = NoEject
        BY <1>0, <2>2 DEF TickPrune, TickFetch, TickEnd
      <3>2. CASE TickPrune
        BY <3>1, <3>2 DEF TickPrune, IdleTick
      <3>3. CASE TickFetch
        <4> DEFINE act == {i \in Issues : board[i] = "active"}
        <4>1. \/ tick' = [IdleTick EXCEPT !.phase = "scanning", !.todo = act, !.fetched = act]
              \/ tick' = IdleTick
          BY <3>3 DEF TickFetch
        <4> HIDE DEF act
        <4>2. /\ [IdleTick EXCEPT !.phase = "scanning", !.todo = act, !.fetched = act].zombies = {}
              /\ IdleTick.zombies = {}
          BY DEF IdleTick
        <4> QED BY <3>1, <4>1, <4>2
      <3>4. CASE TickEnd
        BY <3>1, <3>4 DEF TickEnd, IdleTick
      <3> QED BY <2>2, <3>1, <3>2, <3>3, <3>4
    <2>3. CASE HoldEnds
      BY <1>0, <2>3 DEF HoldEnds, Scanned, Tick
    <2>4. CASE EjectFinish \/ \E z \in tick.zombies : EjectKill(z)
      BY <1>0, <2>4 DEF EjectFinish
    <2>5. ASSUME NEW i \in Issues, ScanPass(i) \/ ScanStart(i)
          PROVE  tick'.zombies = {} /\ eject' = NoEject
      BY <1>0, <2>5 DEF ScanPass, ScanStart, Scanned, Tick
    <2>6. ASSUME NEW i \in Issues, HoldReopened(i)
          PROVE  tick'.zombies = {} /\ eject' = NoEject
      BY <1>0, <2>6 DEF HoldReopened, Tick
    <2>7. ASSUME NEW i \in Issues, StallCancel(i) \/ CancelClosed(i)
          PROVE  tick'.zombies = {} /\ eject' = NoEject
      BY <1>0, <2>7 DEF StallCancel, CancelClosed
    <2> QED BY <1>1, <2>1, <2>2, <2>3, <2>4, <2>5, <2>6, <2>7 DEF TickNext
  <1>2. CASE RetryNext
    BY <1>0, <1>2 DEF RetryNext, RetryFire, RetryFetchFails, RetryMissing, RetryDecide
  <1>3. CASE ExitNext
    BY <1>0, <1>3 DEF ExitNext, WorkerEnds, ExitClosed, ExitError, ExitNormal, ExitPersist,
                      ExitFinish
  <1>4. CASE OtherNext
    BY <1>0, <1>4 DEF OtherNext, EscalationBegin, EscalationEnds, PauseWorker, ResumeWorker,
                      MoveTicket, LeaseLapses
  <1>5. CASE UNCHANGED vars
    BY <1>0, <1>5 DEF vars
  <1> QED BY <1>1, <1>2, <1>3, <1>4, <1>5 DEF Next

(* A ticket has one worker at a time, counted until its exit handler has   *)
(* given it back (_on_worker_exit): the tick and the retry timers both see *)
(* the entry, then the in-flight mark, whether or not the registry grants  *)
(* leases.  It holds where no worker is force-ejected and no reopen hold   *)
(* fails, whatever else happens.                                           *)
THEOREM OneWorkerPerTicket == Spec => [](HoldsSettle /\ NoEjects => OneOwner)
  <1>1. Init => Ownership
    BY DispatchAssumption DEF Init, Ownership, Calm, EntriesMatch, HandlersMatch, Handled,
       IdleTick, NoEject, FreeTask
  <1>2. ASSUME Sound, HoldsSettle /\ NoEjects => Ownership, [Next]_vars
        PROVE  (HoldsSettle /\ NoEjects => Ownership)'
    <2>1. HoldsSettle' /\ NoEjects' => HoldsSettle /\ NoEjects
      BY <1>2, WorldKept DEF HoldsSettle, NoEjects, Enabled
    <2>2. HoldsSettle /\ NoEjects => Ownership'
      BY <1>2, OwnerStep, OwnersStay, NoEjectAwaited DEF Ownership, Calm
    <2> QED BY <2>1, <2>2
  <1>3. Sound /\ (HoldsSettle /\ NoEjects => Ownership) => (HoldsSettle /\ NoEjects => OneOwner)
    BY OwnershipGivesOneOwner
  <1> QED BY <1>1, <1>2, <1>3, DispatchStateIsSound, PTL DEF Spec

-----------------------------------------------------------------------------
(* Agents of one turn                                                      *)
AgentTyped ==
  /\ closed \in BOOLEAN /\ active \in Procs \cup {None} /\ launching \in Procs \cup {None}
  /\ group \in [Procs -> SUBSET Members]
  /\ turn \in {"idle", "spawn", "launch", "publish", "launch_failed", "closed_reap", "started",
               "stream", "timed_out", "linger", "settled", "final"}
  /\ stop \in {"idle", "running", "ok", "failed"}
  /\ ladder \in [Callers -> {"idle", "probe", "term", "check", "kill", "recheck", "gone", "unsure"}]

\* Who takes a group down, and what it has found when it says that it is gone:
(* while it is at work no new process takes the place of the one it found. *)
Ladders ==
  /\ ladder["turn"] # "idle" =>
       turn \in {"launch_failed", "closed_reap", "timed_out", "linger", "final"}
  /\ ladder["stop"] # "idle" => stop = "running"
  /\ stop = "running" => turn \notin {"spawn", "launch"}
  /\ \A c \in Callers : ladder[c] = "gone" /\ active # None =>
                          group[active] = {} /\ active \in reaped

(* A process that is about to be spawned is one that was never used, and   *)
(* the one that is being created is not the backend's yet.                 *)
Launching ==
  /\ turn = "spawn" => \E p \in Procs : ~Used(p)
  /\ turn \in {"spawn", "launch"} => active = None
  /\ launching # None <=> turn = "launch"

(* A live group is the one the backend holds or is about to hold, and a     *)
(* prompted one that it no longer holds has been reaped, so that its number *)
(* is not used again.  So has one whose creation was cut off.               *)
Held ==
  /\ NoForgottenAgent
  /\ cut \subseteq reaped
  /\ \A p \in prompted : p \in Procs /\ (p \in reaped \/ p \in {active, launching})

\* stop() closes the backend.  What it leaves behind when it has returned is a
\* process that was launched beside it, which is never driven; it has no prompt
(* unless that is on its command line.                                     *)
Stopped ==
  /\ stop # "idle" => closed
  /\ ~OnCommandLine => launching \notin prompted
  /\ stop = "ok" /\ active # None =>
       /\ turn \in {"publish", "launch_failed", "closed_reap", "idle"}
       /\ ~OnCommandLine => active \notin prompted

AgentInv == AgentTyped /\ Ladders /\ Launching /\ Held /\ Stopped

-----------------------------------------------------------------------------
(* A set of natural numbers has a least element.                           *)
LEMMA LeastExists ==
  ASSUME NEW T \in SUBSET Nat, T # {}
  PROVE  \E x \in T : \A y \in T : x <= y
<1>1. PICK x \in T : \A y \in T : ~ (<<y, x>> \in OpToRel(<, Nat))
  BY NatLessThanWellFounded, WFMin
<1>2. ASSUME NEW y \in T PROVE x <= y
  <2>1. ~(y < x)
    BY <1>1 DEF OpToRel
  <2> QED BY <2>1
<1> QED BY <1>2

(* A backend starts without a process.                                     *)
LEMMA AgentStarts == InitAgent => AgentInv
  BY AgentAssumption DEF InitAgent, AgentInv, AgentTyped, Ladders, Launching, Held, Stopped,
     NoForgottenAgent, OnCommandLine, Clis, Callers, None

(* Groups that only lose members and are only reaped.                      *)
LEMMA GroupsShrink ==
  ASSUME AgentInv,
         group' \in [Procs -> SUBSET Members], \A p \in Procs : group'[p] \subseteq group[p],
         reaped \subseteq reaped', turn # "spawn" \/ reaped' = reaped,
         UNCHANGED <<kind, launching, cut, closed, active, turn, stop, prompted>>,
         ladder' \in [Callers -> {"idle", "probe", "term", "check", "kill", "recheck", "gone", "unsure"}],
         \A c \in Callers :
           /\ ladder[c] = "idle" <=> ladder'[c] = "idle"
           /\ ladder'[c] = "gone" /\ active # None =>
                ladder[c] = "gone" \/ (group[active] = {} /\ active \in reaped)
  PROVE  AgentInv'
<1> USE DEF AgentInv
<1>1. AgentTyped'
  BY DEF AgentTyped
<1>2. Ladders'
  <2>1. ASSUME NEW c \in Callers, ladder'[c] = "gone", active # None
        PROVE  group'[active] = {} /\ active \in reaped'
    <3>1. group[active] = {} /\ active \in reaped
      BY <2>1 DEF Ladders
    <3> QED BY <2>1, <3>1 DEF AgentTyped
  <2> QED BY <2>1 DEF Ladders, Callers
<1>3. Launching'
  BY DEF Launching, Used, AgentTyped
<1>4. Held'
  BY DEF Held, NoForgottenAgent
<1>5. Stopped'
  BY DEF Stopped, OnCommandLine
<1> QED BY <1>1, <1>2, <1>3, <1>4, <1>5

(* What the agent and the system do: processes fork, exit, are reaped.     *)
LEMMA SystemKeeps ==
  ASSUME AgentInv, NEW p \in Procs,
         Fork(p) \/ Exit(p, "leader") \/ Exit(p, "child") \/ Reap(p)
  PROVE  AgentInv'
<1>1. CASE Fork(p)
  <2>1. group[p] # {} /\ group' = [group EXCEPT ![p] = @ \cup {"child"}]
        /\ UNCHANGED <<kind, launching, cut, closed, active, reaped, turn, stop, ladder, prompted>>
    BY <1>1 DEF Fork
  <2>2. p \in {active, launching} \cup cut /\ (p = active => \A c \in Callers : ladder[c] # "gone")
    BY <2>1, AgentAssumption DEF AgentInv, Held, NoForgottenAgent, Ladders, None
  <2>3. \A q \in Procs : q # p => group'[q] = group[q]
    BY <2>1 DEF AgentInv, AgentTyped
  <2>4. AgentTyped'
    BY <2>1 DEF AgentInv, AgentTyped, Members
  <2>5. Ladders'
    BY <2>1, <2>2, <2>3 DEF AgentInv, AgentTyped, Ladders
  <2>6. Launching' /\ Stopped'
    <3>1. \A q \in Procs : Used(q)' <=> Used(q)
      BY <2>1, <2>3, <2>4 DEF Used, AgentInv, AgentTyped
    <3> QED BY <2>1, <3>1 DEF AgentInv, Launching, Stopped, OnCommandLine
  <2>7. Held'
    BY <2>1, <2>2, <2>3 DEF AgentInv, Held, NoForgottenAgent
  <2> QED BY <2>4, <2>5, <2>6, <2>7 DEF AgentInv
<1>2. ASSUME NEW m, Exit(p, m) PROVE AgentInv'
  <2>1. group' = [group EXCEPT ![p] = @ \ {m}]
        /\ UNCHANGED <<kind, launching, cut, closed, active, reaped, turn, stop, ladder, prompted>>
    BY <1>2 DEF Exit
  <2>2. group' \in [Procs -> SUBSET Members] /\ \A q \in Procs : group'[q] \subseteq group[q]
    BY <2>1 DEF AgentInv, AgentTyped
  <2> QED BY <2>1, <2>2, GroupsShrink DEF AgentInv, AgentTyped
<1>3. CASE Reap(p)
  <2>1. UNCHANGED <<kind, launching, cut, group, closed, active, turn, stop, ladder, prompted>>
        /\ reaped' = reaped \cup {p} /\ p \in {active, launching}
    BY <1>3 DEF Reap
  <2>2. turn # "spawn"
    BY <2>1, AgentAssumption DEF AgentInv, Launching, None
  <2> QED BY <2>1, <2>2, GroupsShrink DEF AgentInv, AgentTyped
<1> QED BY <1>1, <1>2, <1>3

(* The rungs of terminate_process_tree: a verdict "gone" is about a group  *)
(* that is empty and whose leader was reaped.                              *)
LEMMA TerminateKeeps ==
  ASSUME AgentInv, NEW c \in Callers, Terminate(c)
  PROVE  AgentInv'
<1> USE DEF Quiet, Process, Settle
<1>1. turn # "spawn" /\ ladder[c] # "idle" /\ ladder[c] # "gone"
  BY DEF Terminate, FirstProbe, Signal, CheckProbe, LastProbe, AgentInv, Ladders, Callers
<1>2. ASSUME NEW v, ladder' = [ladder EXCEPT ![c] = v],
             v \in {"term", "check", "kill", "recheck", "gone", "unsure"},
             v = "gone" => group[Target] = {} /\ Target \in reaped,
             UNCHANGED <<group, reaped>>,
             UNCHANGED <<kind, launching, cut, closed, active, turn, stop, prompted>>
      PROVE  AgentInv'
  <2>1. ladder' \in [Callers -> {"idle", "probe", "term", "check", "kill", "recheck", "gone", "unsure"}]
    BY <1>2 DEF AgentInv, AgentTyped
  <2>2. \A d \in Callers :
           /\ ladder[d] = "idle" <=> ladder'[d] = "idle"
           /\ ladder'[d] = "gone" /\ active # None =>
                ladder[d] = "gone" \/ (group[active] = {} /\ active \in reaped)
    BY <1>1, <1>2 DEF AgentInv, AgentTyped, Target
  <2> QED BY <1>2, <2>1, <2>2, GroupsShrink DEF AgentInv, AgentTyped
<1>3. CASE FirstProbe(c)
  <2>1. PICK v \in {"gone", "there", "blind"} :
           Probe(Target, v) /\ ladder' = [ladder EXCEPT ![c] = FirstVerdict(Target, v)]
    BY <1>3 DEF FirstProbe
  <2>2. FirstVerdict(Target, v) \in {"term", "gone", "unsure"}
        /\ (FirstVerdict(Target, v) = "gone" => group[Target] = {} /\ Target \in reaped)
    BY <2>1 DEF FirstVerdict, Probe
  <2> HIDE DEF FirstVerdict
  <2> QED BY <1>2, <1>3, <2>1, <2>2 DEF FirstProbe
<1>4. CASE CheckProbe(c)
  <2>1. PICK v \in {"gone", "there", "blind"} : Probe(Target, v) /\
           ladder' = [ladder EXCEPT ![c] = IF v = "there" THEN "kill" ELSE IF v = "blind" \/ Target \notin reaped THEN "unsure" ELSE "gone"]
    BY <1>4 DEF CheckProbe
  <2>2. PICK w \in {"kill", "unsure", "gone"} :
           ladder' = [ladder EXCEPT ![c] = w] /\ (w = "gone" => group[Target] = {} /\ Target \in reaped)
    BY <2>1 DEF Probe
  <2> QED BY <1>2, <1>4, <2>2 DEF CheckProbe
<1>5. CASE LastProbe(c)
  <2>1. PICK v \in {"gone", "there", "blind"} : Probe(Target, v) /\
           ladder' = [ladder EXCEPT ![c] = IF v = "gone" /\ Target \in reaped THEN "gone" ELSE "unsure"]
    BY <1>5 DEF LastProbe
  <2>2. PICK w \in {"unsure", "gone"} :
           ladder' = [ladder EXCEPT ![c] = w] /\ (w = "gone" => group[Target] = {} /\ Target \in reaped)
    BY <2>1 DEF Probe
  <2> QED BY <1>2, <1>5, <2>2 DEF LastProbe
<1>6. ASSUME NEW from, NEW to \in {"check", "recheck"}, Signal(c, from, to) PROVE AgentInv'
  <2>1. PICK left \in SUBSET group[Target] :
           /\ group' = [group EXCEPT ![Target] = left]
           /\ reaped \subseteq reaped'
    BY <1>6 DEF Signal
  <2>2. ladder' = [ladder EXCEPT ![c] = to] /\ UNCHANGED <<kind, launching, cut, closed, active, turn, stop, prompted>>
    BY <1>6 DEF Signal
  <2>3. group' \in [Procs -> SUBSET Members] /\ \A q \in Procs : group'[q] \subseteq group[q]
    <3>1. CASE Target \in Procs
      BY <2>1, <3>1 DEF AgentInv, AgentTyped
    <3>2. CASE Target \notin Procs
      <4>1. group' = group
        BY <2>1, <3>2 DEF AgentInv, AgentTyped
      <4> QED BY <4>1 DEF AgentInv, AgentTyped
    <3> QED BY <3>1, <3>2
  <2>4. ladder' \in [Callers -> {"idle", "probe", "term", "check", "kill", "recheck", "gone", "unsure"}]
    BY <2>2 DEF AgentInv, AgentTyped
  <2>5. \A d \in Callers :
           /\ ladder[d] = "idle" <=> ladder'[d] = "idle"
           /\ ladder'[d] = "gone" => ladder[d] = "gone"
    BY <1>1, <2>2 DEF AgentInv, AgentTyped
  <2> QED BY <1>1, <2>1, <2>2, <2>3, <2>4, <2>5, GroupsShrink
<1> QED BY <1>3, <1>4, <1>5, <1>6 DEF Terminate

(* A step of the turn that leaves the process as it is.                    *)
LEMMA TurnGoesOn ==
  ASSUME AgentInv, UNCHANGED <<kind, launching, cut, closed, active, group, reaped, stop, prompted>>,
         NEW t \in {"idle", "publish", "launch_failed", "closed_reap", "started", "stream",
                    "timed_out", "linger", "settled", "final"},
         NEW l \in {"idle", "probe", "term", "check", "kill", "recheck", "gone", "unsure"},
         turn' = t, ladder' = [ladder EXCEPT !["turn"] = l],
         l # "idle" => t \in {"launch_failed", "closed_reap", "timed_out", "linger", "final"},
         l = "gone" => ladder["turn"] = "gone", turn \notin {"spawn", "launch"},
         stop = "ok" /\ active # None => t \in {"publish", "launch_failed", "closed_reap", "idle"}
  PROVE  AgentInv'
<1> USE DEF AgentInv
<1>1. AgentTyped'
  BY DEF AgentTyped, Callers
<1>2. ladder'["turn"] = l /\ ladder'["stop"] = ladder["stop"]
  BY DEF AgentTyped, Callers
<1>3. Ladders'
  <2>1. ASSUME NEW c \in Callers, ladder'[c] = "gone", active # None
        PROVE  group[active] = {} /\ active \in reaped
    BY <1>2, <2>1 DEF Ladders, Callers
  <2> QED BY <1>2, <2>1 DEF Ladders
<1>4. Launching' /\ Held'
  BY DEF Launching, Held, NoForgottenAgent
<1>5. Stopped'
  <2>1. OnCommandLine' <=> OnCommandLine
    BY DEF OnCommandLine
  <2>2. stop = "ok" /\ active # None => turn' \in {"publish", "launch_failed", "closed_reap", "idle"}
    OBVIOUS
  <2> HIDE DEF OnCommandLine
  <2> QED BY <2>1, <2>2 DEF Stopped
<1> QED BY <1>1, <1>3, <1>4, <1>5

(* A caller that found the group gone lets go of the process.              *)
LEMMA ProcessIsLeft ==
  ASSUME AgentInv, NEW c \in Callers, ladder[c] \in {"gone", "unsure"}, active' = Keep(c),
         ladder' = [ladder EXCEPT ![c] = "idle"], UNCHANGED <<kind, launching, cut, closed, group, reaped, prompted>>,
         turn' \in {"idle", "spawn", "launch", "publish", "launch_failed", "closed_reap", "started",
                    "stream", "timed_out", "linger", "settled", "final"},
         stop' \in {"idle", "running", "ok", "failed"},
         c = "turn" => turn' = "idle" /\ stop' = stop,
         c = "stop" => turn' = turn /\ stop' = IF ladder[c] = "gone" THEN "ok" ELSE "failed"
  PROVE  AgentInv'
<1> USE DEF AgentInv
<1>1. active' = None \/ (active' = active /\ ladder[c] = "unsure")
  BY DEF Keep
<1>2. launching = None
  BY DEF Launching, Ladders, Callers
<1>3. active' = None => \A p \in Procs \ cut : group[p] = {} /\ (active = p => p \in reaped)
  <2> SUFFICES ASSUME active' = None, NEW p \in Procs \ cut
               PROVE  group[p] = {} /\ (active = p => p \in reaped)
    OBVIOUS
  <2>1. p # None
    BY AgentAssumption DEF None
  <2>2. CASE active = p
    BY <2>1, <2>2 DEF Keep, Ladders
  <2>3. CASE active # p
    BY <1>2, <2>1, <2>3 DEF Held, NoForgottenAgent
  <2> QED BY <2>2, <2>3
<1>11. turn \notin {"spawn", "launch"} /\ turn' \notin {"spawn", "launch"}
  BY DEF Ladders, Callers
<1>4. AgentTyped'
  BY <1>1 DEF AgentTyped, Callers
<1>5. ladder'["turn"] # "idle" => c = "stop" /\ ladder'["turn"] = ladder["turn"]
  BY DEF AgentTyped, Callers
<1>6. ladder'["stop"] # "idle" => c = "turn" /\ ladder'["stop"] = ladder["stop"]
  BY DEF AgentTyped, Callers
<1>7. Ladders'
  <2>1. ASSUME NEW d \in Callers, ladder'[d] = "gone", active' # None
        PROVE  group[active'] = {} /\ active' \in reaped
    <3>1. active' = active /\ ladder[d] = "gone"
      BY <1>1, <1>5, <1>6, <2>1 DEF Callers
    <3> QED BY <2>1, <3>1 DEF Ladders
  <2>2. ladder'["turn"] # "idle" =>
          turn' \in {"launch_failed", "closed_reap", "timed_out", "linger", "final"}
    BY <1>5 DEF Ladders
  <2>3. ladder'["stop"] # "idle" => stop' = "running"
    BY <1>6 DEF Ladders
  <2> QED BY <1>11, <2>1, <2>2, <2>3 DEF Ladders
<1>8. Launching'
  BY <1>2, <1>11 DEF Launching
<1>9. Held'
  BY <1>1, <1>2, <1>3 DEF Held, NoForgottenAgent
<1>10. Stopped'
  <2>1. stop' # "idle" => closed
    BY DEF Stopped, Ladders, Callers
  <2>2. ASSUME stop' = "ok", active' # None
        PROVE  /\ turn' \in {"publish", "launch_failed", "closed_reap", "idle"}
               /\ ~OnCommandLine => active' \notin prompted
    BY <1>1, <2>2 DEF Stopped, Callers
  <2> QED BY <2>1, <2>2 DEF Stopped, OnCommandLine
<1> QED BY <1>4, <1>7, <1>8, <1>9, <1>10

(* A launch, up to its publication or its clean-up.                        *)
LEMMA LaunchKeeps ==
  ASSUME AgentInv, RunTurn \/ Spawn \/ Own \/ LaunchCut \/ Publish \/ LaunchFails \/ LaunchCleaned
  PROVE  AgentInv'
<1> USE DEF AgentInv
<1>1. CASE RunTurn
  <2>1. active = None /\ ~closed /\ turn = "idle" /\ turn' = "spawn" /\ (\E p \in Procs : ~Used(p))
        /\ UNCHANGED <<kind, launching, cut, closed, active, group, reaped, stop, ladder, prompted>>
    BY <1>1 DEF RunTurn, MayRun
  <2>2. AgentTyped' /\ Held'
    BY <2>1 DEF AgentTyped, Held, NoForgottenAgent
  <2>3. Ladders'
    BY <2>1 DEF Ladders, Stopped, Callers
  <2>4. Launching' /\ Stopped'
    BY <2>1 DEF Launching, Stopped, Used, OnCommandLine
  <2> QED BY <2>2, <2>3, <2>4
<1>2. CASE Spawn
  <2> DEFINE q == CHOOSE q \in Procs : ~Used(q) /\ \A o \in Procs : o < q => Used(o)
  <2>1. q \in Procs /\ ~Used(q)
    <3>1. PICK r \in {r \in Procs : ~Used(r)} : \A o \in {r1 \in Procs : ~Used(r1)} : r <= o
      <4>1. {r \in Procs : ~Used(r)} \in SUBSET Nat /\ {r \in Procs : ~Used(r)} # {}
        BY <1>2, AgentAssumption DEF Spawn, Launching
      <4> HIDE DEF AgentInv
      <4> QED BY <4>1, LeastExists
    <3>2. \A o \in Procs : o < r => Used(o)
      BY <3>1, AgentAssumption
    <3> QED BY <3>1, <3>2
  <2>2. /\ active = None /\ launching = None /\ turn = "spawn" /\ turn' = "launch" /\ launching' = q
        /\ group' = [group EXCEPT ![q] = {"leader"}]
        /\ prompted' = IF OnCommandLine THEN prompted \cup {q} ELSE prompted
        /\ UNCHANGED <<kind, cut, closed, active, reaped, stop, ladder>>
    BY <1>2 DEF Spawn, Launching
  <2> HIDE DEF q
  <2>3. q \notin prompted /\ q # None
    BY <2>1, <2>2, AgentAssumption DEF Held, Used, None
  <2>4. \A p \in Procs \ cut : p # q => group'[p] = {}
    BY <2>1, <2>2, AgentAssumption DEF Held, NoForgottenAgent, AgentTyped, None
  <2>5. AgentTyped'
    BY <2>1, <2>2 DEF AgentTyped, Members
  <2>6. Ladders'
    BY <2>2 DEF Ladders, Callers
  <2>7. Held'
    <3>1. NoForgottenAgent' /\ cut' \subseteq reaped'
      BY <2>2, <2>4 DEF Held, NoForgottenAgent
    <3>2. \A p \in prompted' : p \in Procs /\ (p \in reaped' \/ p \in {active', launching'})
      BY <2>1, <2>2, AgentAssumption DEF Held, None
    <3> QED BY <3>1, <3>2 DEF Held
  <2>8. Launching' /\ Stopped'
    BY <2>2, <2>3 DEF Launching, Stopped, OnCommandLine
  <2> QED BY <2>5, <2>6, <2>7, <2>8
<1>6. CASE Own
  <2>1. /\ turn = "launch" /\ turn' = "publish" /\ active' = launching /\ launching' = None
        /\ active = None /\ launching # None /\ stop # "running"
        /\ UNCHANGED <<kind, cut, closed, group, reaped, stop, ladder, prompted>>
    BY <1>6 DEF Own, Launching, Ladders
  <2>2. AgentTyped' /\ Launching'
    BY <2>1 DEF AgentTyped, Launching
  <2>3. Ladders'
    BY <2>1 DEF Ladders, Callers
  <2>4. Held'
    BY <2>1, AgentAssumption DEF Held, NoForgottenAgent, None
  <2>5. Stopped'
    BY <2>1, AgentAssumption DEF Stopped, OnCommandLine, Held, None
  <2> QED BY <2>2, <2>3, <2>4, <2>5
<1>7. CASE LaunchCut
  <2>1. /\ turn \in {"spawn", "launch"} /\ turn' = "idle" /\ launching' = None /\ active = None
        /\ stop # "running" /\ UNCHANGED <<kind, closed, active, stop, ladder, prompted>>
    BY <1>7 DEF LaunchCut, Launching, Ladders
  <2>2. CASE turn = "spawn"
    <3>1. launching = None /\ UNCHANGED <<cut, group, reaped>>
      BY <1>7, <2>1, <2>2 DEF LaunchCut, Launching
    <3>2. AgentTyped' /\ Launching' /\ Held' /\ Stopped'
      BY <2>1, <3>1 DEF AgentTyped, Launching, Held, NoForgottenAgent, Stopped, OnCommandLine
    <3>3. Ladders'
      BY <2>1 DEF Ladders, Callers
    <3> QED BY <3>2, <3>3
  <2>3. CASE turn = "launch"
    <3>1. /\ launching \in Procs /\ group' = [group EXCEPT ![launching] = @ \ {"leader"}]
          /\ reaped' = reaped \cup {launching} /\ cut' = cut \cup {launching}
      BY <1>7, <2>1, <2>3 DEF LaunchCut, Launching, AgentTyped
    <3>2. AgentTyped'
      BY <2>1, <3>1 DEF AgentTyped
    <3>3. Launching' /\ Stopped'
      BY <2>1, AgentAssumption DEF Launching, Stopped, OnCommandLine, Held, None
    <3>4. Ladders'
      BY <2>1 DEF Ladders, Callers
    <3>5. Held'
      <4>1. \A p \in Procs : p # launching => group'[p] = group[p]
        BY <3>1 DEF AgentTyped
      <4>2. NoForgottenAgent'
        BY <2>1, <3>1, <4>1, AgentAssumption DEF Held, NoForgottenAgent, None
      <4>3. \A p \in prompted' : p \in Procs /\ (p \in reaped' \/ p \in {active', launching'})
        BY <2>1, <3>1, AgentAssumption DEF Held, None
      <4> QED BY <3>1, <4>2, <4>3 DEF Held
    <3> QED BY <3>2, <3>3, <3>4, <3>5
  <2> QED BY <2>1, <2>2, <2>3
<1>3. CASE Publish
  <2>1. ladder["turn"] = "idle" /\ ladder = [ladder EXCEPT !["turn"] = "idle"]
    BY <1>3 DEF Publish, Ladders, AgentTyped, Callers
  <2>2. CASE closed
    BY <1>3, <2>2, TurnGoesOn DEF Publish, AfterLaunch, Begin
  <2>3. CASE ~closed
    BY <1>3, <2>1, <2>3, TurnGoesOn DEF Publish, AfterLaunch, Stopped
  <2> QED BY <2>2, <2>3
<1>4. CASE LaunchFails
  BY <1>4, TurnGoesOn DEF LaunchFails, Begin
<1>5. CASE LaunchCleaned
  <2>1. active' = Keep("turn") /\ ladder["turn"] \in {"gone", "unsure"} /\ turn' = "idle"
        /\ ladder' = [ladder EXCEPT !["turn"] = "idle"]
        /\ UNCHANGED <<kind, launching, cut, closed, group, reaped, stop, prompted>>
    BY <1>5 DEF LaunchCleaned, Keep, Clear
  <2> QED BY <2>1, ProcessIsLeft DEF Callers, AgentTyped
<1> QED BY <1>1, <1>2, <1>3, <1>4, <1>5, <1>6, <1>7

(* The stream of a turn, its end, its timeout and its cancellation.        *)
LEMMA StreamKeeps ==
  ASSUME AgentInv,
         Malformed \/ Text \/ End("ok") \/ End("error") \/ ObserveSession(TRUE) \/ ObserveSession(FALSE)
         \/ StreamEnds \/ Linger \/ Lingered \/ TurnTimeout \/ TimedOut \/ CompleteTurn \/ CancelTurn
  PROVE  AgentInv'
<1> USE DEF AgentInv
<1>1. /\ turn \in {"started", "stream", "timed_out", "linger", "settled"}
      /\ UNCHANGED <<kind, launching, cut, closed, active, group, reaped, stop, prompted>>
  BY DEF Malformed, Text, End, Line, Reading, ObserveSession, StreamEnds, Linger, Lingered,
     TurnTimeout, TimedOut, CompleteTurn, CancelTurn
<1>2. ~(stop = "ok" /\ active # None)
  BY <1>1 DEF Stopped
<1>3. ladder = [ladder EXCEPT !["turn"] = ladder["turn"]]
      /\ ladder["turn"] \in {"idle", "probe", "term", "check", "kill", "recheck", "gone", "unsure"}
      /\ (ladder["turn"] # "idle" => turn \in {"timed_out", "linger"})
  BY <1>1 DEF AgentTyped, Callers, Ladders
<1>4. CASE turn' = turn /\ ladder' = ladder
  BY <1>1, <1>2, <1>3, <1>4, TurnGoesOn
<1>5. CASE /\ turn' \in {"linger", "timed_out", "final"}
           /\ ladder' = [ladder EXCEPT !["turn"] = "probe"]
  BY <1>1, <1>2, <1>5, TurnGoesOn
<1>6. CASE /\ turn' \in {"linger", "settled"} /\ ladder' = [ladder EXCEPT !["turn"] = "idle"]
  BY <1>1, <1>2, <1>6, TurnGoesOn
<1>7. CASE Malformed \/ Text \/ End("ok") \/ End("error")
  BY <1>4, <1>7 DEF Malformed, Text, End, Line
<1>8. CASE ObserveSession(TRUE) \/ ObserveSession(FALSE)
  BY <1>4, <1>5, <1>8 DEF ObserveSession, Begin
<1>9. CASE StreamEnds
  <2>1. ladder' = [ladder EXCEPT !["turn"] = "idle"]
    BY <1>3, <1>9 DEF StreamEnds
  <2> QED BY <1>6, <1>9, <2>1 DEF StreamEnds
<1>10. CASE Linger
  <2>1. turn' = "settled" /\ ladder' = ladder => ladder' = [ladder EXCEPT !["turn"] = "idle"]
    BY <1>3, <1>10 DEF Linger
  <2> QED BY <1>5, <1>6, <1>10, <2>1 DEF Linger, Begin
<1>11. CASE Lingered
  BY <1>5, <1>6, <1>11 DEF Lingered, Begin, Clear
<1>12. CASE TurnTimeout \/ TimedOut \/ CompleteTurn \/ CancelTurn
  BY <1>5, <1>12 DEF TurnTimeout, TimedOut, CompleteTurn, CancelTurn, Begin
<1> QED BY <1>7, <1>8, <1>9, <1>10, <1>11, <1>12

(* The prompt goes only to a process that stop() has not taken down.       *)
LEMMA PromptKeeps ==
  ASSUME AgentInv, Prompt
  PROVE  AgentInv'
<1> USE DEF AgentInv
<1>1. turn = "started" /\ UNCHANGED <<kind, launching, cut, closed, active, group, reaped, stop>>
      /\ ~(stop = "ok" /\ active # None)
  BY DEF Prompt, Stopped
<1>2. CASE ~OnCommandLine /\ active # None /\ "leader" \in group[active]
  <2>1. turn' = "stream" /\ prompted' = prompted \cup {active} /\ ladder' = ladder
    BY <1>2 DEF Prompt
  <2>2. AgentTyped' /\ Launching' /\ Stopped'
    BY <1>1, <1>2, <2>1, AgentAssumption DEF AgentTyped, Launching, Stopped, OnCommandLine, None
  <2>3. Ladders'
    BY <1>1, <2>1 DEF Ladders
  <2>4. Held'
    BY <1>1, <1>2, <2>1 DEF Held, NoForgottenAgent, AgentTyped
  <2> QED BY <2>2, <2>3, <2>4
<1>3. CASE ~OnCommandLine /\ ~(active # None /\ "leader" \in group[active])
  BY <1>1, <1>3, TurnGoesOn DEF Prompt, Begin
<1>4. CASE OnCommandLine
  <2>1. turn' = "stream" /\ UNCHANGED <<ladder, prompted>>
        /\ ladder["turn"] = "idle" /\ ladder = [ladder EXCEPT !["turn"] = "idle"]
    BY <1>1, <1>4 DEF Prompt, AgentTyped, Ladders, Callers
  <2> QED BY <1>1, <2>1, TurnGoesOn
<1> QED BY <1>2, <1>3, <1>4

(* stop() and the end of a turn.                                           *)
LEMMA StopKeeps ==
  ASSUME AgentInv, Stop \/ StopReturns \/ EndTurn
  PROVE  AgentInv'
<1> USE DEF AgentInv
<1>1. CASE Stop
  <2>1. stop # "running" /\ closed' = TRUE /\ UNCHANGED <<kind, launching, cut, active, group, reaped, turn, prompted>>
    BY <1>1 DEF Stop
  <2>2. CASE active = None
    <3>1. stop' = "ok" /\ ladder' = ladder
      BY <1>1, <2>2 DEF Stop
    <3>2. AgentTyped' /\ Launching' /\ Held' /\ Stopped'
      BY <2>1, <2>2, <3>1 DEF AgentTyped, Launching, Held, NoForgottenAgent, Stopped, Used, OnCommandLine
    <3>3. Ladders'
      BY <2>1, <3>1 DEF Ladders
    <3> QED BY <3>2, <3>3
  <2>3. CASE active # None
    <3>1. stop' = "running" /\ ladder' = [ladder EXCEPT !["stop"] = "probe"]
      BY <1>1, <2>3 DEF Stop, Begin
    <3>2. AgentTyped' /\ Launching' /\ Held' /\ Stopped'
      BY <2>1, <2>3, <3>1 DEF AgentTyped, Launching, Held, NoForgottenAgent, Stopped, Used,
         OnCommandLine, Callers
    <3>3. ladder'["stop"] = "probe" /\ ladder'["turn"] = ladder["turn"]
      BY <3>1 DEF AgentTyped, Callers
    <3>4. turn \notin {"spawn", "launch"}
      BY <2>3 DEF Launching
    <3>5. Ladders'
      BY <2>1, <3>1, <3>3, <3>4 DEF Ladders, Callers
    <3> QED BY <3>2, <3>5
  <2> QED BY <2>2, <2>3
<1>2. CASE StopReturns
  <2>1. /\ ladder["stop"] \in {"gone", "unsure"} /\ active' = Keep("stop") /\ turn' = turn
        /\ stop' = IF ladder["stop"] = "gone" THEN "ok" ELSE "failed"
        /\ ladder' = [ladder EXCEPT !["stop"] = "idle"]
        /\ UNCHANGED <<kind, launching, cut, closed, group, reaped, prompted>>
    BY <1>2 DEF StopReturns, Clear
  <2> QED BY <2>1, ProcessIsLeft DEF Callers, AgentTyped
<1>3. CASE EndTurn
  <2>1. /\ ladder["turn"] \in {"gone", "unsure"} /\ active' = Keep("turn") /\ turn' = "idle"
        /\ ladder' = [ladder EXCEPT !["turn"] = "idle"]
        /\ UNCHANGED <<kind, launching, cut, closed, group, reaped, stop, prompted>>
    BY <1>3 DEF EndTurn, Clear
  <2> QED BY <2>1, ProcessIsLeft DEF Callers, AgentTyped
<1> QED BY <1>1, <1>2, <1>3

(* The backend of one-turn agents is sound, for any number of processes,   *)
(* faults, stops and cancellations (per_turn.py run_turn and stop, _shell.py*)
(* terminate_process_tree).                                                *)
THEOREM AgentsAreSound == AgentSpec => []AgentInv
<1>1. AgentInv /\ [NextAgent]_agentVars => AgentInv'
  <2> SUFFICES ASSUME AgentInv, [NextAgent]_agentVars PROVE AgentInv'
    OBVIOUS
  <2>1. CASE TurnStep
    BY <2>1, LaunchKeeps, StreamKeeps, PromptKeeps, StopKeeps DEF TurnStep
  <2>2. CASE Stop \/ StopReturns
    BY <2>2, StopKeeps
  <2>3. CASE \E c \in Callers : Terminate(c)
    BY <2>3, TerminateKeeps
  <2>4. CASE \E p \in Procs : Fork(p) \/ Exit(p, "leader") \/ Exit(p, "child") \/ Reap(p)
    BY <2>4, SystemKeeps
  <2>5. CASE UNCHANGED agentVars
    BY <2>5 DEF agentVars, AgentInv, AgentTyped, Ladders, Launching, Used, Held,
       NoForgottenAgent, Stopped, OnCommandLine
  <2> QED BY <2>1, <2>2, <2>3, <2>4, <2>5 DEF NextAgent
<1> QED BY <1>1, AgentStarts, PTL DEF AgentSpec

(* Once stop() has returned no turn is driven, and what runs with a prompt  *)
(* had it on its command line while it was being created (per_turn.py:288); *)
(* a live group is the one the backend holds or is being given, but for what*)
(* a process left whose creation was cut off.                               *)
THEOREM StopsHold == AgentSpec => [](StopHolds /\ NoForgottenAgent)
<1>1. AgentInv => StopHolds /\ NoForgottenAgent
  <2> SUFFICES ASSUME AgentInv PROVE StopHolds /\ NoForgottenAgent
    OBVIOUS
  <2>1. NoForgottenAgent
    BY DEF AgentInv, Held
  <2>2. ASSUME stop = "ok", NEW p \in prompted \ cut, group[p] # {}
        PROVE  OnCommandLine /\ (p = launching \/ (p = active /\ turn \in Undriven))
    <3>1. p \in Procs /\ p # None /\ p \in {active, launching}
      BY <2>2, AgentAssumption DEF AgentInv, Held, NoForgottenAgent, None
    <3> QED BY <2>2, <3>1 DEF AgentInv, Stopped, Undriven
  <2> QED BY <2>1, <2>2 DEF StopHolds
<1> QED BY <1>1, AgentsAreSound, PTL

-----------------------------------------------------------------------------
(* Long-lived agents *)

(* What is on a stream, and what an agent owes its client. *)
Frame == [t : {"update", "done"}, of : Nat] \cup [t : {"resp"}, id : Nat] \cup {[t |-> "bad"]}
Debt == [id : Nat, of : Nat, what : {"prompt", "setup", "replay"}]

(* The types of what the proof speaks of. *)
RpcTyped ==
  /\ protocol \in {"acp", "codex"} /\ reader \in {"none", "reading", "done"}
  /\ stage \in {"idle", "new", "load", "prompt", "wait", "complete", "abort"}
  /\ waiter \in {"none", "armed", "set", "failed"}
  /\ late \in BOOLEAN /\ alive \in BOOLEAN /\ shut \in BOOLEAN
  /\ out \in Seq(Frame) /\ owed \subseteq Debt
  /\ n \in Nat /\ nextId \in Nat /\ requests \subseteq 1..nextId

(* The turn that what is on the wire of an ACP agent belongs to. *)
Subject == IF stage = "wait" THEN n ELSE 0

(* One request is under way at a time, what the agent owes is its answer, and
   the updates on the wire are of it and before its answer. *)
Exchange ==
  /\ stage \in {"idle", "prompt", "complete"} => requests = {}
  /\ requests = {} => owed = {} /\ \A k \in 1..Len(out) : out[k].t = "bad"
  /\ (\A p, q \in requests : p = q) /\ (\A o, q \in owed : o = q)
  /\ \A o \in owed : o.id \in requests /\ o.of = Subject
  /\ \A k \in 1..Len(out) :
       /\ out[k].t # "done"
       /\ out[k].t = "update" => out[k].of = Subject
       /\ out[k].t = "resp" =>
            out[k].id \in requests /\ owed = {} /\ \A j \in (k + 1)..Len(out) : out[j].t = "bad"

(* ACP: while nothing was given up, the text and the completion are of the
   turn, and the exchange is in order as long as its stream is read. *)
AcpSound ==
  protocol = "acp" =>
    /\ waiter = "none" /\ (stage = "abort" => late)
    /\ ~late /\ stage \in {"wait", "complete"} => text \subseteq {n}
    /\ ~late /\ stage = "complete" => by = n
    /\ ~late /\ reader = "reading" => Exchange

(* Codex owes one notification, of the turn under way, until it is read. *)
Notice ==
  /\ \A o, q \in owed : o = q
  /\ \A o \in owed : o.of = n /\ waiter = "armed"
  /\ \A k \in 1..Len(out) : out[k].t = "done" =>
       /\ out[k].of = n /\ waiter = "armed" /\ owed = {}
       /\ \A j \in 1..Len(out) : out[j].t = "done" => j = k

(* Codex: only a turn under way waits for a completion, and the stream of a
   reader that ended is never used again. *)
CodexSound ==
  protocol = "codex" =>
    /\ stage \in {"idle", "prompt", "wait", "complete"} /\ reader # "none"
    /\ reader = "done" => shut \/ ~alive
    /\ waiter = "armed" => stage = "wait" /\ reader = "reading"
    /\ ~late /\ stage = "wait" /\ waiter = "set" => by = n
    /\ ~late /\ stage = "complete" => by = n
    /\ ~late /\ reader = "reading" => Notice

(* The invariant of a long-lived agent. *)
RpcInv == RpcTyped /\ AcpSound /\ CodexSound

(* A worker that has opened a session has nothing on the wire. *)
LEMMA RpcStarts == InitRpc => RpcInv
<1> SUFFICES ASSUME InitRpc PROVE RpcInv
  OBVIOUS
<1>1. RpcTyped
  <2>1. out = <<>> /\ owed = {} /\ requests = {}
    BY DEF InitRpc
  <2>2. out \in Seq(Frame) /\ owed \subseteq Debt /\ requests \subseteq 1..nextId
    BY <2>1
  <2> QED BY <2>2 DEF InitRpc, RpcTyped
<1>2. AcpSound /\ CodexSound
  <2>1. \A k \in 1..Len(out) : FALSE
    BY DEF InitRpc
  <2> QED BY <2>1 DEF InitRpc, AcpSound, CodexSound, Exchange, Notice
<1> QED BY <1>1, <1>2 DEF RpcInv

(* A frame is read. *)
LEMMA FrameRead ==
  ASSUME out \in Seq(Frame), out # <<>>, out' = Tail(out)
  PROVE  /\ out' \in Seq(Frame) /\ out[1] \in Frame /\ 1 \in 1..Len(out)
         /\ \A k \in 1..Len(out') : k + 1 \in 2..Len(out) /\ out'[k] = out[k + 1]
         /\ \A k \in Nat : \A j \in (k + 1)..Len(out') : j + 1 \in (k + 2)..Len(out)
  OBVIOUS

(* A frame is written. *)
LEMMA FrameWritten ==
  ASSUME out \in Seq(Frame), NEW f \in Frame, out' = Append(out, f)
  PROVE  /\ out' \in Seq(Frame)
         /\ \A k \in 1..Len(out') : (k \in 1..Len(out) /\ out'[k] = out[k]) \/ (k = Len(out) + 1 /\ out'[k] = f)
         /\ Len(out') = Len(out) + 1 /\ Len(out) \in Nat
  OBVIOUS

(* What leaves the turn alone. *)
LEMMA WiresKeep ==
  ASSUME RpcInv, out' \in Seq(Frame), owed' \subseteq Debt, alive' \in BOOLEAN, alive' => alive,
         UNCHANGED <<protocol, shut, reader, stage, n, nextId, requests, waiter, by, late>>,
         text' = text \/ (protocol = "acp" /\ ~late /\ stage \in {"wait", "complete"} => text' \subseteq {n}),
         protocol = "acp" /\ ~late /\ reader = "reading" => Exchange',
         protocol = "codex" /\ ~late /\ reader = "reading" => Notice'
  PROVE  RpcInv'
<1>1. RpcTyped'
  BY DEF RpcInv, RpcTyped
<1>2. AcpSound'
  BY DEF RpcInv, AcpSound
<1>3. CodexSound'
  BY DEF RpcInv, CodexSound
<1> QED BY <1>1, <1>2, <1>3 DEF RpcInv

(* Of what is on the wire something is read or lost. *)
LEMMA ExchangeShrinks ==
  ASSUME Exchange, out \in Seq(Frame), out' = out \/ (out # <<>> /\ out' = Tail(out)),
         owed' \subseteq owed, UNCHANGED <<stage, n, requests>>
  PROVE  Exchange'
<1> USE DEF Exchange, Subject
<1>1. CASE out' = out
  BY <1>1
<1>2. CASE out # <<>> /\ out' = Tail(out)
  <2>1. /\ \A k \in 1..Len(out') : k + 1 \in 1..Len(out) /\ out'[k] = out[k + 1]
    BY <1>2, FrameRead
  <2>2. ASSUME NEW k \in 1..Len(out') 
        PROVE  /\ out'[k].t # "done"
               /\ out'[k].t = "update" => out'[k].of = Subject
               /\ out'[k].t = "resp" => out'[k].id \in requests /\ owed = {}
    BY <2>1
  <2>3. ASSUME NEW k \in 1..Len(out'), out'[k].t = "resp", NEW j \in (k + 1)..Len(out')
        PROVE  out'[j].t = "bad"
    <3>1. j + 1 \in ((k + 1) + 1)..Len(out) /\ k + 1 \in 1..Len(out) /\ out'[j] = out[j + 1]
      BY <1>2, <2>1
    <3> QED BY <2>1, <2>3, <3>1
  <2>4. requests = {} => \A k \in 1..Len(out') : out'[k].t = "bad"
    BY <2>1
  <2> QED BY <2>2, <2>3, <2>4
<1> QED BY <1>1, <1>2

LEMMA NoticeShrinks ==
  ASSUME Notice, out \in Seq(Frame), out' = out \/ (out # <<>> /\ out' = Tail(out)),
         owed' \subseteq owed, UNCHANGED <<n, waiter>>
  PROVE  Notice'
<1> USE DEF Notice
<1>1. CASE out' = out
  BY <1>1
<1>2. CASE out # <<>> /\ out' = Tail(out)
  <2>1. \A k \in 1..Len(out') : k + 1 \in 1..Len(out) /\ out'[k] = out[k + 1]
    BY <1>2, FrameRead
  <2>2. ASSUME NEW k \in 1..Len(out'), out'[k].t = "done"
        PROVE  /\ out'[k].of = n /\ waiter = "armed" /\ owed = {}
               /\ \A j \in 1..Len(out') : out'[j].t = "done" => j = k
    <3>1. out[k + 1].t = "done" /\ k + 1 \in 1..Len(out)
      BY <2>1, <2>2
    <3>2. \A j \in 1..Len(out') : out'[j].t = "done" => j + 1 = k + 1
      BY <2>1, <3>1
    <3> QED BY <2>1, <3>1, <3>2
  <2> QED BY <2>2
<1> QED BY <1>1, <1>2

(* What the agent writes, and its death, keep the invariant. *)
LEMMA AgentKeeps ==
  ASSUME RpcInv, Update \/ Answer \/ NotifyDone \/ Garbage \/ AgentDies
  PROVE  RpcInv'
<1> USE DEF RpcInv
<1>1. CASE Update
  <2>1. PICK o \in owed : o.what # "setup" /\ Say([t |-> "update", of |-> o.of])
    BY <1>1 DEF Update
  <2> DEFINE f == [t |-> "update", of |-> o.of]
  <2>2. f \in Frame /\ f.t = "update" /\ f.of = o.of
    BY <2>1 DEF RpcTyped, Debt, Frame
  <2>3. out' = Append(out, f)
    BY <2>1 DEF Say
  <2> HIDE DEF f
  <2>4. /\ out' \in Seq(Frame) /\ Len(out') = Len(out) + 1 /\ Len(out) \in Nat
        /\ \A k \in 1..Len(out') : (k \in 1..Len(out) /\ out'[k] = out[k]) \/ (k = Len(out) + 1 /\ out'[k] = f)
    BY <2>2, <2>3, FrameWritten DEF RpcTyped
  <2>5. UNCHANGED <<owed, alive, protocol, shut, reader, stage, n, nextId, requests, waiter, by, late, text>>
    BY <1>1 DEF Update, AgentOnly, Stream, Client
  <2>6. Exchange => Exchange'
    BY <2>2, <2>4, <2>5 DEF Exchange, Subject
  <2>7. Notice => Notice'
    BY <2>2, <2>4, <2>5 DEF Notice
  <2> QED BY <2>4, <2>5, <2>6, <2>7, WiresKeep DEF RpcTyped, AcpSound, CodexSound
<1>2. CASE Answer
  <2>1. PICK o \in owed : /\ o.id # 0 /\ Say([t |-> "resp", id |-> o.id])
                          /\ owed' = (owed \ {o}) \cup (IF protocol = "codex" THEN {[o EXCEPT !.id = 0]} ELSE {})
    BY <1>2 DEF Answer
  <2> DEFINE f == [t |-> "resp", id |-> o.id]
  <2>2. f \in Frame /\ f.t = "resp" /\ f.id = o.id /\ o \in Debt
    BY <2>1 DEF RpcTyped, Debt, Frame
  <2>3. out' = Append(out, f)
    BY <2>1 DEF Say
  <2> HIDE DEF f
  <2>4. /\ out' \in Seq(Frame) /\ Len(out') = Len(out) + 1 /\ Len(out) \in Nat
        /\ \A k \in 1..Len(out') : (k \in 1..Len(out) /\ out'[k] = out[k]) \/ (k = Len(out) + 1 /\ out'[k] = f)
    BY <2>2, <2>3, FrameWritten DEF RpcTyped
  <2>5. UNCHANGED <<alive, protocol, shut, reader, stage, n, nextId, requests, waiter, by, late, text>>
    BY <1>2 DEF Answer, AgentOnly, Stream, Client
  <2>6. [o EXCEPT !.id = 0] \in Debt /\ [o EXCEPT !.id = 0].of = o.of
    BY <2>2 DEF Debt
  <2>7. owed' \subseteq Debt
    BY <2>1, <2>6 DEF RpcTyped
  <2>8. protocol = "acp" /\ Exchange => Exchange'
    <3> SUFFICES ASSUME protocol = "acp", Exchange PROVE Exchange'
      OBVIOUS
    <3>1. owed = {o} /\ owed' = {}
      <4>1. \A q \in owed : q = o
        BY DEF Exchange
      <4>2. owed' = owed \ {o}
        BY <2>1
      <4> QED BY <4>1, <4>2 DEF Exchange
    <3> QED BY <2>2, <2>4, <2>5, <3>1 DEF Exchange, Subject
  <2>9. protocol = "codex" /\ Notice => Notice'
    <3> SUFFICES ASSUME protocol = "codex", Notice PROVE Notice'
      OBVIOUS
    <3>1. owed' = {[o EXCEPT !.id = 0]}
      BY <2>1 DEF Notice
    <3>2. \A k \in 1..Len(out') : out'[k].t # "done"
      BY <2>2, <2>4 DEF Notice
    <3> QED BY <2>5, <2>6, <3>1, <3>2 DEF Notice
  <2> QED BY <2>4, <2>5, <2>7, <2>8, <2>9, WiresKeep DEF RpcTyped, AcpSound, CodexSound
<1>3. CASE NotifyDone
  <2>1. PICK o \in owed : o.id = 0 /\ Say([t |-> "done", of |-> o.of]) /\ owed' = owed \ {o}
    BY <1>3 DEF NotifyDone
  <2> DEFINE f == [t |-> "done", of |-> o.of]
  <2>2. f \in Frame /\ f.t = "done" /\ f.of = o.of
    BY <2>1 DEF RpcTyped, Debt, Frame
  <2>3. out' = Append(out, f)
    BY <2>1 DEF Say
  <2> HIDE DEF f
  <2>4. /\ out' \in Seq(Frame) /\ Len(out') = Len(out) + 1 /\ Len(out) \in Nat
        /\ \A k \in 1..Len(out') : (k \in 1..Len(out) /\ out'[k] = out[k]) \/ (k = Len(out) + 1 /\ out'[k] = f)
    BY <2>2, <2>3, FrameWritten DEF RpcTyped
  <2>5. UNCHANGED <<alive, protocol, shut, reader, stage, n, nextId, requests, waiter, by, late, text>>
    BY <1>3 DEF NotifyDone, AgentOnly, Stream, Client
  <2>6. ~Exchange
    <3>1. 0 \notin requests
      BY DEF RpcTyped
    <3> QED BY <2>1, <3>1 DEF Exchange
  <2>7. Notice => Notice'
    <3> SUFFICES ASSUME Notice PROVE Notice'
      OBVIOUS
    <3>1. owed' = {}
      BY <2>1 DEF Notice
    <3>2. \A k \in 1..Len(out) : out[k].t # "done"
      BY DEF Notice
    <3>3. o.of = n /\ waiter = "armed"
      BY DEF Notice
    <3>4. \A k \in 1..Len(out') : out'[k].t = "done" => k = Len(out) + 1 /\ out'[k].of = n
      BY <2>2, <2>4, <3>2, <3>3
    <3> QED BY <2>5, <3>1, <3>3, <3>4 DEF Notice
  <2> QED BY <2>1, <2>4, <2>5, <2>6, <2>7, WiresKeep DEF RpcTyped, AcpSound, CodexSound
<1>4. CASE Garbage
  <2> DEFINE f == [t |-> "bad"]
  <2>2. f \in Frame /\ f.t = "bad"
    BY DEF Frame
  <2>3. out' = Append(out, f)
    BY <1>4 DEF Say, Garbage
  <2> HIDE DEF f
  <2>4. /\ out' \in Seq(Frame) /\ Len(out') = Len(out) + 1 /\ Len(out) \in Nat
        /\ \A k \in 1..Len(out') : (k \in 1..Len(out) /\ out'[k] = out[k]) \/ (k = Len(out) + 1 /\ out'[k] = f)
    BY <2>2, <2>3, FrameWritten DEF RpcTyped
  <2>5. UNCHANGED <<owed, alive, protocol, shut, reader, stage, n, nextId, requests, waiter, by, late, text>>
    BY <1>4 DEF Garbage, AgentOnly, Stream, Client
  <2>6. Exchange => Exchange'
    BY <2>2, <2>4, <2>5 DEF Exchange, Subject
  <2>7. Notice => Notice'
    BY <2>2, <2>4, <2>5 DEF Notice
  <2> QED BY <2>4, <2>5, <2>6, <2>7, WiresKeep DEF RpcTyped, AcpSound, CodexSound
<1>5. CASE AgentDies
  <2>1. alive' = FALSE /\ owed' = {}
        /\ UNCHANGED <<out, protocol, shut, reader, stage, n, nextId, requests, waiter, by, late, text>>
    BY <1>5 DEF AgentDies, Stream, Client
  <2>2. out' \in Seq(Frame)
    BY <2>1 DEF RpcTyped
  <2>3. Exchange => Exchange'
    BY <2>1, ExchangeShrinks DEF RpcTyped
  <2>4. Notice => Notice'
    BY <2>1, NoticeShrinks DEF RpcTyped
  <2> QED BY <2>1, <2>2, <2>3, <2>4, WiresKeep DEF RpcTyped, AcpSound, CodexSound
<1> QED BY <1>1, <1>2, <1>3, <1>4, <1>5

(* A frame is read that ends nothing. *)
LEMMA ReaderKeeps ==
  ASSUME RpcInv, ReadUpdate \/ ReadItem \/ ReadResponse \/ ReadDone
  PROVE  RpcInv'
<1> USE DEF RpcInv
<1>1. /\ reader = "reading" /\ out # <<>> /\ out' = Tail(out) /\ out \in Seq(Frame)
      /\ UNCHANGED <<protocol, shut, reader, alive, n, nextId, owed, late>>
  BY DEF ReadUpdate, ReadItem, ReadResponse, ReadDone, ReadOne, Object, RpcTyped
<1>2. out' \in Seq(Frame) /\ 1 \in 1..Len(out) /\ out[1] \in Frame
  BY <1>1, FrameRead
<1>3. UNCHANGED <<stage, requests>> /\ Exchange => Exchange'
  BY <1>1, ExchangeShrinks
<1>4. UNCHANGED waiter /\ Notice => Notice'
  BY <1>1, NoticeShrinks
<1>5. CASE ReadUpdate
  <2>1. /\ protocol = "acp" /\ out[1].t = "update" /\ UNCHANGED <<stage, requests, waiter, by>>
        /\ text' = text \/ text' = text \cup {out[1].of}
    BY <1>5 DEF ReadUpdate, Head1, Mine
  <2>2. protocol = "acp" /\ ~late /\ stage \in {"wait", "complete"} => text' \subseteq {n}
    <3> SUFFICES ASSUME ~late, stage \in {"wait", "complete"} PROVE text' \subseteq {n}
      OBVIOUS
    <3>1. Exchange /\ text \subseteq {n}
      BY <1>1, <2>1 DEF AcpSound
    <3>2. stage = "wait"
      BY <1>2, <2>1, <3>1 DEF Exchange
    <3>3. out[1].of = n
      BY <1>2, <2>1, <3>1, <3>2 DEF Exchange, Subject
    <3> QED BY <2>1, <3>1, <3>3
  <2> QED BY <1>1, <1>2, <1>3, <2>1, <2>2, WiresKeep DEF RpcTyped, AcpSound
<1>6. CASE ReadItem
  <2>1. protocol = "codex" /\ UNCHANGED <<stage, requests, waiter, by>>
    BY <1>6 DEF ReadItem
  <2> QED BY <1>1, <1>2, <1>4, <2>1, WiresKeep DEF RpcTyped, CodexSound
<1>7. CASE ReadResponse
  <2>1. /\ out[1].t = "resp" /\ requests' = requests \ {out[1].id} /\ UNCHANGED <<waiter, text>>
        /\ stage' = IF out[1].id \notin requests THEN stage
                    ELSE CASE stage = "load" -> "prompt" [] stage = "new" -> "prompt"
                           [] stage = "wait" /\ protocol = "acp" -> "complete" [] OTHER -> stage
        /\ by' = IF stage' = "complete" THEN n ELSE by
    BY <1>7 DEF ReadResponse, Head1
  <2>2. stage' \in {stage, "prompt", "complete"}
        /\ (stage' # stage => stage \in {"load", "new", "wait"} /\ (stage = "wait" => protocol = "acp"))
    BY <2>1
  <2>3. RpcTyped'
    BY <1>1, <1>2, <2>1, <2>2 DEF RpcTyped
  <2>4. ASSUME protocol = "acp", ~late PROVE Exchange'
    <3>1. Exchange
      BY <1>1, <2>4 DEF AcpSound
    <3>2. out[1].id \in requests /\ owed = {} /\ \A j \in 2..Len(out) : out[j].t = "bad"
      BY <1>2, <2>1, <3>1 DEF Exchange
    <3>3. requests' = {} /\ \A k \in 1..Len(out') : out'[k].t = "bad"
      <4>1. \A k \in 1..Len(out') : k + 1 \in 2..Len(out) /\ out'[k] = out[k + 1]
        BY <1>1, FrameRead
      <4> QED BY <2>1, <3>1, <3>2, <4>1 DEF Exchange
    <3> QED BY <1>1, <3>2, <3>3 DEF Exchange
  <2>5. AcpSound'
    <3>1. protocol = "acp" /\ ~late /\ stage' \in {"wait", "complete"} => text \subseteq {n}
      BY <2>1, <2>2 DEF AcpSound
    <3> QED BY <1>1, <2>1, <2>2, <2>4, <3>1 DEF AcpSound
  <2>6. CodexSound'
    <3> SUFFICES ASSUME protocol = "codex" PROVE CodexSound'
      BY <1>1 DEF CodexSound
    <3>1. stage' = stage
      BY <2>2 DEF CodexSound
    <3>2. stage = "complete" => by' = by \/ by' = n
      BY <2>1
    <3>3. stage # "complete" => by' = by
      BY <2>1, <3>1
    <3> QED BY <1>1, <1>4, <2>1, <3>1, <3>2, <3>3 DEF CodexSound
  <2> QED BY <2>3, <2>5, <2>6
<1>8. CASE ReadDone
  <2>1. /\ out[1].t = "done" /\ UNCHANGED <<stage, requests, text>>
        /\ IF waiter = "armed" THEN waiter' = "set" /\ by' = out[1].of ELSE UNCHANGED <<waiter, by>>
    BY <1>8 DEF ReadDone, Head1
  <2>2. RpcTyped'
    BY <1>1, <1>2, <2>1 DEF RpcTyped
  <2>3. AcpSound'
    <3>1. protocol = "acp" => late
      BY <1>1, <1>2, <2>1 DEF AcpSound, Exchange
    <3> QED BY <1>1, <2>1, <3>1 DEF AcpSound
  <2>4. CodexSound'
    <3> SUFFICES ASSUME protocol = "codex" PROVE CodexSound'
      BY <1>1 DEF CodexSound
    <3>1. CASE late
      BY <1>1, <2>1, <3>1 DEF CodexSound
    <3>2. CASE ~late
      <4>1. Notice
        BY <1>1, <3>2 DEF CodexSound
      <4>2. out[1].of = n /\ waiter = "armed" /\ owed = {}
            /\ \A j \in 1..Len(out) : out[j].t = "done" => j = 1
        BY <1>2, <2>1, <4>1 DEF Notice
      <4>3. \A k \in 1..Len(out') : out'[k].t # "done"
        <5>1. \A k \in 1..Len(out') : k + 1 \in 2..Len(out) /\ out'[k] = out[k + 1]
          BY <1>1, FrameRead
        <5> QED BY <4>2, <5>1
      <4>4. Notice'
        BY <1>1, <4>2, <4>3 DEF Notice
      <4>5. stage = "wait"
        BY <4>2 DEF CodexSound
      <4> QED BY <1>1, <2>1, <4>2, <4>4, <4>5 DEF CodexSound
    <3> QED BY <3>1, <3>2
  <2> QED BY <2>2, <2>3, <2>4
<1> QED BY <1>5, <1>6, <1>7, <1>8

(* The reader ends: nothing more is read from this process. *)
LEMMA ReaderStops ==
  ASSUME RpcInv, UNCHANGED <<protocol, n, nextId, text, by, late>>,
         out' \in Seq(Frame), owed' \subseteq Debt, alive' \in BOOLEAN, shut' \in BOOLEAN,
         alive' => alive, shut => shut', protocol = "codex" => shut' \/ ~alive',
         reader' = "done", requests' = {}, waiter' = FailWaiter,
         stage' \in {"idle", "new"} \cup {stage},
         protocol = "codex" => stage' # "new",
         stage' = stage => stage # "load"
  PROVE  RpcInv'
<1>1. RpcTyped'
  BY DEF RpcInv, RpcTyped, FailWaiter
<1>2. AcpSound'
  BY DEF RpcInv, AcpSound, FailWaiter
<1>3. CodexSound'
  BY DEF RpcInv, CodexSound, FailWaiter
<1> QED BY <1>1, <1>2, <1>3 DEF RpcInv

(* The end of a stream and stop() keep it. *)
LEMMA EndKeeps ==
  ASSUME RpcInv, ReadGarbage \/ ReadEof \/ StopBackend
  PROVE  RpcInv'
<1> USE DEF RpcInv
<1>1. ASSUME NEW broken \in BOOLEAN, ReaderEnds(broken), ~broken => ~alive,
             out' \in Seq(Frame), UNCHANGED <<protocol, n, nextId, text, by, late>>
      PROVE  RpcInv'
  <2>1. /\ reader' = "done" /\ requests' = {} /\ waiter' = FailWaiter
        /\ shut' = (shut \/ (broken /\ protocol = "codex"))
        /\ alive' = (alive /\ ~(broken /\ protocol = "codex"))
        /\ owed' = IF alive' THEN owed ELSE {}
    BY <1>1 DEF ReaderEnds
  <2>2. stage' = CASE stage = "wait" /\ requests # {} -> "idle"
                   [] stage \in {"load", "new"} -> IF stage = "load" THEN "new" ELSE "idle"
                   [] OTHER -> stage
    BY <1>1 DEF ReaderEnds
  <2>3. /\ stage' \in {"idle", "new"} \cup {stage} /\ (stage' = stage => stage # "load")
        /\ (protocol = "codex" => stage' # "new")
    BY <2>2 DEF CodexSound
  <2>4. /\ alive' \in BOOLEAN /\ shut' \in BOOLEAN /\ (alive' => alive) /\ (shut => shut')
        /\ (protocol = "codex" => shut' \/ ~alive') /\ owed' \subseteq Debt
    BY <1>1, <2>1 DEF RpcTyped
  <2> QED BY <1>1, <2>1, <2>3, <2>4, ReaderStops
<1>2. CASE ReadGarbage
  <2>1. /\ reader = "reading" /\ out # <<>> /\ out' = Tail(out) /\ out \in Seq(Frame)
        /\ UNCHANGED <<protocol, n, nextId, text, by, late>>
        /\ IF streak' = BadLineLimit THEN ReaderEnds(TRUE)
           ELSE UNCHANGED <<reader, corrupt, requests, waiter, stage, replaying, shut, alive, owed>>
    BY <1>2 DEF ReadGarbage, ReadOne, RpcTyped
  <2>2. out' \in Seq(Frame)
    BY <2>1, FrameRead
  <2>3. CASE streak' = BadLineLimit
    BY <1>1, <2>1, <2>2, <2>3
  <2>4. CASE streak' # BadLineLimit
    <3>1. Exchange => Exchange'
      BY <2>1, <2>4, ExchangeShrinks
    <3>2. Notice => Notice'
      BY <2>1, <2>4, NoticeShrinks
    <3> QED BY <2>1, <2>2, <2>4, <3>1, <3>2, WiresKeep DEF RpcTyped, AcpSound, CodexSound
  <2> QED BY <2>3, <2>4
<1>3. CASE ReadEof
  BY <1>1, <1>3 DEF ReadEof, RpcTyped
<1>4. CASE StopBackend
  <2>1. /\ shut' = TRUE /\ reader' = "done" /\ out' = <<>> /\ requests' = {} /\ waiter' = FailWaiter
        /\ UNCHANGED <<protocol, n, nextId, text, by, late>>
    BY <1>4 DEF StopBackend
  <2>2. PICK sure \in BOOLEAN : alive' = (alive /\ ~sure) /\ owed' = IF sure THEN {} ELSE owed
    BY <1>4 DEF StopBackend
  <2>3. stage' \in {"idle", "new"} \cup {stage} /\ (stage' = stage => stage # "load")
        /\ (protocol = "codex" => stage' # "new")
    BY <1>4 DEF StopBackend, CodexSound
  <2>4. out' \in Seq(Frame)
    BY <2>1
  <2>5. alive' \in BOOLEAN /\ (alive' => alive) /\ owed' \subseteq Debt
    BY <2>2 DEF RpcTyped
  <2> QED BY <2>1, <2>3, <2>4, <2>5, ReaderStops
<1> QED BY <1>2, <1>3, <1>4

(* A turn, or a session, is given up: what its request brings later is late. *)
LEMMA GivenUp ==
  ASSUME RpcInv, late' = TRUE, UNCHANGED <<protocol, shut, reader, alive, n, out>>,
         owed' \subseteq Debt, nextId' \in Nat, requests' \subseteq 1..nextId',
         protocol = "acp" => waiter' = "none", waiter' \in {"none", waiter},
         stage' \in {"idle", "new", "abort"}, protocol = "codex" => stage' = "idle" /\ waiter' = "none"
  PROVE  RpcInv'
<1>1. RpcTyped'
  BY DEF RpcInv, RpcTyped
<1>2. AcpSound'
  <2>1. late' /\ (protocol' = "acp" => waiter' = "none")
    OBVIOUS
  <2> QED BY <2>1 DEF AcpSound
<1>3. CodexSound'
  BY DEF RpcInv, CodexSound
<1> QED BY <1>1, <1>2, <1>3 DEF RpcInv

(* A prompt, or the setup of a session, is sent. *)
LEMMA OneAsked ==
  ASSUME Exchange, requests = {}, NEW what, NEW of, of = Subject', Request(of, what), out' = out
  PROVE  /\ stage' \notin {"idle", "prompt", "complete"} => Exchange'
         /\ owed' \subseteq {[id |-> nextId + 1, of |-> of, what |-> what]}
<1>1. /\ owed = {} /\ \A k \in 1..Len(out) : out[k].t = "bad"
  BY DEF Exchange
<1>2. requests' = {nextId + 1} /\ owed' \subseteq {[id |-> nextId + 1, of |-> of, what |-> what]}
  BY <1>1 DEF Request
<1>3. \A k \in 1..Len(out') : out'[k].t = "bad"
  BY <1>1
<1>4. \A o \in owed' : o.id \in requests' /\ o.of = Subject'
  BY <1>2
<1>5. (\A p, q \in requests' : p = q) /\ (\A o, q \in owed' : o = q) /\ requests' # {}
  BY <1>2
<1> QED BY <1>2, <1>3, <1>4, <1>5 DEF Exchange

(* So do the relaunch of an agent and the setup of its session. *)
LEMMA SessionKeeps ==
  ASSUME RpcInv, AskTurn \/ Restart \/ RestartBlocked \/ LoadTimesOut \/ AskNewSession \/ NewTimesOut
  PROVE  RpcInv'
<1> USE DEF RpcInv
<1>1. CASE AskTurn
  <2>1. /\ stage = "idle" /\ stage' = "prompt"
        /\ UNCHANGED <<protocol, shut, reader, alive, out, owed, n, nextId, requests, waiter, text, by, late>>
    BY <1>1 DEF AskTurn, Object, Wires, Stream
  <2>2. Exchange => Exchange'
    BY <2>1 DEF Exchange, Subject
  <2>3. Notice => Notice'
    BY <2>1 DEF Notice
  <2>4. RpcTyped'
    BY <2>1 DEF RpcTyped
  <2>5. AcpSound'
    BY <2>1, <2>2 DEF AcpSound
  <2>6. CodexSound'
    BY <2>1, <2>3 DEF CodexSound
  <2> QED BY <2>4, <2>5, <2>6
<1>2. CASE Restart
  <2>1. /\ protocol = "acp" /\ alive' = TRUE /\ out' = <<>> /\ reader' = "reading" /\ late' = FALSE
        /\ stage' \in {"new", "load"} /\ nextId' = nextId + 1 /\ requests' = {nextId + 1}
        /\ UNCHANGED <<protocol, shut, n, waiter, text, by>>
    BY <1>2 DEF Restart
  <2>2. PICK w \in {"replay", "setup"} : owed' = {[id |-> nextId + 1, of |-> 0, what |-> w]}
    BY <1>2 DEF Restart
  <2>3. out' \in Seq(Frame) /\ Len(out') = 0
    BY <2>1
  <2>4. nextId' \in Nat /\ requests' \subseteq 1..nextId' /\ owed' \subseteq Debt
    BY <2>1, <2>2 DEF RpcTyped, Debt
  <2>5. RpcTyped'
    BY <2>1, <2>3, <2>4 DEF RpcTyped
  <2>6. Exchange'
    <3>1. \A k \in 1..Len(out') : FALSE
      BY <2>3
    <3>2. Subject' = 0
      BY <2>1 DEF Subject
    <3> QED BY <2>1, <2>2, <3>1, <3>2 DEF Exchange
  <2>7. AcpSound' /\ CodexSound'
    BY <2>1, <2>6 DEF AcpSound, CodexSound
  <2> QED BY <2>5, <2>7
<1>3. CASE RestartBlocked
  <2>1. UNCHANGED <<protocol, shut, reader, alive, out, owed, stage, n, nextId, requests, waiter, text, by, late>>
    BY <1>3 DEF RestartBlocked, Wires, Stream, Client
  <2>2. Exchange => Exchange'
    BY <2>1 DEF Exchange, Subject
  <2>3. Notice => Notice'
    BY <2>1 DEF Notice
  <2> QED BY <2>1, <2>2, <2>3, WiresKeep DEF RpcTyped, AcpSound, CodexSound
<1>4. CASE LoadTimesOut
  <2>1. /\ stage = "load" /\ late' = TRUE /\ stage' = "new" /\ nextId' = nextId + 1 /\ requests' = {nextId + 1}
        /\ owed' = owed \cup {[id |-> nextId + 1, of |-> 0, what |-> "setup"]}
        /\ UNCHANGED <<protocol, shut, reader, alive, n, out, waiter>>
    BY <1>4 DEF LoadTimesOut, Stream
  <2>2. nextId' \in Nat /\ requests' \subseteq 1..nextId' /\ owed' \subseteq Debt
    BY <2>1 DEF RpcTyped, Debt
  <2>3. protocol = "acp" /\ waiter = "none"
    BY <2>1 DEF RpcTyped, AcpSound, CodexSound
  <2> QED BY <2>1, <2>2, <2>3, GivenUp
<1>5. CASE AskNewSession
  <2>1. /\ stage = "new" /\ requests = {} /\ Request(0, "setup")
        /\ UNCHANGED <<protocol, shut, reader, alive, out, stage, n, waiter, text, by, late>>
    BY <1>5 DEF AskNewSession, Object, Stream
  <2>2. protocol = "acp"
    BY <2>1 DEF RpcTyped, CodexSound
  <2>3. Subject' = 0
    BY <2>1 DEF Subject
  <2>4. nextId' \in Nat /\ requests' \subseteq 1..nextId' /\ owed' \subseteq Debt
    BY <2>1 DEF RpcTyped, Debt, Request
  <2>5. Exchange => Exchange'
    BY <2>1, <2>3, OneAsked
  <2>6. RpcTyped'
    BY <2>1, <2>4 DEF RpcTyped
  <2>7. AcpSound' /\ CodexSound'
    BY <2>1, <2>2, <2>5 DEF AcpSound, CodexSound
  <2> QED BY <2>6, <2>7
<1>6. CASE NewTimesOut
  <2>1. /\ stage = "new" /\ late' = TRUE /\ stage' = "idle" /\ requests' = {}
        /\ UNCHANGED <<protocol, shut, reader, alive, n, out, owed, nextId, waiter>>
    BY <1>6 DEF NewTimesOut, Object, Wires, Stream
  <2>2. protocol = "acp" /\ waiter = "none"
    BY <2>1 DEF RpcTyped, AcpSound, CodexSound
  <2>3. nextId' \in Nat /\ requests' \subseteq 1..nextId' /\ owed' \subseteq Debt
    BY <2>1 DEF RpcTyped
  <2> QED BY <2>1, <2>2, <2>3, GivenUp
<1> QED BY <1>1, <1>2, <1>3, <1>4, <1>5, <1>6

(* So does a prompt. *)
LEMMA AskKeeps ==
  ASSUME RpcInv, SendPrompt
  PROVE  RpcInv'
<1> USE DEF RpcInv
<1>1. stage = "prompt" /\ UNCHANGED <<protocol, shut, reader, alive, out, late>>
  BY DEF SendPrompt, Object, Stream
<1>2. CASE shut \/ ~held \/ (~alive /\ reader = "done")
  <2>1. stage' = "idle" /\ UNCHANGED <<n, nextId, requests, owed, waiter, text, by>>
    BY <1>2 DEF SendPrompt
  <2>2. Exchange => Exchange'
    BY <1>1, <2>1 DEF Exchange, Subject
  <2>3. Notice => Notice'
    BY <1>1, <2>1 DEF Notice
  <2>4. RpcTyped'
    BY <1>1, <2>1 DEF RpcTyped
  <2>5. AcpSound'
    BY <1>1, <2>1, <2>2 DEF AcpSound
  <2>6. CodexSound'
    BY <1>1, <2>1, <2>3 DEF CodexSound
  <2> QED BY <2>4, <2>5, <2>6
<1>3. CASE ~(shut \/ ~held \/ (~alive /\ reader = "done"))
  <2>1. /\ n' = n + 1 /\ stage' = "wait" /\ Request(n + 1, "prompt") /\ text' = ClearText
        /\ waiter' = IF protocol = "codex" THEN "armed" ELSE "none"
    BY <1>3 DEF SendPrompt
  <2>2. n' \in Nat /\ nextId' \in Nat /\ requests' \subseteq 1..nextId' /\ owed' \subseteq Debt
    BY <2>1 DEF RpcTyped, Debt, Request
  <2>3. RpcTyped'
    BY <1>1, <2>1, <2>2 DEF RpcTyped
  <2>4. Subject' = n + 1
    BY <2>1 DEF Subject
  <2>5. Exchange => Exchange'
    <3>1. Exchange => requests = {}
      BY <1>1 DEF Exchange
    <3> QED BY <1>1, <2>1, <2>4, <3>1, OneAsked
  <2>6. AcpSound'
    BY <1>1, <2>1, <2>5 DEF AcpSound, ClearText
  <2>7. CodexSound'
    <3> SUFFICES ASSUME protocol = "codex" PROVE CodexSound'
      BY <1>1 DEF CodexSound
    <3>1. waiter # "armed" /\ reader = "reading"
      BY <1>1, <1>3 DEF CodexSound, RpcTyped
    <3>2. Notice => Notice'
      <4> SUFFICES ASSUME Notice PROVE Notice'
        OBVIOUS
      <4>1. owed = {} /\ \A k \in 1..Len(out) : out[k].t # "done"
        BY <3>1 DEF Notice
      <4>2. owed' \subseteq {[id |-> nextId + 1, of |-> n + 1, what |-> "prompt"]}
        BY <2>1, <4>1 DEF Request
      <4>3. \A o \in owed' : o.of = n'
        BY <2>1, <4>2
      <4> QED BY <1>1, <2>1, <4>1, <4>2, <4>3 DEF Notice
    <3> QED BY <1>1, <2>1, <3>1, <3>2 DEF CodexSound
  <2> QED BY <2>3, <2>6, <2>7
<1> QED BY <1>2, <1>3

(* So does the end of a turn, whichever way it ends. *)
LEMMA TurnKeeps ==
  ASSUME RpcInv, Completed \/ WaiterFails \/ TurnReturns \/ TurnTimesOut \/ AbortTurn
  PROVE  RpcInv'
<1> USE DEF RpcInv
<1>1. ASSUME UNCHANGED <<protocol, shut, reader, alive, out, owed, n, nextId, requests, text, by, late>>,
             \/ stage = "wait" /\ protocol = "codex" /\ waiter = "set" /\ stage' = "complete" /\ waiter' = "none"
             \/ stage = "wait" /\ protocol = "codex" /\ waiter = "failed" /\ stage' = "idle" /\ waiter' = "none"
             \/ stage = "complete" /\ stage' = "idle" /\ waiter' = waiter
      PROVE  RpcInv'
  <2>1. RpcTyped'
    BY <1>1 DEF RpcTyped
  <2>2. AcpSound'
    <3> SUFFICES ASSUME protocol = "acp" PROVE AcpSound'
      BY <1>1 DEF AcpSound
    <3>1. Exchange => Exchange'
      BY <1>1 DEF Exchange, Subject
    <3> QED BY <1>1, <3>1 DEF AcpSound
  <2>3. CodexSound'
    <3> SUFFICES ASSUME protocol = "codex" PROVE CodexSound'
      BY <1>1 DEF CodexSound
    <3>1. waiter # "armed"
      BY <1>1 DEF CodexSound
    <3>2. Notice => Notice'
      BY <1>1, <3>1 DEF Notice
    <3> QED BY <1>1, <3>1, <3>2 DEF CodexSound
  <2> QED BY <2>1, <2>2, <2>3
<1>2. CASE Completed \/ TurnReturns
  BY <1>1, <1>2 DEF Completed, TurnReturns, Object, Wires, Stream
<1>3. CASE WaiterFails
  <2>1. protocol = "codex"
    BY <1>3 DEF WaiterFails, RpcTyped, AcpSound
  <2> QED BY <1>1, <1>3, <2>1 DEF WaiterFails, Object, Wires, Stream
<1>4. CASE TurnTimesOut
  <2>1. /\ late' = TRUE /\ stage' = (IF protocol = "acp" THEN "abort" ELSE "idle") /\ requests' = {} /\ waiter' = "none"
        /\ UNCHANGED <<protocol, shut, reader, alive, n, out, owed, nextId>>
    BY <1>4 DEF TurnTimesOut, Object, Wires, Stream
  <2>2. nextId' \in Nat /\ requests' \subseteq 1..nextId' /\ owed' \subseteq Debt
    BY <2>1 DEF RpcTyped
  <2> QED BY <2>1, <2>2, GivenUp DEF RpcTyped
<1>5. CASE AbortTurn
  <2>1. /\ stage = "abort" /\ stage' = "idle"
        /\ UNCHANGED <<protocol, shut, n, nextId, requests, waiter, text, by, late>>
    BY <1>5 DEF AbortTurn
  <2>2. PICK sure \in BOOLEAN : Abandon(sure)
    BY <1>5 DEF AbortTurn
  <2>3. protocol = "acp" /\ late
    BY <2>1 DEF RpcTyped, CodexSound, AcpSound
  <2>4. out' \in Seq(Frame) /\ owed' \subseteq Debt /\ alive' \in BOOLEAN /\ reader' \in {"none", reader}
    BY <2>2 DEF Abandon, RpcTyped
  <2>5. RpcTyped'
    BY <2>1, <2>4 DEF RpcTyped
  <2>6. AcpSound' /\ CodexSound'
    BY <2>1, <2>3 DEF AcpSound, CodexSound
  <2> QED BY <2>5, <2>6
<1> QED BY <1>2, <1>3, <1>4, <1>5

(* The inductive invariant of a long-lived agent: one request is under way at
   a time, what the agent owes and what is on the wire belong to it, and the
   reader delivers it in that order (acp.py _request, _dispatch; codex.py
   _send_turn_and_resolve, _handle_notification). *)
THEOREM RpcIsSound == RpcSpec => []RpcInv
<1>1. RpcInv /\ [NextRpc]_rpcVars => RpcInv'
  <2> SUFFICES ASSUME RpcInv, [NextRpc]_rpcVars PROVE RpcInv'
    OBVIOUS
  <2>1. CASE UNCHANGED rpcVars
    <3>1. UNCHANGED <<protocol, shut, reader, alive, out, owed, stage, n, nextId, requests, waiter, text, by, late>>
      BY <2>1 DEF rpcVars
    <3>2. Exchange => Exchange'
      BY <3>1 DEF Exchange, Subject
    <3>3. Notice => Notice'
      BY <3>1 DEF Notice
    <3> QED BY <3>1, <3>2, <3>3, WiresKeep DEF RpcInv, RpcTyped, AcpSound, CodexSound
  <2>2. CASE NextRpc
    BY <2>2, AgentKeeps, ReaderKeeps, EndKeeps, SessionKeeps, AskKeeps, TurnKeeps DEF NextRpc
  <2> QED BY <2>1, <2>2
<1> QED BY <1>1, RpcStarts, PTL DEF RpcSpec

(* What a turn reports, its completion and the text an ACP turn collects, is
   its own as long as no earlier request to the same process was given up
   unanswered (acp.py _dispatch, codex.py _handle_notification), for any
   number of turns, relaunches, lost agents and unreadable lines. *)
THEOREM TurnsAreOwn == RpcSpec => []TurnIsOwn
<1>1. RpcInv => TurnIsOwn
  BY DEF RpcInv, RpcTyped, AcpSound, CodexSound, TurnIsOwn
<1> QED BY <1>1, RpcIsSound, PTL

=============================================================================
