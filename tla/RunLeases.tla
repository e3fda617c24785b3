----------------------------- MODULE RunLeases -----------------------------
(***************************************************************************)
(* Service instances that share one run registry, and the operating-system *)
(* processes of the agents they run: the lease protocol of                 *)
(* src/symphony/orchestrator/run_leases.py.                                *)
(*                                                                         *)
(* An instance is one asyncio loop.  A step of the model is what an        *)
(* instance does between two points where a peer process, the loop or the  *)
(* operating system can interleave: one registry transaction, or one       *)
(* `asyncio.to_thread` kill.  A reclaim pass runs in order (claim, then    *)
(* one kill and one finalize per record).  Heartbeats and expiry are not   *)
(* tied to the pass: besides the tick, every agent event heartbeats, and   *)
(* every eligibility check and acquisition expires stale leases.           *)
(***************************************************************************)
EXTENDS RunRegistry

CONSTANTS
    CrashContinuation,   \* `agent.crash_continuation` (on by default)
    ReleaseIssues,       \* tickets whose runs require release authority
    Faults               \* whether registry calls may raise

ASSUME LeaseAssumption ==
    /\ CrashContinuation \in BOOLEAN
    /\ ReleaseIssues \subseteq Issues
    /\ Faults \in BOOLEAN

VARIABLES
    runs,     \* the table
    nruns,    \* rows inserted so far
    boot,     \* boot[b]: life of the instance's process
    hint,     \* hint[b]: a dispatch between discovery and acquisition
    entry,    \* entry[b][i]: the `_running` entry
    reapQ,    \* reapQ[b]: records reclaim returned, not yet killed
    reaped,   \* reaped[b]: the record whose kill was confirmed
    eject,    \* eject[b]: a force-eject between its kill and its bookkeeping
    proc,     \* proc[p]: what runs under the numeric pid
    foreign   \* history: a process Symphony did not start was signalled

regVars == <<runs, nruns>>
tickVars == <<reapQ, reaped, eject>>
osVars == <<proc, foreign>>
vars == <<runs, nruns, boot, hint, entry, reapQ, reaped, eject, proc, foreign>>

-----------------------------------------------------------------------------
(* Data *)

NoHint == [issue |-> NoIssue, src |-> NoRun]
Hint == [issue : Issues \cup {NoIssue}, src : 0..MaxRuns]

(* The fields of RunningEntry the lease protocol reads.  `on` says that    *)
(* the entry exists; `inc` is the child the backend driver really holds,   *)
(* `ident` the fingerprint that was captured of it (NoIdent when the probe *)
(* failed), `spawn` a process started but not yet reported through         *)
(* on_process_identified; `ejecting` marks the entry an eject is about, and *)
(* `abandoned` one that stop() gave up waiting for.                        *)
Entry == [on : BOOLEAN, run : 0..MaxRuns, pid : Pids \cup {NoPid},
          inc : 0..MaxInc, ident : 0..MaxInc, spawn : Pids \cup {NoPid},
          lost : BOOLEAN, cancelled : BOOLEAN, unconfirmed : BOOLEAN,
          ejecting : BOOLEAN, abandoned : BOOLEAN]

NoEntry == [on |-> FALSE, run |-> NoRun, pid |-> NoPid, inc |-> 0,
            ident |-> NoIdent, spawn |-> NoPid, lost |-> FALSE,
            cancelled |-> FALSE, unconfirmed |-> FALSE, ejecting |-> FALSE,
            abandoned |-> FALSE]

NewEntry(r) == [NoEntry EXCEPT !.on = TRUE, !.run = r]

(* The part of a RunRecord the reaper keeps while it waits for the kill. *)
Snapshot == [run : RunIds, pid : Pids \cup {NoPid}, ident : 0..MaxInc]
NoSnapshot == [run |-> NoRun, pid |-> NoPid, ident |-> NoIdent]

SnapshotOf(t, r) == [run |-> r, pid |-> t[r].pid, ident |-> t[r].ident]

(* What the reconcile coroutine holds while the eject's kill runs in a     *)
(* thread: the issue, the entry's run and whether the kill was confirmed.  *)
EjectState == [issue : Issues, run : 0..MaxRuns, ok : BOOLEAN]
NoEject == [issue |-> NoIssue, run |-> NoRun, ok |-> FALSE]

(* A process group: "leader" while its leader lives, "orphans" while only  *)
(* other members do, "none" when the pid is free.  `owner` is the issue    *)
(* whose agent it is, or NoIssue for a process that is none of Symphony's. *)
Process == [inc : 0..MaxInc, life : {"none", "leader", "orphans"},
            owner : Issues \cup {NoIssue}]

NoProcess == [inc |-> 0, life |-> "none", owner |-> NoIssue]

Gone(p, inc) == p = NoPid \/ proc[p].life = "none" \/ proc[p].inc # inc

TypeOK ==
    /\ runs \in Table /\ nruns \in 0..MaxRuns
    /\ boot \in [Boots -> {"off", "up", "stopping", "dead"}]
    /\ hint \in [Boots -> Hint]
    /\ entry \in [Boots -> [Issues -> Entry]]
    /\ reapQ \in [Boots -> SUBSET Snapshot]
    /\ reaped \in [Boots -> Snapshot \cup {NoSnapshot}]
    /\ eject \in [Boots -> EjectState \cup {NoEject}]
    /\ proc \in [Pids -> Process]
    /\ foreign \in BOOLEAN

Init ==
    /\ runs = EmptyTable /\ nruns = 0
    /\ boot = [b \in Boots |-> "off"]
    /\ hint = [b \in Boots |-> NoHint]
    /\ entry = [b \in Boots |-> [i \in Issues |-> NoEntry]]
    /\ reapQ = [b \in Boots |-> {}]
    /\ reaped = [b \in Boots |-> NoSnapshot]
    /\ eject = [b \in Boots |-> NoEject]
    /\ proc = [p \in Pids |-> NoProcess]
    /\ foreign = FALSE

-----------------------------------------------------------------------------
(* Helpers *)

(* The instance's loop is between two synchronous steps. *)
Idle(b) == hint[b] = NoHint
TickFree(b) == reapQ[b] = {} /\ reaped[b] = NoSnapshot /\ eject[b] = NoEject
Serving(b) == boot[b] = "up" /\ Idle(b)
Alive(b) == boot[b] \in {"up", "stopping"}

SetEntry(b, i, e) == entry' = [entry EXCEPT ![b] = [entry[b] EXCEPT ![i] = e]]

(* A heartbeat that returns False.  It stops the worker (`task.cancel()`)  *)
(* only where the caller looks at the result: the tick and the pid        *)
(* callbacks do, agent events and the reconcile do not.                    *)
MutantLoseLease(e, stops) == [e EXCEPT !.lost = TRUE]
LoseLease(e, stops) == [e EXCEPT !.lost = TRUE, !.cancelled = e.cancelled \/ stops]

(* The last process of the group under `p` is gone. *)
GroupGone(p) ==
    [proc EXCEPT ![p] = [proc[p] EXCEPT !.life = "none", !.owner = NoIssue]]

(* SIGKILL to the group, whoever it belongs to. *)
KillGroup(p) ==
    /\ proc' = GroupGone(p)
    /\ foreign' = (foreign \/ proc[p].owner = NoIssue)

-----------------------------------------------------------------------------
(* _heartbeat_run_lease: refresh the entry's lease, recording the backend  *)
(* the entry holds; take a fresh lease when the row is no longer active;   *)
(* stop the worker on a conflict.                                          *)

HeartbeatRaises(b, i, e, stops) ==
    /\ Faults
    /\ SetEntry(b, i, IF CrashContinuation \/ i \in ReleaseIssues
                      THEN LoseLease(e, stops) ELSE e)
    /\ UNCHANGED regVars

Reacquire(b, i, e, stops) ==
    \/ /\ AcquireRefused(runs, i)
       /\ runs' = ExpireStale(runs)
       /\ SetEntry(b, i, LoseLease(e, stops))
       /\ UNCHANGED nruns
    \/ /\ ~AcquireRefused(runs, i) /\ nruns < MaxRuns
       /\ nruns' = nruns + 1
       /\ runs' = AcquireRun(runs, nruns + 1, b, i)
       /\ SetEntry(b, i, [e EXCEPT !.run = nruns + 1])
    \/ /\ Faults
       /\ SetEntry(b, i, e)
       /\ UNCHANGED regVars

(* A release run is never replaced under its worker, and a worker that was *)
(* told that it lost its lease does not take another.                      *)
MutantMayReacquire(i, e) == ~e.lost
MayReacquire(i, e) == ~e.lost /\ i \notin ReleaseIssues

HeartbeatRunLease(b, i, e, stops) ==
    \/ /\ e.run = NoRun
       /\ SetEntry(b, i, IF CrashContinuation THEN LoseLease(e, stops) ELSE e)
       /\ UNCHANGED regVars
    \/ /\ e.run # NoRun /\ runs[e.run].status = "active"
       /\ runs' = Heartbeat(runs, e.run, e.pid, e.ident)
       /\ SetEntry(b, i, e)
       /\ UNCHANGED nruns
    \/ /\ e.run # NoRun /\ runs[e.run].status # "active"
       /\ ~MayReacquire(i, e)
       /\ SetEntry(b, i, LoseLease(e, stops))
       /\ UNCHANGED regVars
    \/ /\ e.run # NoRun /\ runs[e.run].status # "active"
       /\ MayReacquire(i, e)
       /\ Reacquire(b, i, e, stops)
    \/ e.run # NoRun /\ HeartbeatRaises(b, i, e, stops)

-----------------------------------------------------------------------------
(* The instance's process *)

StartService(b) ==
    /\ boot[b] = "off"
    /\ boot' = [boot EXCEPT ![b] = "up"]
    /\ UNCHANGED <<regVars, tickVars, hint, entry, osVars>>

(* A heartbeat: of the tick (_heartbeat_running_leases), which stops a     *)
(* worker that lost its lease, or of an event or the reconcile.            *)
HeartbeatEntry(b, i, stops) ==
    /\ Serving(b) /\ entry[b][i].on
    /\ HeartbeatRunLease(b, i, entry[b][i], stops)
    /\ UNCHANGED <<boot, hint, tickVars, osVars>>

(* reclaim_dead_owner_leases.  A dead owner's pid may have been reused, in *)
(* which case `_pid_alive` says it is alive.                               *)
ReclaimClaim(b) ==
    /\ Serving(b) /\ TickFree(b)
    /\ \E reused \in SUBSET {c \in Boots : boot[c] = "dead"} :
          runs' = ReclaimDeadOwners(runs, b,
                      {c \in Boots : Alive(c)} \cup reused)
    /\ reapQ' = [reapQ EXCEPT ![b] =
          {SnapshotOf(runs', r) : r \in {s \in RunIds :
                                         runs'[s].status = "reclaiming"}}]
    /\ UNCHANGED <<nruns, boot, hint, entry, reaped, eject, osVars>>

(* _reclaim_kill_confirm: what the identity probe, the signal and the      *)
(* gone-confirm poll may answer about pid `p` recorded with identity       *)
(* `ident`.  KillConfirmed leaves `proc` as the kill leaves it.            *)
MutantKillLeaderless(p, ident) ==        \* no process_group_exists probe
    \/ p = NoPid /\ UNCHANGED osVars
    \/ p # NoPid /\ proc[p].life # "leader" /\ UNCHANGED osVars
    \/ /\ p # NoPid /\ proc[p].life = "leader"
       /\ ident # NoIdent /\ proc[p].inc = ident
       /\ KillGroup(p)

MutantKillByPid(p, ident) ==             \* no comparison of identities
    \/ p = NoPid /\ UNCHANGED osVars
    \/ p # NoPid /\ proc[p].life = "none" /\ UNCHANGED osVars
    \/ p # NoPid /\ proc[p].life = "leader" /\ KillGroup(p)

KillConfirmed(p, ident) ==
    \/ p = NoPid /\ UNCHANGED osVars
    \/ /\ p # NoPid /\ proc[p].life = "none"        \* not_found
       /\ UNCHANGED osVars
    \/ /\ p # NoPid /\ proc[p].life = "leader"      \* identity_mismatch
       /\ ident # NoIdent /\ proc[p].inc # ident
       /\ UNCHANGED osVars
    \/ /\ p # NoPid /\ proc[p].life = "leader"      \* killed
       /\ ident # NoIdent /\ proc[p].inc = ident
       /\ KillGroup(p)

(* No proof that the incarnation is gone: an ambiguous group, a missing    *)
(* identity, a probe that failed, or a signal whose effect was not seen in *)
(* time.                                                                   *)
KillUnconfirmed(p) == p # NoPid /\ UNCHANGED osVars

ReapKill(b) ==
    /\ boot[b] = "up" /\ reaped[b] = NoSnapshot
    /\ \E s \in reapQ[b] :
          /\ reapQ' = [reapQ EXCEPT ![b] = reapQ[b] \ {s}]
          /\ \/ /\ KillConfirmed(s.pid, s.ident)
                /\ reaped' = [reaped EXCEPT ![b] = s]
             \/ KillUnconfirmed(s.pid) /\ UNCHANGED reaped
    /\ UNCHANGED <<regVars, boot, hint, entry, eject>>

(* _reap_and_finalize_reclaimed_run_async, after the kill returned. *)
ReapFinalize(b) ==
    /\ Serving(b) /\ reaped[b] # NoSnapshot
    /\ reaped' = [reaped EXCEPT ![b] = NoSnapshot]
    /\ \/ runs' = FinalizeReclaimed(runs, reaped[b].run)
       \/ Faults /\ UNCHANGED runs
    /\ UNCHANGED <<nruns, boot, hint, entry, reapQ, eject, osVars>>

ExpireLeases(b) ==
    /\ Serving(b)
    /\ \E r \in RunIds : Stale(runs[r])
    /\ runs' = ExpireStale(runs)
    /\ UNCHANGED <<nruns, boot, hint, entry, tickVars, osVars>>

-----------------------------------------------------------------------------
(* Dispatch: _try_acquire_run_lease, called by the tick's scan and by the  *)
(* retry timer.  With crash continuation, a discovery transaction comes    *)
(* before the acquisition.                                                 *)

Discovers(i) == CrashContinuation /\ i \notin ReleaseIssues

DispatchDiscover(b, i) ==
    /\ Serving(b) /\ ~entry[b][i].on /\ Discovers(i)
    /\ \E src \in 0..MaxRuns :
          /\ \/ src # NoRun /\ ContinuationSource(runs, src, i)
             \/ /\ src = NoRun
                /\ \A r \in RunIds : ~ContinuationSource(runs, r, i)
          /\ hint' = [hint EXCEPT ![b] = [issue |-> i, src |-> src]]
    /\ UNCHANGED <<regVars, boot, tickVars, entry, osVars>>

(* Another holder, a consumed or outdated source, or an error that must    *)
(* fail closed: nothing is dispatched.                                     *)
DispatchRefuse(b, i) ==
    LET src == hint[b].src IN
    /\ \/ AcquireRefused(runs, i) /\ runs' = ExpireStale(runs)
       \/ /\ ~AcquireRefused(runs, i)
          /\ src # NoRun /\ ~ContinuationSource(ExpireStale(runs), src, i)
          /\ runs' = ExpireStale(runs)
       \/ /\ Faults /\ (CrashContinuation \/ i \in ReleaseIssues)
          /\ UNCHANGED runs
       \/ nruns = MaxRuns /\ UNCHANGED runs        \* the bound on rows
    /\ UNCHANGED <<nruns, entry>>

DispatchFresh(b, i) ==
    /\ hint[b].src = NoRun
    /\ ~AcquireRefused(runs, i) /\ nruns < MaxRuns
    /\ nruns' = nruns + 1
    /\ runs' = AcquireRun(runs, nruns + 1, b, i)
    /\ SetEntry(b, i, NewEntry(nruns + 1))

MutantDispatchContinuation(b, i) ==      \* trusts the discovery
    /\ hint[b].src # NoRun
    /\ ~AcquireRefused(runs, i) /\ nruns < MaxRuns
    /\ nruns' = nruns + 1
    /\ runs' = AcquireContinuation(runs, nruns + 1, b, i, hint[b].src)
    /\ SetEntry(b, i, NewEntry(nruns + 1))

DispatchContinuation(b, i) ==
    /\ hint[b].src # NoRun
    /\ ~AcquireRefused(runs, i) /\ nruns < MaxRuns
    /\ ContinuationSource(ExpireStale(runs), hint[b].src, i)
    /\ nruns' = nruns + 1
    /\ runs' = AcquireContinuation(runs, nruns + 1, b, i, hint[b].src)
    /\ SetEntry(b, i, NewEntry(nruns + 1))

(* The historical fail-open path: acquire_run raised, the worker starts    *)
(* without a lease.                                                        *)
DispatchLeaseless(b, i) ==
    /\ Faults /\ ~CrashContinuation /\ i \notin ReleaseIssues
    /\ SetEntry(b, i, NewEntry(NoRun))
    /\ UNCHANGED regVars

DispatchAcquire(b, i) ==
    /\ boot[b] = "up"
    /\ IF Discovers(i) THEN hint[b].issue = i
                       ELSE Idle(b) /\ ~entry[b][i].on
    /\ \/ DispatchRefuse(b, i)
       \/ DispatchFresh(b, i)
       \/ DispatchContinuation(b, i)
       \/ DispatchLeaseless(b, i)
    /\ hint' = [hint EXCEPT ![b] = NoHint]
    /\ UNCHANGED <<boot, tickVars, osVars>>

-----------------------------------------------------------------------------
(* The worker and its backend *)

(* A backend driver starts the agent's process in a group of its own. *)
SpawnBackend(b, i, p) ==
    LET e == entry[b][i] IN
    /\ Serving(b) /\ e.on /\ ~e.cancelled
    /\ e.pid = NoPid /\ e.spawn = NoPid
    /\ proc[p].life = "none" /\ proc[p].inc < MaxInc
    /\ proc' = [proc EXCEPT ![p] = [inc |-> proc[p].inc + 1, life |-> "leader",
                                    owner |-> i]]
    /\ SetEntry(b, i, [e EXCEPT !.spawn = p, !.inc = proc[p].inc + 1])
    /\ UNCHANGED <<regVars, boot, tickVars, hint, foreign>>

(* _sync_backend_agent_pid with a pid: on_process_identified hands over    *)
(* the pid and the identity it could capture.                              *)
SyncBackendPid(b, i) ==
    LET e == entry[b][i] IN
    /\ Alive(b) /\ Idle(b) /\ e.on /\ e.spawn # NoPid
    /\ \E id \in {NoIdent} \cup
                  (IF Gone(e.spawn, e.inc) THEN {} ELSE {e.inc}) :
          HeartbeatRunLease(b, i, [e EXCEPT !.pid = e.spawn, !.ident = id,
                                            !.spawn = NoPid], TRUE)
    /\ UNCHANGED <<boot, tickVars, hint, osVars>>

(* The driver reaps its child at the end of a turn or in stop(); the       *)
(* worker then clears the recorded pid (_sync_backend_agent_pid(None)).    *)
StopBackend(b, i) ==
    LET e == entry[b][i] IN
    /\ Alive(b) /\ Idle(b) /\ e.on /\ e.pid # NoPid /\ ~e.unconfirmed
    /\ proc' = IF Gone(e.pid, e.inc) THEN proc
               ELSE GroupGone(e.pid)
    /\ SetEntry(b, i, [e EXCEPT !.pid = NoPid, !.ident = NoIdent, !.inc = 0])
    /\ \/ e.run # NoRun /\ runs' = ClearBackendPid(runs, e.run)
       \/ e.run = NoRun /\ UNCHANGED runs
       \/ Faults /\ UNCHANGED runs
    /\ UNCHANGED <<nruns, boot, tickVars, hint, foreign>>

(* stop() raised or was cancelled: the process may live on. *)
StopFails(b, i) ==
    LET e == entry[b][i] IN
    /\ Alive(b) /\ Idle(b) /\ e.on /\ e.pid # NoPid /\ ~e.unconfirmed
    /\ SetEntry(b, i, [e EXCEPT !.unconfirmed = TRUE])
    /\ UNCHANGED <<regVars, boot, tickVars, hint, osVars>>

Checkpoint(b, i) ==
    LET e == entry[b][i] IN
    /\ Serving(b) /\ e.on /\ e.run # NoRun /\ e.spawn = NoPid
    /\ CheckpointAllowed(runs, e.run, b)
    /\ runs' = CheckpointTurn(runs, e.run)
    /\ UNCHANGED <<nruns, boot, tickVars, hint, entry, osVars>>

(* _finish_run_lease: an unconfirmed cleanup leaves the row as it is. *)
FinishRunLease(run, unconfirmed, status) ==
    \/ /\ run = NoRun \/ unconfirmed \/ Faults
       /\ UNCHANGED runs
    \/ /\ run # NoRun /\ ~unconfirmed
       /\ runs' = CompleteRun(runs, run, status)

ExitStatus(b) == IF boot[b] = "stopping" THEN "shutdown_interrupted" ELSE "done"

(* The worker's exit path ends; its backend was stopped, or not.  (The     *)
(* entry leaves `_running` at the start of that path and the lease is      *)
(* finished at its end; until then the issue is not dispatched.)           *)
WorkerExit(b, i) ==
    LET e == entry[b][i] IN
    /\ Alive(b) /\ Idle(b) /\ e.on /\ e.spawn = NoPid
    /\ e.pid = NoPid \/ e.unconfirmed
    /\ SetEntry(b, i, NoEntry)
    /\ FinishRunLease(e.run, e.unconfirmed, ExitStatus(b))
    /\ UNCHANGED <<nruns, boot, tickVars, hint, osVars>>

(* A cancelled worker that does not go away is force-ejected, or abandoned *)
(* by stop(): _confirm_entry_backend_cleanup_async kills what the registry *)
(* recorded, provided the entry agrees.  The loop runs on meanwhile.       *)
EjectKill(b, i) ==
    LET e == entry[b][i]
        Eject(ok) == eject' = [eject EXCEPT ![b] =
                                  [issue |-> i, run |-> e.run, ok |-> ok]]
    IN
    /\ Alive(b) /\ Idle(b) /\ TickFree(b)
    /\ e.on /\ e.cancelled /\ ~e.abandoned /\ e.spawn = NoPid
    /\ \/ /\ e.run # NoRun /\ runs[e.run].pid = e.pid
          /\ \/ KillConfirmed(e.pid, runs[e.run].ident) /\ Eject(TRUE)
             \/ KillUnconfirmed(e.pid) /\ Eject(FALSE)
       \/ /\ e.run # NoRun /\ runs[e.run].pid # e.pid
          /\ Eject(FALSE)
          /\ UNCHANGED osVars
       \/ /\ e.run = NoRun              \* no record, so no identity to check
          /\ IF e.pid = NoPid \/ proc[e.pid].life = "none"
             THEN UNCHANGED osVars
             ELSE KillGroup(e.pid)
          /\ Eject(TRUE)
    /\ SetEntry(b, i, [e EXCEPT !.ejecting = TRUE])
    /\ UNCHANGED <<regVars, boot, reapQ, reaped, hint>>

(* _force_eject_zombie pops whatever entry the issue has by now;           *)
(* _drain_worker_tasks leaves it to stop().  Both finish the lease of the  *)
(* entry that was ejected, under the run id it has by now.                 *)
EjectFinish(b) ==
    LET i == eject[b].issue
        e == entry[b][i]
    IN
    /\ Alive(b) /\ Idle(b) /\ eject[b] # NoEject
    /\ FinishRunLease(IF e.ejecting THEN e.run ELSE eject[b].run,
                      ~eject[b].ok, "done")
    /\ IF boot[b] = "stopping"
       THEN SetEntry(b, i, IF ~e.ejecting THEN e
                           ELSE [e EXCEPT !.ejecting = FALSE,
                                          !.abandoned = TRUE,
                                          !.unconfirmed =
                                              IF e.run = NoRun THEN @
                                              ELSE ~eject[b].ok])
       ELSE SetEntry(b, i, NoEntry)
    /\ eject' = [eject EXCEPT ![b] = NoEject]
    /\ UNCHANGED <<nruns, boot, reapQ, reaped, hint, osVars>>

-----------------------------------------------------------------------------
(* Shutdown, crash, the operating system and time *)

ForgetTick(b) ==
    /\ reapQ' = [reapQ EXCEPT ![b] = {}]
    /\ reaped' = [reaped EXCEPT ![b] = NoSnapshot]
    /\ eject' = [eject EXCEPT ![b] = NoEject]

(* stop(): the tick task and every worker are cancelled. *)
RequestStop(b) ==
    /\ Serving(b)
    /\ boot' = [boot EXCEPT ![b] = "stopping"]
    /\ entry' = [entry EXCEPT ![b] =
                    [i \in Issues |->
                        IF entry[b][i].on
                        THEN [entry[b][i] EXCEPT !.cancelled = TRUE,
                                                 !.ejecting = FALSE]
                        ELSE entry[b][i]]]
    /\ ForgetTick(b)
    /\ UNCHANGED <<regVars, hint, osVars>>

(* Every worker ended or was abandoned. *)
StopCompletes(b) ==
    /\ boot[b] = "stopping" /\ TickFree(b)
    /\ \A i \in Issues : entry[b][i].on => entry[b][i].abandoned
    /\ boot' = [boot EXCEPT ![b] = "dead"]
    /\ entry' = [entry EXCEPT ![b] = [i \in Issues |-> NoEntry]]
    /\ UNCHANGED <<regVars, tickVars, hint, osVars>>

(* The process dies; the agents it started live on. *)
Crash(b) ==
    /\ Alive(b)
    /\ boot' = [boot EXCEPT ![b] = "dead"]
    /\ entry' = [entry EXCEPT ![b] = [i \in Issues |-> NoEntry]]
    /\ hint' = [hint EXCEPT ![b] = NoHint]
    /\ ForgetTick(b)
    /\ UNCHANGED <<regVars, osVars>>

ProcessExit(p) ==
    /\ \/ proc[p].life # "none" /\ proc' = GroupGone(p)
       \/ /\ proc[p].life = "leader"
          /\ proc' = [proc EXCEPT ![p] = [proc[p] EXCEPT !.life = "orphans"]]
    /\ UNCHANGED <<regVars, boot, tickVars, hint, entry, foreign>>

(* An unrelated program gets a free pid.  (Not the pid of a child whose    *)
(* start the loop has not yet returned from.)                              *)
PidReuse(p) ==
    /\ proc[p].life = "none" /\ 0 < proc[p].inc /\ proc[p].inc < MaxInc
    /\ \A b \in Boots, i \in Issues : entry[b][i].spawn # p
    /\ proc' = [proc EXCEPT ![p] = [inc |-> proc[p].inc + 1, life |-> "leader",
                                    owner |-> NoIssue]]
    /\ UNCHANGED <<regVars, boot, tickVars, hint, entry, foreign>>

Elapse ==
    /\ \E r \in RunIds : runs[r].ttl > 0
    /\ runs' = ElapseTable(runs)
    /\ UNCHANGED <<nruns, boot, tickVars, hint, entry, osVars>>

EditIssue(i) ==
    /\ \E r \in RunIds : runs[r].issue = i /\ runs[r].fresh
    /\ runs' = EditTable(runs, i)
    /\ UNCHANGED <<nruns, boot, tickVars, hint, entry, osVars>>

-----------------------------------------------------------------------------
MaintenanceStep(b) ==
    \/ ReclaimClaim(b)
    \/ ReapKill(b)
    \/ ReapFinalize(b)
    \/ ExpireLeases(b)
    \/ EjectFinish(b)

WorkerStep(b, i) ==
    \/ DispatchDiscover(b, i)
    \/ DispatchAcquire(b, i)
    \/ \E stops \in BOOLEAN : HeartbeatEntry(b, i, stops)
    \/ \E p \in Pids : SpawnBackend(b, i, p)
    \/ SyncBackendPid(b, i)
    \/ StopBackend(b, i)
    \/ StopFails(b, i)
    \/ Checkpoint(b, i)
    \/ WorkerExit(b, i)
    \/ EjectKill(b, i)

Next ==
    \/ \E b \in Boots :
          \/ StartService(b) \/ RequestStop(b) \/ StopCompletes(b) \/ Crash(b)
          \/ MaintenanceStep(b)
          \/ \E i \in Issues : WorkerStep(b, i)
    \/ \E p \in Pids : ProcessExit(p) \/ PidReuse(p)
    \/ Elapse
    \/ \E i \in Issues : EditIssue(i)

Spec == Init /\ [][Next]_vars

(* Fairness.  A live instance keeps ticking (heartbeats, reclaim passes    *)
(* and what follows an await); as asyncio serves its ready queue in order, *)
(* a callback is not starved by the two-transaction dispatches between     *)
(* which it is ready: strong fairness.  A lease keeps running out, and a   *)
(* SIGKILL that every pass repeats is at last confirmed within the poll's  *)
(* deadline.  Nothing is assumed of agents, crashes, shutdown or dispatch, *)
(* nor of the pid probe: the pass that is promised is the one to which     *)
(* every dead owner looks alive, which can claim lapsed leases only.       *)
ReclaimSeeingAll(b) ==
    /\ ReclaimClaim(b)
    /\ runs' = ReclaimDeadOwners(runs, b, {c \in Boots : boot[c] # "off"})

ReapConfirmed(b, r) ==
    ReapKill(b) /\ reaped'[b] # NoSnapshot /\ reaped'[b].run = r

Fairness ==
    /\ \A b \in Boots :
          /\ SF_vars(ReclaimSeeingAll(b)) /\ WF_vars(ReapKill(b))
          /\ SF_vars(ReapFinalize(b)) /\ SF_vars(EjectFinish(b))
          /\ \A r \in RunIds : SF_vars(ReapConfirmed(b, r))
          /\ \A i \in Issues : /\ SF_vars(HeartbeatEntry(b, i, TRUE))
                               /\ WF_vars(DispatchAcquire(b, i))
    /\ WF_vars(Elapse)

FairSpec == Spec /\ Fairness

-----------------------------------------------------------------------------
(* Properties *)

(* A checkpoint is consumed at most once: no two runs continue the same    *)
(* run, however discovery and acquisition of several instances interleave  *)
(* (latest_continuation_source, acquire_continuation_run).                 *)
OneSuccessor ==
    \A r, s \in RunIds :
        runs[r].from # NoRun /\ runs[r].from = runs[s].from => r = s

(* A continuation resumes the last thing that happened to its ticket: no   *)
(* other run of the ticket lies between a run and the one it continues     *)
(* (the "no newer row" clause of acquire_continuation_run).                *)
ContinuesNewest ==
    \A r \in RunIds : runs[r].from # NoRun =>
        /\ runs[r].from < r
        /\ runs[runs[r].from].issue = runs[r].issue
        /\ \A s \in RunIds :
              s < r /\ runs[s].issue = runs[r].issue => s <= runs[r].from

(* A continuation never loses a completed turn: a worker whose lease was   *)
(* taken over cannot move the checkpoint of a run that was continued       *)
(* (checkpoint_completed_turn is fenced by owner and status).              *)
ContinuationKeepsProgress ==
    \A r \in RunIds : runs[r].from # NoRun =>
        runs[runs[r].from].turn <= runs[r].turn

(* The table as the log of RunHistory: a row has ended once it is neither  *)
(* active nor being reclaimed.                                             *)
Life(row) ==
    IF row.status \in {"none", "active", "reclaiming"} THEN row.status ELSE "ended"

LogEntry(row) ==
    [issue |-> row.issue, life |-> Life(row), turn |-> row.turn, from |-> row.from]

History == INSTANCE RunHistory WITH
    log <- [r \in RunIds |-> LogEntry(runs[r])], last <- nruns

(* The registry, with every instance, process and crash, implements the    *)
(* log: no late heartbeat, checkpoint, reclaim or finalize changes a run   *)
(* that ended, and a run is resumed once, by the next one of its ticket    *)
(* (run_registry.py, the transactions of the runs table).                  *)
ImplementsHistory == History!Spec

(* While a reclaimer is about to release a fence, the backend recorded in  *)
(* the reclaimed row is gone, and stays gone although its pid is reused    *)
(* (_reclaim_kill_confirm, then an await, then finalize_reclaimed_lease).  *)
ReapedIsGone ==
    \A b \in Boots : reaped[b] # NoSnapshot =>
        Gone(reaped[b].pid, reaped[b].ident)

(* A reclaimed row is released only after the backend it names is gone:    *)
(* the row still names the backend that the reaper killed, although its    *)
(* old owner may have been alive during the kill.                          *)
FinalizedBackendGone ==
    [][\A r \in RunIds :
          runs[r].status = "reclaiming" /\ runs'[r].status = "orphaned" =>
              Gone(runs[r].pid, runs[r].ident)]_vars

(* A run that ended stays ended: a late heartbeat, pid callback, reclaim   *)
(* or finalize of another instance never makes it fence its ticket again.  *)
NoRevival ==
    [][\A r \in RunIds :
          runs[r].status \in Statuses \ {"none", "active", "reclaiming"} =>
              runs'[r].status \notin {"none", "active", "reclaiming"}]_vars

(* No instance inserts a run of a release ticket it has a worker on. *)
NoSecondRun ==
    \A b \in Boots, i \in ReleaseIssues :
       entry[b][i].on =>
           \A r \in RunIds : runs'[r].issue = i /\ runs'[r].owner = b =>
                              runs[r].issue = i

(* A release worker never carries on under a second run: a new run of a    *)
(* release ticket starts only with a new worker, although heartbeats may   *)
(* find the lease gone or the registry failing (_heartbeat_run_lease,      *)
(* release_required).                                                      *)
ReleaseRunStartsWithWorker == [][NoSecondRun]_vars

(* The reaper and force-eject never signal a process Symphony did not      *)
(* start, even after the operating system reused the recorded pid.         *)
NoForeignKill == ~foreign

(* A dead instance's lease is released in the end by any instance that     *)
(* stays up, also when the dead instance's pid looks alive, unless the     *)
(* recorded group cannot be told apart: no identity was captured, or only  *)
(* members other than the leader are left.                                 *)
HeldByDead(r) ==
    /\ runs[r].status \in {"active", "reclaiming"}
    /\ boot[runs[r].owner] = "dead"

Ambiguous(row) ==
    /\ row.pid # NoPid
    /\ \/ proc[row.pid].life = "orphans"
       \/ proc[row.pid].life = "leader" /\ row.ident = NoIdent

DeadOwnerFreed ==
    (\E b \in Boots : <>[](boot[b] = "up")) =>
        \A r \in RunIds : HeldByDead(r) ~> (~HeldByDead(r) \/ Ambiguous(runs[r]))

(* A worker whose run was taken from it while a lease still fences its     *)
(* ticket is cancelled in the end (_heartbeat_running_leases), although    *)
(* events heartbeat without looking at the answer.                         *)
Conflict(b, i) ==
    LET e == entry[b][i] IN
    /\ boot[b] = "up" /\ e.on /\ ~e.cancelled /\ e.run # NoRun
    /\ runs[e.run].status # "active"
    /\ ActiveIssue(runs, i)

LostLeaseStopsWorker ==
    \A b \in Boots, i \in Issues : Conflict(b, i) ~> ~Conflict(b, i)

-----------------------------------------------------------------------------
(* Claims of the repository that the code does not keep *)

(* run_registry.py, class RunRegistry: "Persist one active dispatch lease  *)
(* per issue".                                                             *)
OneActiveLease ==
    \A r, s \in RunIds :
        /\ LeaseBlocking(runs[r]) /\ LeaseBlocking(runs[s])
        /\ runs[r].issue = runs[s].issue
        => r = s

=============================================================================
