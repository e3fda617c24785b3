# Oh My Symphony: TLA+ models, model checking and proofs

Symphony turns the tickets of a board into agent runs. A service polls the
board, starts a coding agent per eligible ticket, watches it, gates, retries and
escalates it, and merges what it produced; around it are a planning workspace
whose approvals authorise runs, a release gate, a chat, and the commands that
start and stop the service. This directory models the parts whose correctness
depends on the order in which things happen, checks them with TLC, and proves the
central facts about each of them with TLAPS. Paths below are relative to the repository; the orchestrator is
`src/symphony/orchestrator/`.

## 1. Inventory

| Component (code) | State it keeps | Operations | Talks to |
|---|---|---|---|
| Run registry (`run_registry*.py`) | `.symphony/state.db`: `runs` (status, expiry, owner, backend pid and fingerprint, checkpoint, predecessor), `issue_flags`, PM and release tables | acquire, continue, heartbeat, checkpoint, complete, expire, reclaim, finalize; flag, permit and gate writes | every service instance on the project, one SQLite transaction each |
| Registry migrations (`migrations.py`) | schema version, backups | back up, migrate one version, re-read | every process that opens the registry |
| Run lease protocol (`run_leases.py`) | `RunningEntry` per ticket, reclaim pass in progress | acquire with continuation, heartbeat and re-acquire, reap and finalize, finish or defer, rehydrate flags | registry, process control, tick, exit |
| Dispatch (`dispatch.py`, `dispatch_state.py`, `entries.py`) | `_running`, `_claimed`, `_retry`, attempts, budgets | tick: reconcile, prune, fetch, scan, start | tracker, leases, workers |
| Retry, stall, escalation (`retry_reconcile.py`) | retry timers, pending escalations | schedule, fire, repark, release, escalate, stall-cancel, force-eject | dispatch, exit, tracker |
| Issue flags (`run_leases.py`, `worker_exit.py`, `retry_reconcile.py`) | pause and reason, exhausted budget, attempt, in memory and in the registry | pause, resume, hold, release, rehydrate | registry, workers, operator |
| Attempt and gates (`attempt.py`, `agent_phase.py`, `workflow/verify.py`, `worker_exit.py`) | turn loop, lane, gate verdicts, rewinds | run turn, gate, rewind, finish | backend, tracker, git |
| Token accounting (`agent_phase.py`, `worker_exit.py`) | usage per backend, phase and run; empty-turn count | apply event, cap, reset, account | backend events, exit |
| Blocked recovery (`blocked_recovery.py`) | fix tickets, links, history sections | demote, reopen, rescue, open fix, repair | tracker, tick, operator |
| File tracker (`trackers/file.py`) | one Markdown file per ticket, locks | create, update by compare-and-swap, note, block, delete | service, CLI and agents at once |
| Workspaces and merging (`workspace.py`, `utils/auto_merge.py`, `worker_exit.py`) | worktrees, branches, host index and HEAD | create, reuse, refresh, snapshot, merge, push, remove | git, operator |
| Deliverables (`artifacts.py`, `sweeps.py`) | store, index, quota | collect, list, rebuild, archive, sweep | workers, tick |
| Release (`run_registry_release.py`, `packages/release`) | gate, generations, verifier and finalizer tickets, contract, evidence | bind, verify, approve, repair, finalize, retire | registry, tracker, runs |
| PM (`run_registry_pm.py`, `packages/pm`) | plan documents, identity ledger, approvals, handoffs, permits, archive journal | write, recover, approve, hand off, launch guard, accept, archive | registry, tracker, orchestrator |
| Service and projects (`service.py`, `projects.py`, `hub`) | lock and record files, ports, project registry, repositories | start, stop, restart, create, adopt, roll back | other commands, operating system |
| Chat (`packages/chat`) | sessions, turns, modes, proposal cards | start, send, switch, stop, propose, confirm | backends, tracker, projects |
| Agent backends (`backends/`, `_shell.py`) | process groups, streams, pending requests, sessions | spawn, turn, cancel, time out, resume, stop | agent processes |
| Continuous improvement (`continuous_improvement.py`) | lease file, stamps, temporary worktree, filed tickets | claim, prove, check, triage, turn, file | tracker, git, agents |
| Scheduler, contracts, configuration, remote trackers, web API, CLI, TUI, notifications, templates | none that others race on | pure functions, presentation and I/O | the above |

What is hard here, and what tests hardly reach:

* **Several processes on one table or file.** A restarted or second service
  reclaims leases of an instance that may be dead, slow or alive, while pids are
  reused; agents and people edit ticket files and documents without any lock;
  two processes migrate one database.
* **State read before an `await` and used after it.** Retry timers, the reopen
  hold, force-ejects, gates, exit handlers, chat requests and backend launches
  decide on one side of an await and act on the other.
* **Failing open.** A raising registry lets runs start without a lease or a
  remembered hold, so the in-memory tables must be enough alone.
* **Crashes between two transactions, files or Git commands** of one operation:
  what is left is a prefix that a retry, a restart or a peer must finish or undo.
* **Answers that arrive late**: from a cancelled turn, an evicted worker, a
  verifier whose lease has lapsed, a gate of the lane before.
* **Something must eventually happen**: leaked claims, held slots, locks, dead
  owners' leases and half-made archives must not block a ticket for ever.

`PROJECT.json` lists every component and, under `hazards`, each place where one
of these bites, with the properties aimed at it.

## 2. Modules

| Module | Models | Checked by |
|---|---|---|
| `RunHistory` | abstract: the runs of all tickets as a log | `RunLeases` refines it |
| `RunRegistry`, `RunLeases` | the `runs` table, and service instances and processes over it | `MCRunLeases`, `MCPlanning` |
| `RunLeasesProofs` | type correctness; what a row can go through; continuations; the refinement; backends and kills | TLAPS |
| `Dispatch` | dispatch state of one service and its coroutines | `MCDispatch`, `MCWorkers` |
| `DispatchProofs` | its tables agree; the cap on workers; one worker per ticket; a stopped one-turn agent stays stopped; a turn of a long-lived agent reports its own | TLAPS |
| `IssueFlags` | pause, budget and attempt across workers, retries, restarts | `MCTickets` |
| `TicketProofs` | holds are on record and survive; the retry cap; gates run before a merge; one fix ticket at a time; saves undo nothing | TLAPS |
| `FileBoard` | the file tracker and edits behind its back | `MCTickets`, `MCEventually` |
| `Attempt` | turn loop, lanes, gates, exit and reconciliation of one ticket | `MCTickets` |
| `BlockedRecovery` | fix tickets of a Blocked ticket | `MCTickets`, `MCEventually` |
| `Delivery` | worktree, snapshot, merge and clean-up | `MCWork` |
| `TokenAccounting` | usage events, caps and exits | `MCWork`, `MCBudget.cfg` |
| `Deliverables` | stored files of a ticket and the sweeps | `MCWork` |
| `ReleaseContract` | validation of a release's contract and evidence | `MCWork` |
| `WorkProofs` | no work is lost, Done is merged; a spent backend gets no further turn; green means green in every raw line; live tickets keep their files | TLAPS |
| `ReleaseCycle` | abstract: what a release promises | `Release` refines it |
| `Release` | gate, tickets and runs of an application release | `MCRelease` |
| `ReleaseProofs` | approvals and completions are earned; the refinement; heartbeats remove their worktrees and report nothing twice | TLAPS |
| `PmAuthority` | approval, handoff, permits, launch guard, acceptance | `MCPlanning` |
| `PmDocuments` | plan documents, identity ledger, crash recovery | `MCPlanning` |
| `PmAuthorityProofs` | launches are authorised; accepted tasks stay quiet; the plan is never torn | TLAPS |
| `PmPlanning` | planning operations, their agents and cancels | `MCClients` |
| `PmArchive` | archiving an accepted change | `MCEventually` |
| `Migrations` | upgrade of `state.db` by several processes | `MCEventually` |
| `MigrationsProofs` | versions and schema agree; approvals stay; losses are copied | TLAPS |
| `Service` | start, stop and restart of a workflow's service | `MCClients` |
| `ProjectSetup` | creating and adopting projects | `MCClients` |
| `ChatSessions`, `ChatActions` | chat sessions and turns; proposal cards | `MCClients` |
| `ClientProofs` | no planning agent is lost hold of; turns run in their mode; the service stays managed; rollbacks are exact; approvals share a filing | TLAPS |
| `AgentTurn`, `AgentRpc` | agents of one turn; long-lived JSON-RPC agents | `MCWorkers` |
| `Improvement` | improvement heartbeats | `MCTickets` |

`MCRunLeases`, `MCDispatch` and `MCRelease` extend one component and add
symmetry and constants. The other MC modules put several small instances side by
side: a variable `part` names the component a behaviour is about, and every step is
a step of it. `MCWorkers`, `MCTickets`,
`MCWork`, `MCPlanning`, `MCClients` and `MCEventually` extend the components
their proofs are about (`Dispatch`, `AgentTurn` and `AgentRpc`, `IssueFlags`, `Attempt`,
`Improvement`, `BlockedRecovery` and `FileBoard`, `TokenAccounting`, `Deliverables`, `ReleaseContract` and `Delivery`,
`PmAuthority`, `RunLeases` and `PmDocuments`, `PmPlanning`, `ChatSessions`, `Service`,
`ProjectSetup` and `ChatActions`, `Migrations`), whose variables have fixed values
(`Idle...`) while a behaviour is about another; in `MCEventually` `FileBoard`, `PmArchive`
and `BlockedRecovery` are instances over the variables `s1`, ..., `s24` of `Parts`. This asks several separate questions in one run;
it makes no claim that the components interact. Where components do interact the
interaction is inside one module: `RunLeases` over `RunRegistry`, `Attempt`'s
worker, exit and tick, `Release`'s registry, board and runs.

Most modules have a `TypeOK` that documents their state. Besides the properties the
runs list, modules state others that hold on the same instances:
`FinalizedBackendGone` and `ContinuesNewest` (RunLeases), `GateHasTickets` (Release), `RepairsAreReal`
(ReleaseContract, proved), `OperatorIsKept` (Delivery), `TurnsWithinBudget` (Attempt),
`PublishedIsWhole` (PmAuthority), `ApprovedWorkStays`, `SupersededIsIdle`
(PmDocuments), `ReleasedIsArchived`, `OthersTextKept` (PmArchive), `StopIsComplete`
(Service, proved), `OperatorFilesStay` (ProjectSetup, proved), `StoppedIsQuiet`
(ChatSessions, proved), `LatestDraft`, `NumberIsCurrent`, `SetupSurvivesStop`
(ChatActions, proved),
`NoForgottenAgent` (AgentTurn, proved), `CompletedOnEvidence` (AgentTurn), `EofFailsTurn`,
`GivenUpIsGone` (AgentRpc), `RescuedOnce` (BlockedRecovery),
`TurnsStayWithinCap`, `NotReportedTwice` (Improvement, proved), `ListedIsStored`
(Deliverables), `TokensAddUp`, `EmptyLoopStops` (TokenAccounting),
`NotHalfMigrated`, `LossIsBackedUp` (Migrations, proved), `RetriesStayCapped`
(IssueFlags).

### RunRegistry and RunLeases

A registry method is one `BEGIN IMMEDIATE` transaction, hence one step. A run id
is its rowid, an expiry the time it has left (`ttl`), a fingerprint the
incarnation of a numeric pid. `fresh` stands for the comparison of a checkpoint
with the ticket it was taken of. A step of an instance is what it does between
two points where a peer, its own loop or the operating system can interleave:
one transaction, or one kill in a thread.

`RunHistory` is what the table promises whoever reads it: a log in which what
ended stays as it was, completed turns are added to living runs only, and a run is
resumed at most once, by the next run of its ticket, with its turns. The
refinement mapping (`LogEntry`) forgets owners, leases, pids and fingerprints and
calls every final status "ended".

| Code | Action |
|---|---|
| `_try_acquire_run_lease` | `DispatchDiscover`, then `DispatchContinuation`, `DispatchFresh`, `DispatchLeaseless` or `DispatchRefuse`: discovery and acquisition are two transactions |
| `_heartbeat_run_lease` and its callers | `HeartbeatEntry(b, i, stops)`; `stops` tells the tick, which cancels a worker that lost its lease, from events and reconcile, which ignore the answer |
| `_reclaim_dead_owner_runs_async`, `_reclaim_kill_confirm`, `_reap_and_finalize...` | `ReclaimClaim`, `ReapKill`, `ReapFinalize` |
| `PerTurnCliBackend._spawn`, `_sync_backend_agent_pid`, `_cleanup_backend` | `SpawnBackend`, `SyncBackendPid`, `StopBackend`, `StopFails` |
| `_checkpoint_completed_turn`, `_finish_run_lease`, `_on_worker_exit` | `Checkpoint`, `FinishRunLease`, `WorkerExit` |
| `_reconcile_stall_state`, `_force_eject_zombie` | `EjectKill`, `EjectFinish` |
| `start`, `stop`, `_drain_worker_tasks`, a crash | `StartService`, `RequestStop`, `StopCompletes`, `Crash` |
| operating system, clock, people | `ProcessExit`, `PidReuse`, `Elapse`, `EditIssue` |

Left out: Windows job objects; the PM and release tables, and the refusal of
legacy rows in `acquire_run`; a stale ticket snapshot in the continuation check;
config reloads of `crash_continuation`; the heartbeat reconcile sends for an
entry that has just left `_running`; workers whose entry an eject of a
replacement dropped go on without effect on the registry.

### Dispatch

One service is one asyncio loop, so a step is what a coroutine does between two
awaits; timers fire at any moment. `task[t]` is a worker followed by its exit
handler, `firing[i]` a retry popped from `_retry` that awaits its candidate
fetch, `tick.zombies` the cancelled entries in the tick's snapshot of
`_running`. The order of the scan is left open, which covers every scheduling
policy. A ticket is `active` or `closed` on the board. Its lease is abstracted to
its holder; `Orphan` stands for another instance or a run whose clean-up was
deferred.

| Code | Action |
|---|---|
| `_on_tick` | `TickStart`, `TickPrune` (G1), `TickFetch`, `ScanPass`, `ScanStart`, `HoldReopened`/`HoldEnds`, `TickEnd` |
| `_reconcile_running`, `_reconcile_stall_state`, `_reconcile_one` | `StallCancel`, `EjectKill`, `EjectFinish`, `CancelClosed` |
| `_eligibility_decision`, `_available_slots`, `_in_flight_ids` | `Decision`, `AvailableSlots`, `InFlight` |
| `_schedule_retry`, `_retry_cap_exceeded`, `_install_retry` | `ScheduleRetry` |
| `_on_retry_timer`, `_process_retry`, `_handle_retry_decision` | `RetryFire`, `RetryFetchFails`, `RetryMissing`, `RetryDecide` |
| `run_agent_attempt`'s finally, `_on_worker_exit`, `handle_worker_exit` | `WorkerEnds`, `ExitClosed`, `ExitError`, `ExitNormal`, `ExitPersist`, `ExitFinish` |
| `_escalate_max_retries` | `EscalationBegin`, `EscalationEnds` |
| `pause_worker`, `resume_worker`, people, lease expiry | `PauseWorker`, `ResumeWorker`, `MoveTicket`, `LeaseLapses` |

The variable `world` fixes, for a whole behaviour, which tickets exist, what
blocks what and which kinds of events happen. `Init` chooses it from the constant
`Worlds`, because all kinds at once exceed what TLC can enumerate; `MCDispatch`
names the worlds of each run. Left out: the idle wait of continuous improvement,
retired release verifiers and release refusals, per-state caps, auto-triage and
lane promotion inside the active states, `max_retries = 0` (no cap), stop and
restart, and the lost lease of a running worker (`RunLeases`' subject).

### What happens to a ticket

* **IssueFlags** keeps the flags in memory (`mem`) and in the registry (`row`),
  a worker, a retry waiting (`retry`) or popped and polling (`polling`), and the
  point a worker's exit has reached (`step`). Every write may fail and the
  process may die before it. Actions: `Launch`, `OpenRunRegistry`, `ListFails`,
  `Tick`, `PauseWorker`, `ResumeWorker`, `QuotaPauses`, `Fails`,
  `ScheduleRetry`, the exits, `OnRetryTimer`, `ProcessRetry`, `Down`.
* **FileBoard**: a writer's operation (`job[w]`) goes through the flock, the
  parse, the compare-and-swap on `updated_at` or bytes, and the atomic replace;
  `HandEdit` changes a file at any moment, with or without a new `updated_at`,
  and may leave front matter that does not parse. A ticket's text is the set of
  changes in it, of its fields and of its body, so a lost one shows. `UpdateFields`
  is a PATCH of any set of fields, of which a description replaces the body.
* **Attempt**: `WorkerStep` is the turn loop with phase transitions and pauses,
  `GateStep` a stage gate's evaluation (verify command, then contract, then
  rewind), `ExitStep` the exit handler, `TickStep` the reconciliation,
  `ServiceStep` stop, crash, start-up and the operator. `owed` is the set of
  gates the present trip of the card has still to pass, `debt` what a Done card
  owed when it was shipped. `excused` records the windows in which the code
  knowingly or unavoidably trusts a card it has not verified: the host dies in a
  turn whose lane was not recorded yet, a worker without a turn drops the
  record, the agent or the operator moves the card under a verdict, a retry
  overtakes the tick, or the refresh before a gate fails on a card that has moved
  (`stale`: `_refresh_issue_full` returns None, `_enforce_factory_exit_contract`
  decides on the entry's old card, `dispatch.py:1147`, and the exit then clears the
  record, `worker_exit.py:160`). `GatesRun` is the claim outside those windows.
* **BlockedRecovery**: the tick (`FixTick`) sweeps finished fix tickets, fetches,
  rescues histories and opens fix tickets with a note, a move and a link as
  separate writes; `Recover` is the operator's request; `FixNotes`, `FixMoves`,
  `SourceMoved`, `OperatorAnswers` are edits between them.

### What an attempt produces

* **Delivery**: commits carry trees and ancestors, every edit a new version of a
  path, so that "this work is still somewhere" is a state predicate. The merge
  script is stepped at its Git commands (`Preflight`, `CaptureHead`,
  `TakeIndexLock`, `ApplyMerge`, `CommitMerge`, `PublishIndex`, `SyncUpstream`)
  and may be killed between two; the operator edits, stages, commits and merges
  in the host checkout. The history gate, workspace reuse policies, removal and
  the start-up clean-up are actions. `Reconcile` cancels a running worker and goes
  on to snapshot, merge and removal while the agent and its after_run hook stay
  `live` until `AgentStops`: `AgentEdit` and `AgentCommit` are possible at every step
  between. `late` and `kept` remember what they wrote after the snapshot and what
  was there before, `stray` a commit the merge came too early for. With
  `agent.auto_commit_on_done` off (`policy.commit`) nothing is snapshotted.
  Simplified: a snapshot is one step, the silence and grace periods reconcile waits
  for are left out, so that it may come at any time; the check and the deletion of a
  branch are one step; copies of ignored files are left out; the host's HEAD is
  on the target branch; a killed script leaves `index.lock`; a refused push
  counts as a fault.
* **TokenAccounting**: a backend reports absolute usage, the entry keeps the last
  report and adds deltas; `LateEvent` is a report of an evicted worker's backend,
  which reaches its successor's entry. `Dispatch`, turns, phase resets, caps,
  empty turns, `Cancelled` and the exits are actions.
* **Deliverables**: `Collect`, `Stat`, `Hash`, `Copy`, `WriteIndex` under the
  store's lock, with the worker writing in between; `ListFor`, the archive sweep
  of one ticket, and `ListAll`, `Retained`, `Sweep`.
* **ReleaseContract** is a function: `Validate`'s verdict on a contract, a
  worker's evidence and the runner's results. Steps damage one thing at a time,
  so the reachable states are the inputs within `MaxDefects` of a correct one.

### Release and its abstraction

`ReleaseCycle` is the promise: cycles are opened under increasing generations,
each is approved at most once, for one commit, completed at most once, after its
approval, and nothing happens to a superseded one. `Release` has the gate row,
the evidence rows, runs that lapse and crash but whose tasks go on, the verifier
and finalizer tickets and the target branch. Its actions are the transactions of
`run_registry_release.py` and the tracker writes of `transition.py`, `cycle.py`
and `authority.py` between them: `PrepareVerifier`/`PrepareFinalizer`, `Acquire`,
`Bind`; `Verify`, `Enforce`, `Validate`, `Decide`, `Approve`, or `Reserve`,
`CreateRepair`, `CreateVerifier`, `Pend`, `Relink`, `Prove`; `Deliver`, `Guard`,
`Mark`, `Confirm`; and the start-up repairs. The refinement mapping takes the
gate's generation, the approvals and the completion marks (`Promise`).

### Planning

* **PmAuthority**: documents, approvals, handoffs staged and published ticket by
  ticket, permits per attempt, the launch guard in its steps (`GuardStep`),
  receipts and acceptance; a crash at any step, external edits of the plan.
* **PmDocuments**: every write as stage, journal, replace, unlink; recovery rolls
  the journal forward; the operator's external edits; proposals over several
  documents; conversion of a legacy ticket.
* **PmArchive**: prepare a journal, write the baseline file by file, move the
  change, complete, release the claim; a retry rolls any crash prefix forward
  and refuses text that is neither before nor after.
* **PmPlanning**: one request makes a proposal (`route`), others cancel it
  (`req`); the proposal's own task drives the agent and goes on when its request
  is cut off. `client.lock` is the client's cleanup lock: the task, the request,
  a cancel and the reader of the agent's output stop the agent one at a time.
  `held` is `self.process`: between the start of the process and the assignment
  (`Spawned`) an agent is alive that the client does not hold, which is what
  `MayStop` is about.
* **Migrations**: `ReadVersion` outside the lock, `Backup`, then per version
  `Begin`, `Commit` or `Rollback`; `PersistPending`, `Approve`, `Bind` and
  `Complete` are what a process does with a gate once the registry is open.

### Clients and agents

* **Service**: a command's lock file, owner pid, status check, spawn, stability
  wait, record; stop of the orchestrator and of the agents it left behind.
* **ProjectSetup**: root, repository, bundle files one by one, runtime excludes,
  stage, commit, register; `Unstage` and `Undo` after a failure,
  which may fail themselves; the operator works in the directory meanwhile. `left`
  are files on disk the setup could not take away or did not know of, `stuck` says
  that Git refused to unstage.
* **ChatSessions**: requests and turns between awaits; two session objects may
  carry one id. **ChatActions**: proposal cards, their confirmation from several
  places, their expiry, and the stop of the session that owns them.
* **AgentTurn**: launch, publication, prompt, stream, linger, timeout and the
  termination ladder, for `stop()` and the turn at once (`ladder`); groups keep
  members the leader has forked. The creation of a process is awaited (`launching`):
  nobody holds it yet, and a backend without a stdin payload (`OnCommandLine`) has
  prompted it already. A creation that is cut off takes the leader down only
  (`cut`). **AgentRpc**: frames the agent wrote, the
  reader, pending requests and Codex's completion waiter; ACP relaunches and
  resumes, Codex stays up.
* **Improvement**: the lease file (created, then written), schedule, baseline
  worktree, checks, triage, turn and filing; cut-offs and crashes at each step.

## 3. Runs

Bounds are constants of the modules (`Max...`, `TTL`, `Rounds`, the sizes of
sets); each module says what they bound, and each MC module what it sets them to.

| Run | Question and bounds | Holds |
|---|---|---|
| `reclaim` | Two instances, one ticket, one pid with two incarnations, two rows (what a take-over and a pid reuse need): is a reclaimed backend dead before its row is released, is a reused pid spared, does an ended run stay ended? 1.5 M states | `ReapedIsGone`, `NoForeignKill`, `NoRevival` |
| `continuation` | Three instances, of which one dies and at most two overlap (`OneReplaced`), three rows, two turns: two survivors race for the dead one's checkpoint, a third run may slip in, a worker being replaced reports one more turn. 0.3 M | `OneSuccessor`, `ImplementsHistory`, `ContinuationKeepsProgress` |
| `progress` | Liveness of leases, two instances, one row. 13 k | `DeadOwnerFreed`, `LostLeaseStopsWorker` |
| `workers` | Dispatch: one ticket and every event but stalls and reopen holds; two tickets and one slot; three task identities, so that a worker, its replacement and a late one coexist. AgentTurn: two processes. AgentRpc: three turns, two launches. 1.7 M | `OneOwner`, `RunningWithinCap`, `StopHolds`, `TurnIsOwn` |
| `served` | Liveness of dispatch: failing trackers, parks and holds; stalls; pauses and budgets; a ticket opened that blocks another already in backoff. 98 k | `EventuallyServed`, `BlockerServed` |
| `release` | Three runs, three target commits of two contracts, three generations, two disturbances (crash, lapse, hand edit, moved target): enough for a verifier to go stale under a second cycle and for a finalizer of the first. 1.35 M | `ApprovalIsEarned`, `CompletionIsEarned`, `ImplementsCycle` |
| `tickets` | FileBoard: any operation against a note, create or delete, with two direct edits; four patches, of which two bring a description. Attempt: two gated lanes, one crash, three faults, explored until a gate is excused. BlockedRecovery: two fix tickets, one fault. IssueFlags: two backends, two ends of the process. Improvement: two orchestrators with one turn each and one incident, and one with two turns and four incidents; one cut-off or crash. 2.7 M | `SavesUndoNothing`, `GatesRun`, `OneOpenFix`, `WorktreeRemoved`, `HoldSurvives` |
| `work` | Delivery: two tickets on one path with preserved workspaces, snapshots and an operator who edits; one ticket with an excluded path, under three policies; four commits. TokenAccounting: two backends, one evicted. Deliverables: two files whose names collide. ReleaseContract: two checks, up to three defects. 1.5 M | `WorkIsKept`, `DoneIsMerged`, `BudgetHolds`, `LiveTicketKeepsFiles`, `GreenMeansGreen` |
| `planning` | PmAuthority: two tasks, one requiring the other, two contents, two approvals, two attempts, a crash. PmDocuments: two ids, two writes, two crashes, one external edit. RunLeases: a release and an ordinary ticket, a registry that may raise at every call. 1.15 M | `LaunchIsAuthorised`, `AcceptedIsQuiet`, `NeverTorn`, `ReleaseRunStartsWithWorker` |
| `clients` | Service: two commands, one killed. ProjectSetup: two setups of one directory, two faults of the undo. ChatSessions: two requests, three objects. ChatActions: three proposals. PmPlanning: two operations, of which the second needs the first to be over, one request that cancels again and again, one fault (cut-off, reader's stop, failed clean-up, restart). 2.0 M | `ServiceIsManaged`, `RollbackIsExact`, `TurnRunsInMode`, `ApprovalsShareFiling`, `AgentsAccounted` |
| `eventually` | Liveness: two writers of one file with a direct edit; an archive with two requests and two crashes; a source and its fix ticket. Migrations: two processes, one fault, two gate operations. 221 k | `WritersFinish`, `ArchiveFinishes`, `PartialCreateRepaired`, `NewApprovalStays` |
| `budget` | The code does not do what its tests mean; see below | violated: `BudgetIsPersisted` |

`NoForeignKill` is checked with a registry that does not raise: an entry without
a lease is ejected without a recorded identity, and `kill_process_group`
documents that it then kills by pid alone. Deadlock is checked in the dispatch
runs. It is off elsewhere: there a behaviour ends when the service is stopped, an
operation is over or a bound is used up.

### Where the code falls short of a comment, a doc or a test

`budget` is a run: the token cap cancels the worker from the event handler, so
its exit is a cancelled one, and the branch that moves the card and records the
exhausted budget is reached by normal exits only (`BudgetIsPersisted`; the
finding quotes the tests).

The others are stated in the modules; TLC violates each when it is added to an
instance. The runs check what remains true.

| Property | The claim, and what happens |
|---|---|
| `RunLeases!OneActiveLease` | one active lease per issue (`run_registry.py:61`): a lapsed row with a backend neither expires nor blocks, and a late heartbeat revives it beside a newer one |
| `Dispatch!LiveWorkerKept` | only the finished task's entry is dropped: a force-eject drops the entry of the worker that replaced the one it killed (`retry_reconcile.py:146`) |
| `Dispatch!EscalatedStaysOut` | the claim survives G1 during an escalation: not during the first attempt, which is in no table while its tracker write is awaited (`retry_reconcile.py:380`) |
| `FileBoard!AcyclicBoard` | a `blocked_by` edit that closes a cycle is refused: two concurrent edits each pass the check |
| `Release!NoPeerRetired` | loss of ownership is an abort without side effects (`authority.py:1050`): a task past its last check still replaces the gate of a live peer |
| `Delivery!NothingLateLost` | "Snapshot before remove" so that nothing the agent left is discarded (`retry_reconcile.py:963`): the cancelled agent is not waited for, and what it or its after_run hook writes between the snapshot and the removal goes with the worktree (`retry_reconcile.py:952-1049`, `attempt.py:1256`, 1288) |
| `Delivery!NoStray` | a Done card's branch is in the target when its worktree goes: not what the cancelled agent or its hook commits after the merge read the branch and before the removal (`retry_reconcile.py:1025-1039`) |
| `AgentTurn!StopLeavesNothing` | "Ownership was retained before that await" (`per_turn.py:288`), so a `stop()` leaves no agent at work: not before the await of the creation itself. OpenCode's prompt is on the command line, so that an agent works after a `stop()` that found nothing, until the launch takes it down (`per_turn.py:203`, 286-299, `opencode.py:93`) |
| `FileBoard!BodiesKept` | "`description` replaces the Markdown body" (`update_fields`): it replaces the body there is, not the one its caller read, and a PATCH says nothing of that one; a note appended in between is gone (`trackers/file.py:1380`, `issue_routes.py:552-628`) |
| `Delivery!NothingDiscarded` | an agent's work is committed before its worktree is discarded: not under the refresh policy, nor when the snapshot fails (`workspace.py:1047`, `worker_exit.py:1037`) |
| `Attempt!CrashSkipsNoGate` | the turn's lane is recorded "so a shutdown cannot skip it": a crash before the record skips the gate (`attempt.py:283`, `attempt.py:683`, `agent_phase.py:426`) |
| `PmDocuments!ExternalEditBlocksWrites` | an external edit blocks browser and assistant writes (`docs/pm-workspace-operations.md:8`): applying a proposal to several documents does not look at the mode (`documents.py:692`) |
| `Service!LockExcludes` | one command at a time: two that find the same stale lock both take it (`service.py:205`, docstrings at 121 and 199) |
| `ChatActions!FiledOnce` | an intent files one ticket: the artifact is written after it, and a failed write lets the next approval file another (`intent.py:329`, 343) |
| `ChatSessions!WithinLimit` | the limit on sessions: a reattach checks it before an await (`chat/__init__.py:642`, 775, 814) |
| `AgentRpc!ReplayStaysOut` | replayed updates are not the turn's: those read after the load timed out are (`acp.py:132`, 289, 721) |
| `BlockedRecovery!ProvenStaysDone` | a source that blocks again is a new episode (`core_support.py:254`): its missing resolution still moves the fix ticket of the proven one out of Done (`blocked_recovery.py:1268-1290`) |
| `Improvement!OneHeartbeat` | the lease excludes a second heartbeat (`rubric.md:242`): a run that outlives it overlaps the thief (`continuous_improvement.py:1810`) |
| `Deliverables!WithinQuota` | the copied size is "the number we record and bill" (`artifacts.py:338`): it is billed, but the record keeps the size taken before the copy (`artifacts.py:321-345`), so the next collection starts from too small a total |
| `Deliverables!KeptAfterArchive` | files are dropped 30 days after the archiving (`docs/reference.md:1276`): the age is that of the newest file (`artifacts.py:374-421`) |

Limits the models reach without a property about them:

* A failed setup leaves its lines in `.git/info/exclude` of a repository it adopted
  (`projects.py:1061`, 703-774; the rollback, 1117-1153, does not know of them), the
  file a copy broke off in, which is recorded only after the copy (558-559), files
  that cannot be removed (879-884) and, when Git refuses to unstage, the entries
  staged (1125-1139). `ProjectSetup!RollbackLeavesNothing`, which is violated, denies
  all four; `RollbackIsExact` says that nothing else stays and nothing is taken.
* A creation of an agent's process that is cut off by a cancel kills the leader and
  not what it has forked; `StopHolds` excludes such processes (`cut`).
* `RunningWithinCap` fails when the tracker write of a reopen hold fails, because
  the ticket is then dispatched without a second look at the slots
  (`blocked_recovery.py:1347`); the worlds of `workers` leave the hold out.
* A retry popped for its fetch and overtaken by the tick returns with its old
  attempt number, and when it then releases the ticket it drops a pause set
  meanwhile (`docs/reference.md:220`, `retry_reconcile.py:546-568`); for
  `HoldSurvives` that release lifts the hold. A continuation's attempt 1 makes the first later
  failure attempt 2.
* A failing `list_issue_flags` at start-up loses the holds (it fails open), and
  `budget_exhausted` is never cleared although `worker_exit.py:720-722` speaks of
  a restart.
* A proposal that outlived the deadline of the request that was cut off, and whose
  last stop was not confirmed, leaves its failed result in the client; every later
  cancel raises it again before it stops anything
  (`pm/planning.py:291-311`), although `pm/routes.py` has a successful retry
  supersede an earlier clean-up error. `AgentsAccounted` holds: nothing else is started.
* The fence an unconfirmed clean-up leaves behind lapses with its TTL.
* A re-approved, unchanged task cannot be handed off again; `complete_run` with a
  permit that is not running leaves the run's row active until its TTL;
  `handoff.reconcile` and `PmAuthority.revoke` have no caller.

### Fairness

`RunLeases!Fairness`: a live instance keeps ticking, so heartbeats and reclaim
passes recur; asyncio serves its ready queue in order, so a ready callback is
not starved by the pairs of transactions it waits between (strong fairness of
`ReclaimSeeingAll`, `ReapFinalize`, `EjectFinish`, `HeartbeatEntry`); leases run
out; and a SIGKILL that every pass repeats is confirmed in the end
(`ReapConfirmed`). The reclaim pass promised is the one to which every dead
owner's pid looks alive, so that it claims lapsed leases only: nothing is assumed
of the pid probe, nor of agents, crashes, shutdown or dispatch.

`Dispatch!Fairness`: ticks, timers, exit handlers and escalations run when they
can; `agent.turn_timeout_ms` ends every worker nobody paused; the tracker does
not fail every fetch; an eligible ticket is not parked, held or refused its lease
for ever; leases nobody renews lapse. How workers end, what operators do and
which other calls fail is unconstrained.

`MCEventually!FairSpec`: a writer's steps are strongly fair, because a `flock`
that is released again and again is granted in turn; so are the steps of an
archive request, because a request that was refused or interrupted is repeated;
the tick of blocked recovery and the opening of a fix ticket are weakly fair.
Crashes, edits and failures are not forced, and are bounded.

## 4. Proofs

Every theorem holds for any number of instances, tickets, pids, rows, tasks,
slots, targets and generations, and for any value of the bounds: the bounds only
stop a behaviour early. The assumptions are those the components name
(`RegistryAssumption`, `LeaseAssumption`, `DispatchAssumption`,
`ReleaseAssumption`, `TokenAssumption`, `PmAssumption`, `PlanningAssumption`,
`MigrationsAssumption`, `AttemptAssumption`, `ContractAssumption`,
`ChatAssumption`, `DeliveryAssumption`, `ServiceAssumption`, `SetupAssumption`,
`ImprovementAssumption`, `AgentAssumption`, `FixesAssumption`,
`BoardAssumption`, `DamageAssumption`):
null values lie outside the sets they extend, bounds
are natural numbers, process numbers and the numbers of fix tickets are positive, a
token cap is positive (0 switches it off in the code), writers and hands are apart,
the tickets of `Dispatch` and the checks of a release are finitely many. Each inductive invariant was an
invariant of a TLC run of its component before it was proved.

**Run leases.** `RunLeasesProofs!TypeCorrect` is `Spec => []TypeOK`: the
registry's operators map tables to tables, then every action keeps the types.

`RegistryStep` classifies every step of the system by its
effect on the table: each row changes within `RowStep` (issue and predecessor
fixed, ended stays ended, turns grow and only while active), and at most one row
is inserted, fresh or continuing an eligible source. `RowsAllocated` proves that
rows above `nruns` are free and that no run id an instance remembers is above it;
without it a remembered id could name a row inserted later.

* `EndedStaysEnded`: `Spec => NoRevival`.
* `ContinuationInvariant`, the inductive invariant of continuations: a row with a
  predecessor has an ended one of the same ticket, the newest before it, whose
  turn it has reached. None of the three properties is inductive alone: that
  nobody continues a row twice needs that its first successor is a newer row of
  the ticket, and that no turn is lost needs that the predecessor is no longer
  active. `CheckpointConsumedOnce`, `ContinuationIsNewest` and `NoTurnIsLost` are
  its consequences.
* `RegistryImplementsHistory`: a step that keeps every row within `RowStep` is a
  step of `RunHistory` in which entries go on, the insertion of a row is the
  appending of an entry, and everything else a stutter; the proof needs
  `RowsAllocated`, so that the row appended is the next entry of the log.

The inductive invariant `Fingerprints` says of every place that
remembers a process (a row, an entry, a queued kill, a confirmed one) that the
process was spawned: its incarnation is not above the pid's present one. That
makes "dead" stable, because a pid's incarnations only grow.

* `ReapedBackendIsGone`: from the confirmed kill to the release of the row the
  backend stays dead.
* `SnapshotsAgree` and `ReleasedFenceIsSafe`: what a reclaim pass remembers of a
  row is still what the row says when it is released, because a row that is being
  reclaimed accepts no pid; so the backend the row names, and not only the one
  that was killed, is gone.
* `NoStrangerIsKilled`: `[]NoForeignKill`, under the hypothesis
  `CrashContinuation \/ ~Faults`. With crash continuation switched off, a
  registry that raises lets a worker run without a lease, and a force-eject of
  that worker kills by pid alone; with it on (the default) such a dispatch is
  refused, which is the auxiliary invariant `Leased`.
* `ReleaseWorkerKeepsRun`: the action property `ReleaseRunStartsWithWorker`.

**Dispatch.** `DispatchProofs!DispatchStateIsSound` proves `Sound`: types, that
tasks and ejects have tickets, and that escalations stay within their bound.

* `CapHolds`: `[](HoldsSettle => RunningWithinCap)`. Every start looks at the
  slots in the step that fills one, except after a reopen hold, whose look is
  stale when its tracker write fails (the limit named in section 3); `HoldsSettle`
  says that reopens and failing tracker calls are not both enabled.
* `OneWorkerPerTicket`: `[](HoldsSettle /\ NoEjects => OneOwner)`. The invariant
  `Ownership` ties three tables: a running entry has the task that runs it, a task
  in its exit handler is the one in `_pending`, and no ticket has both. `NoEjects`
  excludes the force-eject of a stalled worker, which gives the ticket back while
  the worker may live on: with it a ticket can have two (see `LiveWorkerKept` in
  section 3). The worlds of `workers` leave the same two events out.

**Agents of one turn.** `DispatchProofs!AgentsAreSound` proves `AgentInv`, for any
number of processes, faults, stops and cancellations, and from it `StopsHold` the
invariants `StopHolds` and `NoForgottenAgent`. `Held` says that a live group is the
one the backend holds or the one that is being created, and that a prompted one that
is neither has been reaped; `Launching` that while one is being created the backend
holds none; `Ladders` that a caller's verdict "gone" is about the process the backend still
holds, because nothing is spawned while either caller takes a group down; `Stopped`
that what `stop()` leaves behind is a process launched beside it, which no turn
drives, and which has no prompt unless that is on its command line. Without `Ladders` the verdict of one caller
could be about a process the other has replaced.

**Long-lived agents.** `DispatchProofs!RpcIsSound` proves `RpcInv`, and from it
`TurnsAreOwn` the invariant `TurnIsOwn`, for any number of turns, relaunches, lost
agents and unreadable lines. With ACP the argument is the order of the exchange
(`Exchange`): a client has one request under way, what the agent owes is its answer,
every update on the wire is of it, and nothing but unreadable lines follows the
answer. Codex answers at once and notifies later (`Notice`): the notification owed,
or on the wire, is of the turn whose waiter is armed. A request that is given up
breaks both, since its answer may still come, and `late` says so until a relaunch
starts from an empty stream; Codex is not relaunched, so there the claim ends with
the first turn that is given up.

**Release.** `ReleaseProofs!EvidenceIsKept` proves `IInv`: the registry's rows
rest on evidence (an approved generation has a green report of the bound run, and
a completion has an approval), the board's tickets are those the gate names, and
what a task read before an await is either still so or will be refused by the
transaction's own check. From it `ApprovalsAreEarned` and `CompletionsAreEarned`,
and `ReleaseImplementsCycle`: the initial states map to initial states of
`ReleaseCycle`, and every registry transaction is one of its steps, every other
step a stutter.

**Improvement heartbeats.** `ReleaseProofs!HeartbeatsAreSound` proves
`HeartbeatInv`, for any number of orchestrators, turns, cut-offs and incidents.
`TreesSound` says of every point of a run that a worktree is in use there, will be
removed on the way out or is orphaned already: from the checks on a cut-off goes
through the clean-up, while the baseline is being proved it does not.
`ReportsSound` ties the runs under way to those that hold a lease and says, as long
as there was one at a time, that what a run is about to report is not on the board;
`NotReportedTwice` alone does not say why the board cannot change between the look
and the filing. `TurnsSound` says that a run was scheduled below the cap, also when
a reset overtook it. `WorktreesAreRemoved` is `WorktreeRemoved`, `ReportsAreSingle`
the other two.

**Issue flags.** `TicketProofs!HoldsAreOnRecord` proves `FlagsSound`: a hold
that is on record is in the table, and in memory once the registry is open.
`HoldsAreKept` is the action property `HoldSurvives`. `RetryCapHolds` proves
`[]RetriesStayCapped` for a positive cap (0 means no cap in the code) from the
invariant `Counted`, which bounds the attempt of a worker, of a waiting retry and
of a popped one together.

**Attempt and gates.** `TicketProofs!AttemptIsSound` proves `AttemptInv`, and from
it `GatesAreRun` the invariant `GatesRun`, for any number of lanes and any set of
gated ones. `GatesRun` alone says nothing of a card that is not merged yet.
`AttemptInv` says where the gates it owes will be asked for: while a worker runs, no
owed lane lies before the lane its turn started in (`OwedFrom`); once it has
gone, an owed lane the card has passed is on record (`Kept`), where a start-up or
the next worker finds it; a gate that passed left nothing owed before its card
(`Clear`); and a card that is about to be shipped as done owes nothing. That needs
what the awaits leave true of each other (`Trip`): which lane the worker, its entry
and the card have in each step of the loop, and how far the tick's evaluation of the
same ticket can be meanwhile. `Trip` and `Debts` are claimed of attempts without an
excused window only; the windows, the failed refresh of a moved card among them, are
part of `GatesRun` and say so.

**Blocked tickets.** `TicketProofs!RecoveryIsSound` proves `FixInv`, and from it
`FixIsSingle` the invariant `OneOpenFix`, for any number of fix tickets, edits,
refused writes and ends of the service. `OneOpenFix` does not say why the tick and an
operator's request cannot each find no fix ticket and make one. `OneCaller` does: a
caller past the lock is the one that holds it, and one about to create has scanned
the board under the lock and found none that was not finished. That is still so
when it creates, because nobody else makes tickets and nothing takes a finished one
out of `finished`, not even a proven fix ticket that the sweep takes back from Done.
`Listed` says that what the tick works through has been on the board, so that its
moves make no ticket.

**Ticket files.** `TicketProofs!BoardIsSound` proves `BoardInv`, and from it
`SavesKeepEdits` the action property `SavesUndoNothing`, for any number of tickets,
writers, operations, rounds, direct edits and deaths of a writer. The property is about
the step that writes; the invariant says of each earlier point of an operation what it
has in hand (`InHand`). Tracker writes need only the lock: from the lock to the rename
no other writer touches the file, so the draft has them all. A direct edit takes no
lock. `Follows` says that the file's stamp is not before the parsed one, and that
where the two are equal the file has no stamped edit the parse did not show, so that
a comparison that finds the same stamp may save its draft, and one that does not
applies the change again to the text just read. An edit between the comparison and the
rename is lost, in the code as in the model; `StampedEditsKept` speaks of edits the
tracker has read. The body of a ticket is excepted while an update with a description
writes it, and only then: that update keeps every other field.

**Delivery.** `WorkProofs!DeliveryIsSound` proves `DeliveryInv`, and from it
`NoWorkIsLost` the invariant `WorkIsKept` and `DoneIsDelivered` the invariant
`DoneIsMerged`, for any number of tickets, paths, edits, commits and failures.
Neither says why a three-way merge drops nothing. The invariant does, version by
version: where the last version an agent wrote of a path is below a branch at all,
the tip has it or the target's history does (`TipHas`); the same holds of the fork
point and of the worktree (`TreeHas`). So when the merge takes the target's side of
a path, because the branch has not changed it since the merge base, the base has
the version too and it is delivered already. That no other ticket brings an older
version back needs `Apart`: what one ticket's branch or worktree has of another's
versions has come from the target. `Preserved` says where the last version is at
each stage of a run when workspaces are preserved and snapshots taken, and `Merges`
that a script which reached the push, and a Done card about to lose its workspace,
is delivered. A cancelled agent that is still live disturbs both: of a path it has
written since the snapshot `Preserved` keeps the version before (`kept`), and
`Merges` and the claim of `Locks` that the merge under way is of the branch end with
a commit made after the script read the branch (`stray`). `Stages` (with `CardFits`)
and `Locks` tie the stages of card, script and index lock together. The
merge base exists and is below both sides because ancestor sets are closed and
finite (`LogTyped`).

**Token budget.** `WorkProofs!CapIsNoticed` proves that an entry charges its
phase at least the last absolute report it took and at least what the backend of
the phase has used, so that the report that reaches the cap is noticed, and that
a cancelled entry means a killed worker until the worker leaves its loop. The
property alone is not inductive: a late report of an evicted worker's backend
raises `reported`, so that the worker's own next report may add nothing, and only
`phase >= reported` shows that the phase has been charged for it already.
`SpentBackendsStop` is the action property `BudgetHolds`.

**Validation of a release.** `DocsTyped` says what kind of files any number of
defects leaves (lists of lines about the checks, which may repeat, drop or
contradict them); the rest is about one such state. `NoErrorMeans` takes the
verdict apart, `ListsAgree` is its core: without evidence errors no id occurs
twice in either list (`FirstIs`: the line the code looks up is the line there
is), both lists cover exactly the checks, agree on each and the exit code agrees
with them. `GreenIsGreen` (`GreenMeansGreen`) and `RepairsFollowRed`
(`RepairsAreReal`) follow, the second from the assumption that a check's id is
not one of the other kinds of failure.

**Stored files.** `FilesAreKept` is the action property `LiveTicketKeepsFiles`. Its
invariant `SweepSound` says what a tick remembers between its reads of the board: a
ticket it would not retain was seen archived or gone, unless the board listed
nothing, and then `NothingKnown` ends the tick before the sweep.

**Planning authority.** `PmAuthorityProofs!AuthorityInvariant` has four parts
besides the two properties. `Guarded`: from its check to the publication of its
process an attempt has the lock of the change, which every writer of the plan,
the approvals, the handoffs, the revocations and the acceptances takes, external
editors excepted. `Permitted`: a revoked ticket has no active permit; this is what
keeps a handoff published after the revocation from bringing the ticket back.
`Receipted`: an acceptance keeps the receipts it was given for, so that a ticket
that reads as not accepted is not. `Leased`: an attempt that has not ended holds
the run row of its ticket, which an acceptance requires gone.
`LaunchesAreAuthorised` and `AcceptedStaysQuiet` follow.

**Planning documents.** `PmAuthorityProofs!DocumentsStayWhole` proves `DocsInv`:
there is one journal at a time and the writer at work wrote it (`Journals`); what a
journal holds is whole, that is, its tasks are the active ids of its ledger and
every id that was in the plan is active or retired; and the files are the old
change, the new one, or what the program point of the writer or of the recovery
says they are. The interesting case is a crash in the recovery itself: the next
one goes by the stage files that are left (one document; a stage that is gone has
reached its file) or writes everything again (several). All of it is claimed of a
trusted claim, one that no editor writes to and nobody had to repair, as
`NeverTorn` is. `PlanIsNeverTorn` is `NeverTorn`.

**Planning operations.** `ClientProofs!PlanningIsSound` proves an invariant in
three parts. `OpSound` relates a client to its request: a live agent the client
does not hold is being launched; a task that runs without its request has been
cancelled, so that it launches nothing; an agent whose request has returned has
left an error in its active entry. `ReqSound` says what a cancel may rely on when
it continues after an await: a cancelled client, or a row that is over and a task
that has ended. `LockSound` ties the clean-up lock to the cancel that holds it.
The property alone is not inductive: an entry's error is forgotten when a later
cancel stops the client, and only `LockSound` shows that no launch is under way
beside that stop. Every action keeps the invariant through `OpStep`, which says
what a step about one operation has to give. `AgentsStayAccounted` is the action
property `AgentsAccounted`.

**Chat sessions.** `ChatIsSound` proves an invariant whose parts say who has a
session in hand (`Owned`, `Held`: the lifecycle lock and the requests agree),
what turns wait for it (`LastInLine`), and of which mode agent, session and turns
are (`AgentMode`, `TurnMode`, `Runs`, `Switching`). The heart is `LastInLine`: a
mode change checks the turn lock, which a waiting turn does not have, and the last
turn task, although several turns may wait; it is enough because turns get the
lock in the order they came, so that the last one waits as long as any does. It
fails of a session that is being stopped, whose last task is cancelled and
forgotten while earlier ones still wait; there the lifecycle lock keeps mode
changes out. `TurnsRunInMode` (`TurnRunsInMode`) and `StoppedStaysQuiet`
(`StoppedIsQuiet`) follow.

**Service.** `ServiceIsSound` proves `ServiceInv`, for any commands, pids and
kills. `OneByOne` says, of commands that do not overlap and are not killed, which
may hold an orchestrator the record does not name: the one that waits for it to be
stable or saves the record (which may fail, and then stops it). `Stops` says that
what a command stopped stays stopped, from the kill to the cleared record, however
the other commands go: a pid is started once. `ServiceStaysManaged` is the
invariant `ServiceIsManaged`, `StopsAreComplete` the invariant `StopIsComplete`.

**Project setups.** `SetupIsSound` proves `SetupInv`. `Made` says at every step of
a setup what it has made of its target since it looked: the root or the repository
only if its record says so, the files on its list or left over and no other, nothing
of the index beyond its list, and no exclude taken away, whatever is there of the
operator. An operator's own
repository can appear beside it only while none has the transaction, which is why
the snapshot is still good at the undo. `RollbacksAreExact` (`RollbackIsExact`) and
`OperatorFilesAreKept` (`OperatorFilesStay`) are action properties that follow from
it.

**Chat cards.** `CardsAreSound` proves `CardsInv`: `IntentsSound` owes all tickets
of an intent but one to artifacts that were not written, and the last to an
approval that goes on or ended well (`Filing`), and keeps one intent pending;
`NumbersSound` says that a number selects a pending setup of the current window and
no two setups share one; `StopSound` that a stop waits for every setup that ran
when it began. A card that is being filed is running, so that expiry, supersession
and eviction, which every proposal goes through, pass it over. `ApprovalsShare` is
`ApprovalsShareFiling`; `RepliesAreCurrent` (`LatestDraft`, `NumberIsCurrent`) and
`SetupsSurviveStops` (`SetupSurvivesStop`) follow too.

**Migrations.** `MigrationsProofs!UpgradeIsSound` proves `IInv`. A starter between
its plan and its commit has a next migration at most one past the version in the
database, because versions only grow, so what it applies under the lock is what is
due: `NothingHalfMigrated`. Evidence of version 6 exists only at the latest
version, where nothing is left to apply: `NewApprovalsStay`, the invariant
`NewApprovalStays`. Before that version a gate changes only by being withdrawn, so
the gate a slow starter withdraws is the one its backup copied (`Copied`):
`WithdrawnIsCopied`.

Only model-checked, and why:

* everything about liveness (`progress`, `served`, `eventually`): the prover does
  not treat fairness. Every safety invariant and action property of the passing runs
  is stated by a theorem, some under the hypotheses named above (`CapHolds`,
  `OneWorkerPerTicket`, `NoStrangerIsKilled`);
* the properties that only the modules state, but for those marked as proved in
  section 2.

## 5. Plan

1. The composition of `Dispatch` with `RunHistory` in place of its `lease`.
2. The dependency scheduler's cycles and critical path against reference
   definitions on all small graphs.
3. The release seam of dispatch (`release_seam.py:192-319`), the archive sweep of
   terminal tickets, and the atomic edit of `WORKFLOW.md`.
4. Proofs of what only the modules state, such as `RescuedOnce` (BlockedRecovery),
   `TokensAddUp` (TokenAccounting) and `PublishedIsWhole` (PmAuthority).

## 6. Not modelled

* Dependency scheduler: a recursive graph algorithm whose result is an order of
  candidates, which `Dispatch` leaves open.
* Text and parsing: prompts, stage contracts' evidence, workflow configuration,
  templates and wiki sweep, i18n. Where a verdict matters it is an outcome.
* Presentation and I/O without protocol state of their own: web API and server,
  PM routes, CLI and doctor, TUI, hub pages, notifications, statistics, the tracker
  bridge and the HTTP clients of remote trackers.
* `release_seam.py:192-319`, PM exchange files and the work-breakdown editor, the
  archive sweep, Windows job objects: state machines of their own, not yet
  written.

`PROJECT.json` gives the reason for each component.
