------------------------------ MODULE Delivery ------------------------------
(***************************************************************************)
(* How the work of a ticket gets from its workspace into the target branch *)
(* of the host repository: creation and reuse of the ticket's Git worktree *)
(* (workspace.py and the setup hook that ships with it), the snapshot      *)
(* commit at the end of a run (commit_workspace_on_done), the history gate,*)
(* the merge script (utils/auto_merge.py), removal of the workspace, and   *)
(* the clean-up of finished tickets at start-up.                           *)
(*                                                                         *)
(* Git is modelled by what the code relies on.  A commit has a tree (the   *)
(* version of every path) and its set of ancestors; commits are numbered   *)
(* in the order in which they are made.  Every edit writes a new version,  *)
(* so "this edit is still somewhere" can be asked of any state.  The host  *)
(* checkout has a working tree and an index besides its HEAD, which is the *)
(* target branch; an operator edits, stages and commits there at any time. *)
(***************************************************************************)
EXTENDS Integers, Sequences, FiniteSets, FiniteSetsExt

CONSTANTS
  Tickets,        \* tickets, each with its branch symphony/<ID> and worktree
  Paths,          \* tracked paths of the repository
  Excluded,       \* paths kept out of the snapshot and refused by the merge
  Policies,       \* settings to consider: [reuse : {"preserve", "refresh"}, commit : BOOLEAN],
                  \* workspace.reuse_policy and agent.auto_commit_on_done
  PushTarget,     \* agent.auto_merge_push_target
  MaxEdits,       \* bound: versions written by agents and by the operator
  MaxCommits,     \* bound: commits in the repository
  MaxFailures     \* bound: failing commands, killed scripts and restarts

\* The lock's other states are no tickets.
ASSUME DeliveryAssumption == /\ Tickets \cap {"free", "dead"} = {}
                             /\ MaxEdits \in Nat /\ MaxCommits \in Nat /\ MaxFailures \in Nat

VARIABLES
  log,      \* the commits: a sequence of [tree, anc]
  target,   \* tip of the target branch, checked out in the host
  branch,   \* tip of each ticket's branch, 0 when it does not exist
  host,     \* the host checkout: working tree and index
  mergeHead,\* MERGE_HEAD of the host: 0 none, -1 the operator's merge, a commit
  lock,     \* holder of .git/index.lock: a ticket's script, "dead" or "free"
  ws,       \* each ticket's workspace directory
  tk,       \* each ticket: board state, paused flag, stage of its run, and of an
            \* agent that reconcile has cancelled: whether it is still live, the
            \* paths it wrote since reconcile's snapshot and did not commit, the
            \* versions it had written of them before, and whether it committed
            \* after the merge script had read its branch
  sc,       \* each ticket's merge script
  policy,   \* the settings
  wrote,    \* per ticket and path: the last version its agent wrote, 0 if none
  opWrote,  \* per path: the last version the operator wrote in the host
  opStaged, \* per path: the last version the operator staged and not committed
  opMerging,\* the operator has a merge of their own under way in the host
  edits,    \* versions used so far
  failures  \* failures so far

deliveryVars ==
  <<log, target, branch, host, mergeHead, lock, ws, tk, sc, policy,
    wrote, opWrote, opStaged, opMerging, edits, failures>>
git == <<log, target, branch>>
seen == <<opWrote, opStaged, opMerging>>
ops == <<host, mergeHead, seen>>

Blank == [p \in Paths |-> 0]
NoWorkspace == [there |-> FALSE, tree |-> Blank, base |-> 0]
NoScript == [pc |-> "off", by |-> "exit", old |-> 0, snap |-> Blank,
             mine |-> {}, tree |-> Blank]
-----------------------------------------------------------------------------
(* Git.                                                                    *)

Tree(c) == log[c].tree
Anc(c) == log[c].anc
MergeBase(a, b) == Max(Anc(a) \cap Anc(b))
Commit(tree, parents) ==
  Append(log, [tree |-> tree, anc |-> {Len(log) + 1} \cup UNION {Anc(c) : c \in parents}])
NextCommit == Len(log) + 1
Room == Len(log) < MaxCommits

\* Three-way merge of two commits, path by path.
Theirs(a, b, p) == Tree(b)[p] # Tree(MergeBase(a, b))[p]
Ours(a, b, p) == Tree(a)[p] # Tree(MergeBase(a, b))[p]
Conflict(a, b) ==
  \E p \in Paths : Theirs(a, b, p) /\ Ours(a, b, p) /\ Tree(a)[p] # Tree(b)[p]
Merged(a, b) == [p \in Paths |-> IF Theirs(a, b, p) THEN Tree(b)[p] ELSE Tree(a)[p]]
Differ(a, b) == {p \in Paths : Tree(a)[p] # Tree(b)[p]}

Reachable(tips) == UNION {Anc(c) : c \in tips \ {0}}
Reaches(v, p, tips) == v = 0 \/ \E c \in Reachable(tips) : Tree(c)[p] = v
Clean(t) == ws[t].tree = Tree(branch[t])
-----------------------------------------------------------------------------
InitDelivery ==
  /\ log = <<[tree |-> Blank, anc |-> {1}]>>
  /\ target = 1
  /\ branch = [t \in Tickets |-> 0]
  /\ host = [tree |-> Blank, index |-> Blank]
  /\ mergeHead = 0 /\ lock = "free"
  /\ ws = [t \in Tickets |-> NoWorkspace]
  /\ tk = [t \in Tickets |-> [state |-> "Todo", paused |-> FALSE, at |-> "idle",
                              plan |-> 0, live |-> FALSE, late |-> {}, kept |-> Blank,
                              stray |-> FALSE]]
  /\ sc = [t \in Tickets |-> NoScript]
  /\ policy \in Policies
  /\ wrote = [t \in Tickets |-> Blank]
  /\ opWrote = Blank /\ opStaged = Blank /\ opMerging = FALSE
  /\ edits = 0 /\ failures = 0

At(t, stage) == tk' = [tk EXCEPT ![t].at = stage]
Faulty == failures < MaxFailures /\ failures' = failures + 1
-----------------------------------------------------------------------------
(* The workspace of a dispatched ticket.                                   *)

\* _symphony_refresh_merged_branch: a branch the target contains already is
\* moved up to the target, with update-ref's expected old value.
RefreshedBranch(t) ==
  IF branch[t] # 0 /\ branch[t] \in Anc(target) THEN target ELSE branch[t]

\* git worktree add: on the branch, or on a new one forked from the target;
\* the fork point is recorded as symphony.basesha.
Attach(t) ==
  LET tip == IF RefreshedBranch(t) = 0 THEN target ELSE RefreshedBranch(t)
  IN  /\ branch' = [branch EXCEPT ![t] = tip]
      /\ ws' = [ws EXCEPT ![t] = [there |-> TRUE, tree |-> Tree(tip), base |-> tip]]

Dispatchable(t) ==
  /\ tk[t].state = "Todo" /\ ~tk[t].paused /\ tk[t].at = "idle" /\ ~tk[t].live
  /\ sc[t].pc = "off"

\* A new run starts from what the workspace holds.
BeginRun(t, stage, plan) ==
  tk' = [tk EXCEPT ![t].at = stage, ![t].plan = plan, ![t].late = {}, ![t].stray = FALSE]

\* create_or_reuse on a missing directory: the after_create hook attaches it.
CreateWorkspace(t) ==
  /\ Dispatchable(t) /\ ~ws[t].there
  /\ Attach(t) /\ BeginRun(t, "running", tk[t].plan)
  /\ UNCHANGED <<log, target, lock, sc, policy, wrote, ops, edits, failures>>

\* A failing after_create hook: the directory just made is removed again and
\* the attempt fails.
CreateFails(t) ==
  /\ Dispatchable(t) /\ ~ws[t].there /\ Faulty
  /\ UNCHANGED <<git, lock, ws, tk, sc, policy, wrote, ops, edits>>

\* Reuse with policy "refresh" runs after_create again: prepare_setup removes
\* the registered worktree with --force and the hook attaches a new one.
RefreshWorkspace(t) ==
  /\ Dispatchable(t) /\ ws[t].there /\ policy.reuse = "refresh"
  /\ Attach(t) /\ BeginRun(t, "running", tk[t].plan)
  /\ UNCHANGED <<log, target, lock, sc, policy, wrote, ops, edits, failures>>

\* Mutant: the plan does not ask for a clean worktree.
MutantRefreshPlan(t) ==
  IF branch[t] # target /\ branch[t] \in Anc(target) THEN target ELSE 0

\* _linked_worktree_refresh_plan: only a clean worktree whose branch the target
\* already contains, and is behind it, is brought forward.  0: leave it alone.
RefreshPlan(t) ==
  IF Clean(t) /\ branch[t] # target /\ branch[t] \in Anc(target) THEN target ELSE 0

\* Reuse with policy "preserve": capture the plan ...
ReuseWorkspace(t) ==
  /\ Dispatchable(t) /\ ws[t].there /\ policy.reuse = "preserve"
  /\ BeginRun(t, IF RefreshPlan(t) = 0 THEN "running" ELSE "planned", RefreshPlan(t))
  /\ UNCHANGED <<git, lock, ws, sc, policy, wrote, ops, edits, failures>>

\* ... capture it again and require the same ...
ConfirmPlan(t) ==
  /\ tk[t].at = "planned"
  /\ At(t, IF RefreshPlan(t) = tk[t].plan THEN "confirmed" ELSE "running")
  /\ UNCHANGED <<git, lock, ws, sc, policy, wrote, ops, edits, failures>>

\* ... and fast-forward to the captured commit, whatever the target is by now,
\* and record it as the fork point.
FastForward(t) ==
  /\ tk[t].at = "confirmed"
  /\ branch[t] \in Anc(tk[t].plan)
  /\ branch' = [branch EXCEPT ![t] = tk[t].plan]
  /\ ws' = [ws EXCEPT ![t].tree = Tree(tk[t].plan), ![t].base = tk[t].plan]
  /\ At(t, "running")
  /\ UNCHANGED <<log, target, lock, sc, policy, wrote, ops, edits, failures>>

\* A fast-forward that cannot complete refuses the dispatch: before the branch
\* has moved, or after it with the fork point not yet recorded.
FastForwardFails(t) ==
  /\ tk[t].at = "confirmed" /\ Faulty
  /\ \/ UNCHANGED <<branch, ws>>
     \/ /\ branch[t] \in Anc(tk[t].plan)
        /\ branch' = [branch EXCEPT ![t] = tk[t].plan]
        /\ ws' = [ws EXCEPT ![t].tree = Tree(tk[t].plan)]
  /\ At(t, "idle")
  /\ UNCHANGED <<log, target, lock, sc, policy, wrote, ops, edits>>
-----------------------------------------------------------------------------
(* The agent.  Reconcile does not wait for the worker it cancels: until the *)
(* agent is stopped and the after_run hook is over, both go on in the       *)
(* workspace.                                                               *)

Writes(t) == tk[t].at = "running" \/ (tk[t].live /\ ws[t].there)

AgentEdit(t, p) ==
  /\ Writes(t) /\ edits < MaxEdits
  /\ edits' = edits + 1
  /\ ws' = [ws EXCEPT ![t].tree[p] = edits + 1]
  /\ wrote' = [wrote EXCEPT ![t][p] = edits + 1]
  /\ tk' = IF tk[t].at \in {"merge", "remove"} /\ p \notin tk[t].late
           THEN [tk EXCEPT ![t].late = @ \cup {p}, ![t].kept[p] = wrote[t][p]] ELSE tk
  /\ UNCHANGED <<git, lock, sc, policy, ops, failures>>

\* The merge script reads the branch for the last time when it merges.
BeforeMerge(t) == sc[t].pc \in {"preflight", "capture", "lock", "apply"}

\* A commit of the turn's work, by the agent or by the after_run hook.
AgentCommit(t) ==
  /\ Writes(t) /\ ~Clean(t) /\ Room
  /\ log' = Commit(ws[t].tree, {branch[t]})
  /\ branch' = [branch EXCEPT ![t] = NextCommit]
  /\ tk' = IF tk[t].live
           THEN [tk EXCEPT ![t].late = {}, ![t].stray = @ \/ ~BeforeMerge(t)] ELSE tk
  /\ UNCHANGED <<target, lock, ws, sc, policy, wrote, ops, edits, failures>>

\* client.stop and the after_run hook of the cancelled worker are over; its exit
\* handler waits for the clean-up and does nothing about the workspace.
AgentStops(t) ==
  /\ tk[t].live
  /\ tk' = [tk EXCEPT ![t].live = FALSE]
  /\ UNCHANGED <<git, lock, ws, sc, policy, wrote, ops, edits, failures>>

\* A turn that fails: _handle_worker_error schedules a retry, and neither
\* snapshots nor removes the workspace.
WorkerError(t) ==
  /\ tk[t].at = "running" /\ Faulty
  /\ At(t, "idle")
  /\ UNCHANGED <<git, lock, ws, sc, policy, wrote, ops, edits>>

-----------------------------------------------------------------------------
(* commit_workspace_on_done: one commit per ticket, squashed onto the fork  *)
(* point, or onto the merge base once the branch has been merged.          *)

SquashBase(t) ==
  LET mb == MergeBase(branch[t], target)
  IN  IF mb # ws[t].base /\ ws[t].base \in Anc(mb) THEN mb ELSE ws[t].base
SquashOnto(t) == IF branch[t] # SquashBase(t) THEN SquashBase(t) ELSE branch[t]
SnapshotTree(t) ==
  [p \in Paths |-> IF p \in Excluded THEN Tree(SquashOnto(t))[p] ELSE ws[t].tree[p]]
NothingToCommit(t) == SnapshotTree(t) = Tree(SquashOnto(t))

MakeSnapshot(t) ==
  IF NothingToCommit(t)
  THEN branch' = [branch EXCEPT ![t] = SquashOnto(t)] /\ UNCHANGED log
  ELSE /\ Room
       /\ log' = Commit(SnapshotTree(t), {SquashOnto(t)})
       /\ branch' = [branch EXCEPT ![t] = NextCommit]

\* agent.auto_commit_on_done.
Snapshot(t) == IF policy.commit THEN MakeSnapshot(t) ELSE UNCHANGED <<log, branch>>

\* A clean end of the run, with the board state the agent left the card in.  A
\* durable snapshot takes a Done card to the history gate, another terminal one
\* to removal, and an active one to its continuation.
AfterSnapshot(state) ==
  CASE state = "Done"      -> "history"
    [] state = "Cancelled" -> "remove"
    [] OTHER               -> "idle"

WorkerExit(t, state) ==
  /\ tk[t].at = "running"
  /\ Snapshot(t)
  /\ tk' = [tk EXCEPT ![t].at = AfterSnapshot(state), ![t].state = state]
  /\ UNCHANGED <<target, lock, ws, sc, policy, wrote, ops, edits, failures>>

\* Reconcile finds the card of a running worker Done, or in a state that is not
\* active: it cancels the worker and, without waiting for it, snapshots the
\* workspace and goes on to the merge gate or to the removal.
Reconcile(t, state) ==
  /\ tk[t].at = "running"
  /\ Snapshot(t)
  /\ tk' = [tk EXCEPT ![t].at = IF state = "Done" THEN "merge" ELSE "remove",
                      ![t].state = state, ![t].live = TRUE]
  /\ sc' = IF state = "Done" THEN [sc EXCEPT ![t] = [NoScript EXCEPT !.pc = "preflight"]] ELSE sc
  /\ UNCHANGED <<target, lock, ws, policy, wrote, ops, edits, failures>>

\* _preserve_history_failure: pause the ticket, move the card to Blocked, keep
\* the workspace.  The script may have failed before or after its reset --soft;
\* reconcile's worker may still be live.
SnapshotFails(t) ==
  /\ tk[t].at \in {"running", "reap"} /\ policy.commit /\ Faulty
  /\ branch' \in {branch, [branch EXCEPT ![t] = SquashOnto(t)]}
  /\ \E live \in {FALSE, tk[t].at = "running"} :
       tk' = [tk EXCEPT ![t].at = "idle", ![t].state = "Blocked", ![t].paused = TRUE,
                        ![t].live = live]
  /\ UNCHANGED <<log, target, lock, ws, sc, policy, wrote, ops, edits>>

\* finalize_delivery_history after its commit: without an upstream the local
\* commit is the whole record.  The merge gate follows.
HistoryRecorded(t) ==
  /\ tk[t].at = "history" /\ sc[t].pc = "off"
  /\ At(t, "merge")
  /\ sc' = [sc EXCEPT ![t] = [NoScript EXCEPT !.pc = "preflight"]]
  /\ UNCHANGED <<git, lock, ws, policy, wrote, ops, edits, failures>>

\* A push that cannot be verified takes the card to Human Review and keeps the
\* workspace (_flag_unpublished_history).
HistoryUnpublished(t) ==
  /\ tk[t].at = "history" /\ PushTarget /\ policy.commit /\ Faulty
  /\ tk' = [tk EXCEPT ![t].at = "idle", ![t].state = "Human Review"]
  /\ UNCHANGED <<git, lock, ws, sc, policy, wrote, ops, edits>>
-----------------------------------------------------------------------------
(* The merge script.  sc[t].by says who runs it: the ticket's own delivery *)
(* or the operator's merge button; nothing but the index lock keeps two    *)
(* scripts apart.                                                          *)

Script(t, pc) == sc' = [sc EXCEPT ![t].pc = pc]

\* _auto_merge_done_gate_or_block on the result, or the web handler's answer.
Report(t, ok) ==
  /\ sc' = [sc EXCEPT ![t] = NoScript]
  /\ tk' = IF sc[t].by = "web" THEN tk
           ELSE IF ok THEN [tk EXCEPT ![t].at = "remove"]
           ELSE [tk EXCEPT ![t].at = "idle", ![t].state = "Blocked"]

\* handle_git_merge: refused while the ticket has a worker, and while another
\* merge started from the web is running.
WebMerge(t) ==
  /\ tk[t].at = "idle" /\ ~tk[t].live /\ tk[t].state # "Todo" /\ branch[t] # 0
  /\ \A u \in Tickets : sc[u].pc = "off" \/ sc[u].by = "exit"
  /\ sc[t].pc = "off"
  /\ sc' = [sc EXCEPT ![t] = [NoScript EXCEPT !.pc = "preflight", !.by = "web"]]
  /\ UNCHANGED <<git, lock, ws, tk, policy, wrote, ops, edits, failures>>

\* Tracked host files that differ from the index, or the index from HEAD.
DirtyPaths ==
  {p \in Paths : host.tree[p] # host.index[p] \/ host.index[p] # Tree(target)[p]}

PreflightRefuses(t) ==
  \/ branch[t] = 0
  \/ Differ(target, branch[t]) \cap Excluded # {}
  \/ Conflict(target, branch[t])
  \/ DirtyPaths \cap Differ(target, branch[t]) # {}

Preflight(t) ==
  /\ sc[t].pc = "preflight"
  /\ IF PreflightRefuses(t) THEN Report(t, FALSE)
     ELSE /\ Script(t, IF Differ(target, branch[t]) = {} THEN "sync" ELSE "capture")
          /\ UNCHANGED tk
  /\ UNCHANGED <<git, lock, ws, policy, wrote, ops, edits, failures>>

\* OLD_HEAD is read before the index lock is taken.
CaptureHead(t) ==
  /\ sc[t].pc = "capture"
  /\ sc' = [sc EXCEPT ![t].pc = "lock", ![t].old = target]
  /\ UNCHANGED <<git, lock, ws, tk, policy, wrote, ops, edits, failures>>

\* Take .git/index.lock and snapshot the operator's index entries.
TakeIndexLock(t) ==
  /\ sc[t].pc = "lock"
  /\ IF lock # "free"
     THEN Report(t, FALSE) /\ UNCHANGED lock
     ELSE /\ lock' = t
          /\ sc' = [sc EXCEPT ![t].pc = "apply", ![t].mine = DirtyPaths,
                              ![t].snap = host.index]
          /\ UNCHANGED tk
  /\ UNCHANGED <<git, ws, policy, wrote, ops, edits, failures>>

\* git merge --no-commit in an index read from OLD_HEAD: Git refuses when a
\* merge is under way, when that index is not HEAD's tree, on a conflict, and
\* when a working file it would overwrite has been changed.
MergeRefused(t) ==
  \/ mergeHead # 0
  \/ Tree(sc[t].old) # Tree(target)
  \/ Conflict(target, branch[t])
  \/ \E p \in Paths : /\ Merged(target, branch[t])[p] # Tree(target)[p]
                      /\ host.tree[p] # Tree(target)[p]

\* After a refusal the script aborts whatever MERGE_HEAD there is.
ApplyRefused(t) ==
  /\ sc[t].pc = "apply" /\ MergeRefused(t)
  /\ mergeHead' = 0 /\ lock' = "free"
  /\ Report(t, FALSE)
  /\ UNCHANGED <<git, host, ws, policy, wrote, seen, edits, failures>>

ApplyMerge(t) ==
  /\ sc[t].pc = "apply" /\ ~MergeRefused(t)
  /\ LET m == Merged(target, branch[t])
     IN  IF m = Tree(target)
         THEN Script(t, "sync") /\ lock' = "free" /\ UNCHANGED <<host, mergeHead>>
         ELSE /\ sc' = [sc EXCEPT ![t].pc = "commit", ![t].tree = m]
              /\ host' = [host EXCEPT !.tree =
                   [p \in Paths |-> IF m[p] # Tree(target)[p] THEN m[p] ELSE @[p]]]
              /\ mergeHead' = branch[t]
              /\ UNCHANGED lock
  /\ UNCHANGED <<git, tk, ws, policy, wrote, seen, edits, failures>>

CommitMerge(t) ==
  /\ sc[t].pc = "commit" /\ Room
  /\ log' = Commit(sc[t].tree, {target, mergeHead})
  /\ target' = NextCommit /\ mergeHead' = 0
  /\ Script(t, "publish")
  /\ UNCHANGED <<branch, host, lock, ws, tk, policy, wrote, seen, edits, failures>>

\* fail_after_merge: merge --abort puts the merged files back, and refuses, with
\* the merge left under way, when one of them has been edited meanwhile.
AbortTree(t) ==
  LET changed == {p \in Paths : sc[t].tree[p] # Tree(target)[p]}
  IN  IF \E p \in changed : host.tree[p] # sc[t].tree[p] THEN host.tree
      ELSE [p \in Paths |-> IF p \in changed THEN Tree(target)[p] ELSE host.tree[p]]

CommitFails(t) ==
  /\ sc[t].pc = "commit" /\ Faulty
  /\ host' = [host EXCEPT !.tree = AbortTree(t)]
  /\ mergeHead' = IF AbortTree(t) = host.tree THEN mergeHead ELSE 0
  /\ lock' = "free"
  /\ Report(t, FALSE)
  /\ UNCHANGED <<git, ws, policy, wrote, seen, edits>>

\* The reconciled index: the operator's entries as they were, the merged paths
\* at the new HEAD, everything else untouched.
PublishedIndex(t) ==
  [p \in Paths |-> IF p \in sc[t].mine THEN sc[t].snap[p]
                   ELSE IF p \in Differ(sc[t].old, target) THEN Tree(target)[p]
                   ELSE host.index[p]]

PublishIndex(t) ==
  /\ sc[t].pc = "publish"
  /\ host' = [host EXCEPT !.index = PublishedIndex(t)]
  /\ lock' = "free"
  /\ Script(t, "sync")
  /\ UNCHANGED <<git, mergeHead, ws, tk, policy, wrote, seen, edits, failures>>

\* sync_upstream: push without force, then compare with ls-remote.
SyncUpstream(t) ==
  /\ sc[t].pc = "sync"
  /\ Report(t, TRUE)
  /\ UNCHANGED <<git, lock, ws, policy, wrote, ops, edits, failures>>

\* Others have pushed commits of their own, so the push is refused: the merge is
\* in the host and the script fails.
SyncRefused(t) ==
  /\ sc[t].pc = "sync" /\ PushTarget /\ Faulty
  /\ Report(t, FALSE)
  /\ UNCHANGED <<git, lock, ws, policy, wrote, ops, edits>>

\* The script is killed when its timeout expires; a lock it holds stays.
KillScript(t) ==
  /\ sc[t].pc # "off" /\ Faulty
  /\ lock' = IF lock = t THEN "dead" ELSE lock
  /\ Report(t, FALSE)
  /\ UNCHANGED <<git, ws, policy, wrote, ops, edits>>
-----------------------------------------------------------------------------
(* Removal, restart and recovery.                                          *)

\* after_done and WorkspaceManager.remove (before_remove hook, then rmtree).  What
\* a cancelled agent wrote after the snapshot and did not commit goes with it.
RemoveWorkspace(t) ==
  /\ tk[t].at = "remove"
  /\ ws' = [ws EXCEPT ![t] = NoWorkspace]
  /\ At(t, "idle")
  /\ UNCHANGED <<git, lock, sc, policy, wrote, ops, edits, failures>>

\* after_done failed and after_done_failure_policy is "block".
AfterDoneBlocks(t) ==
  /\ tk[t].at = "remove" /\ tk[t].state = "Done" /\ Faulty
  /\ At(t, "idle")
  /\ UNCHANGED <<git, lock, ws, sc, policy, wrote, ops, edits>>

\* The service dies: runs end where they are, scripts are gone.
Restart ==
  /\ Faulty
  /\ tk' = [t \in Tickets |-> [tk[t] EXCEPT !.at = IF ws[t].there THEN "startup" ELSE "idle",
                                            !.live = FALSE,
                                            !.late = IF ws[t].there THEN {} ELSE @]]
  /\ sc' = [t \in Tickets |-> NoScript]
  /\ lock' = IF lock = "free" THEN "free" ELSE "dead"
  /\ UNCHANGED <<git, ws, policy, wrote, ops, edits>>

\* Mutant: a Done card's branch is taken as merged.
MutantStartupCleanup(t) ==
  /\ tk[t].at = "startup"
  /\ At(t, IF tk[t].paused \/ tk[t].state \in {"Todo", "Blocked", "Human Review"} THEN "idle"
           ELSE IF tk[t].state = "Cancelled" THEN "reap"
           ELSE "remove")
  /\ UNCHANGED <<git, lock, ws, sc, policy, wrote, ops, edits, failures>>

\* _startup_terminal_cleanup for one ticket.
StartupCleanup(t) ==
  /\ tk[t].at = "startup"
  /\ IF tk[t].paused \/ tk[t].state \in {"Todo", "Blocked", "Human Review"}
     THEN At(t, "idle")
     ELSE IF tk[t].state = "Cancelled" THEN At(t, "reap")
     ELSE IF branch[t] \notin Anc(target)
     THEN tk' = [tk EXCEPT ![t].at = "idle", ![t].state = "Blocked"]
     ELSE IF ~Clean(t)
     THEN tk' = [tk EXCEPT ![t].at = "idle", ![t].state = "Blocked", ![t].paused = TRUE]
     ELSE At(t, "remove")
  /\ UNCHANGED <<git, lock, ws, sc, policy, wrote, ops, edits, failures>>

\* A finished card that is not Done is snapshotted before its workspace goes.
ReapWorkspace(t) ==
  /\ tk[t].at = "reap"
  /\ Snapshot(t)
  /\ At(t, "remove")
  /\ UNCHANGED <<target, lock, ws, sc, policy, wrote, ops, edits, failures>>

\* _recover_blocked_history_gate: the branch exists, so the card is reopened.
\* The operator's resume clears the pause; both are needed before a dispatch.
RecoverHistory(t) ==
  /\ tk[t].at = "idle" /\ tk[t].state = "Blocked" /\ branch[t] # 0
  /\ sc[t].pc = "off"
  /\ tk' = [tk EXCEPT ![t].state = "Todo", ![t].paused = FALSE]
  /\ UNCHANGED <<git, lock, ws, sc, policy, wrote, ops, edits, failures>>

\* handle_git_branch_delete without force: merged and not checked out.
DeleteBranch(t) ==
  /\ tk[t].at = "idle" /\ ~tk[t].live /\ sc[t].pc = "off" /\ tk[t].state # "Todo"
  /\ branch[t] # 0 /\ branch[t] \in Anc(target) /\ ~ws[t].there
  /\ branch' = [branch EXCEPT ![t] = 0]
  /\ UNCHANGED <<log, target, lock, ws, tk, sc, policy, wrote, ops, edits, failures>>
-----------------------------------------------------------------------------
(* The operator in the host checkout.                                      *)

HostEdit(p) ==
  /\ edits < MaxEdits
  /\ edits' = edits + 1
  /\ host' = [host EXCEPT !.tree[p] = edits + 1]
  /\ opWrote' = [opWrote EXCEPT ![p] = edits + 1]
  /\ UNCHANGED <<git, mergeHead, lock, ws, tk, sc, policy, wrote, opStaged, opMerging,
                 failures>>

HostStage(p) ==
  /\ lock = "free" /\ host.tree[p] # host.index[p]
  /\ host' = [host EXCEPT !.index[p] = host.tree[p]]
  /\ opStaged' = [opStaged EXCEPT ![p] = host.tree[p]]
  /\ UNCHANGED <<git, mergeHead, lock, ws, tk, sc, policy, wrote, opWrote, opMerging,
                 edits, failures>>

\* The operator starts a merge of some other branch, which changes one path.
HostMerge(p) ==
  /\ lock = "free" /\ mergeHead = 0 /\ DirtyPaths = {} /\ edits < MaxEdits
  /\ edits' = edits + 1
  /\ host' = [tree |-> [host.tree EXCEPT ![p] = edits + 1],
              index |-> [host.index EXCEPT ![p] = edits + 1]]
  /\ opWrote' = [opWrote EXCEPT ![p] = edits + 1]
  /\ opStaged' = [opStaged EXCEPT ![p] = edits + 1]
  /\ mergeHead' = -1 /\ opMerging' = TRUE
  /\ UNCHANGED <<git, lock, ws, tk, sc, policy, wrote, failures>>

HostCommit ==
  /\ lock = "free" /\ Room /\ host.index # Tree(target)
  /\ log' = Commit(host.index, {target, mergeHead} \ {0, -1})
  /\ target' = NextCommit
  /\ mergeHead' = 0 /\ opMerging' = FALSE /\ opStaged' = Blank
  /\ UNCHANGED <<branch, host, lock, ws, tk, sc, policy, wrote, opWrote,
                 edits, failures>>

TicketStep(t) ==
  \/ CreateWorkspace(t) \/ CreateFails(t) \/ RefreshWorkspace(t)
  \/ ReuseWorkspace(t) \/ ConfirmPlan(t) \/ FastForward(t) \/ FastForwardFails(t)
  \/ \E p \in Paths : AgentEdit(t, p)
  \/ AgentCommit(t) \/ AgentStops(t) \/ WorkerError(t)
  \/ \E state \in {"Todo", "Done", "Cancelled"} : WorkerExit(t, state)
  \/ \E state \in {"Done", "Cancelled"} : Reconcile(t, state)
  \/ SnapshotFails(t) \/ ReapWorkspace(t)
  \/ HistoryRecorded(t) \/ HistoryUnpublished(t)
  \/ WebMerge(t) \/ Preflight(t) \/ CaptureHead(t)
  \/ TakeIndexLock(t) \/ ApplyRefused(t) \/ ApplyMerge(t)
  \/ CommitMerge(t) \/ CommitFails(t)
  \/ PublishIndex(t) \/ SyncUpstream(t) \/ SyncRefused(t) \/ KillScript(t)
  \/ RemoveWorkspace(t) \/ AfterDoneBlocks(t) \/ StartupCleanup(t)
  \/ RecoverHistory(t) \/ DeleteBranch(t)

NextDelivery ==
  \/ \E t \in Tickets : TicketStep(t)
  \/ \E p \in Paths : HostEdit(p) \/ HostStage(p) \/ HostMerge(p)
  \/ HostCommit \/ Restart

DeliverySpec == InitDelivery /\ [][NextDelivery]_deliveryVars
-----------------------------------------------------------------------------
(* Properties.                                                             *)

Tips == {target} \cup {branch[t] : t \in Tickets}

\* The last version an agent wrote of a path is in its workspace, or in a commit
\* that a branch still reaches.
Safe(t, p) ==
  \/ ws[t].there /\ ws[t].tree[p] = wrote[t][p]
  \/ Reaches(wrote[t][p], p, Tips)

\* With workspaces preserved across runs and snapshots on, no agent's work is
\* lost, whatever snapshot, fast-forward, merge, removal, failure or restart
\* happens.  Where a cancelled agent's late version of a path has gone with the
\* workspace, the one it had written before is kept instead.
WorkIsKept ==
  policy.reuse = "preserve" /\ policy.commit =>
    \A t \in Tickets, p \in Paths \ Excluded :
      IF ~ws[t].there /\ p \in tk[t].late THEN Reaches(tk[t].kept[p], p, Tips)
      ELSE Safe(t, p)

\* A card that stays Done after its workspace has been removed is delivered:
\* whatever of its agent's last work exists at all is in the target's history,
\* none of it left behind on the ticket's branch, unless a cancelled agent
\* committed once reconcile's merge script had read the branch.
DoneIsMerged ==
  \A t \in Tickets :
    (tk[t].state = "Done" /\ tk[t].at = "idle" /\ ~ws[t].there /\ ~tk[t].stray) =>
      \A p \in Paths \ Excluded :
        Reaches(wrote[t][p], p, Tips) => Reaches(wrote[t][p], p, {target})

\* The merge script works around the operator: the last version they wrote of a
\* file is in the host's working tree, or was staged or committed, and what they
\* staged is still what the index holds.
OperatorIsKept ==
  \A p \in Paths :
    /\ \/ host.tree[p] = opWrote[p] \/ host.index[p] = opWrote[p]
       \/ Reaches(opWrote[p], p, {target})
    /\ opStaged[p] # 0 => host.index[p] = opStaged[p]

\* A merge the operator has under way in the host is theirs to finish: the merge
\* script never ends it.
OperatorMergeKept == opMerging => mergeHead = -1

\* What commit_workspace_on_done is for: under either policy, no work an agent
\* left in its worktree is discarded by a forced removal of the worktree.
NothingDiscarded == \A t \in Tickets, p \in Paths \ Excluded : Safe(t, p)

\* "Snapshot before remove - `git worktree remove --force` would otherwise discard
\* whatever the agent left uncommitted" (retry_reconcile.py:963): the agent that
\* reconcile has cancelled and not waited for writes on, and loses it.
NothingLateLost == \A t \in Tickets : ~ws[t].there => tk[t].late = {}

\* A Done card whose worktree is gone has its branch merged: not what the
\* cancelled agent commits between the merge and the removal.
NoStray ==
  \A t \in Tickets :
    tk[t].state = "Done" /\ tk[t].at = "idle" /\ ~ws[t].there => ~tk[t].stray
=============================================================================
