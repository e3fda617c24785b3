------------------------------ MODULE PmAuthority ------------------------------
(***************************************************************************)
(* The authority chain of one PM planning change: a reviewed plan is       *)
(* approved, its tasks are handed off as board tickets, the orchestrator   *)
(* reserves a permit per attempt and passes a launch guard before every    *)
(* process generation, and a human accepts a verified commit.              *)
(*                                                                         *)
(* A plan ("scope") gives every task a content; hashes are the contents    *)
(* themselves.  A managed ticket is <<task, content>>, because its         *)
(* identifier is derived from the task and its revision.  A handoff is     *)
(* named by its client operation.  Approvals are numbered in order, so the *)
(* active one is the last.                                                 *)
(***************************************************************************)
EXTENDS Naturals, Sequences, FiniteSets

CONSTANTS Tasks,        \* executable tasks of the plan
          Requires,     \* pairs <<successor, predecessor>>, kind requires_code
          Contents,     \* contents a task may have
          Ops,          \* client operation ids of handoffs
          Attempts,     \* worker attempts, each reserving one permit
          Procedures,   \* verification procedures every task requires
          MaxApprovals, MaxCrashes, MaxEdits

ASSUME PmAssumption == "none" \notin Attempts \cup Ops

VARIABLES doc,        \* the plan in the planning worktree
          ws,         \* state of the planning claim
          approvals,  \* scopes approved, oldest first
          batch,      \* pm_handoff_batches with their items
          managed,    \* pm_managed_tickets
          revoked,    \* pm_authority_revocations
          board,      \* the managed tickets in the tracker
          lock,       \* holder of the per-change authority lock
          att,        \* attempts with the permit each holds
          lease,      \* active run row of each ticket
          receipts,   \* passed verification receipts <<ticket, procedure, commit>>
          accepted,   \* commit of the active acceptance
          crashes, edits

authorityVars == <<doc, ws, approvals, batch, managed, revoked, board, lock, att, lease,
          receipts, accepted, crashes, edits>>

None == "none"
Free == [by |-> None, of |-> None]
Held(by, of) == [by |-> by, of |-> of]
Plans == [Tasks -> Contents]
Tickets == Tasks \X Contents
Items(op) == {<<t, batch[op].scope[t]>> : t \in Tasks}
ActivePermit == {"RESERVED", "STARTING", "RUNNING"}
InGuard == {"starting", "spawned", "published"}
HasProcess == {"spawned", "published", "up", "orphan"}

NoBatch == [st |-> None]
NoAttempt == [pc |-> "new"]

AuthorityTypeOK ==
  /\ doc \in Plans
  /\ ws \in {"ACTIVE", "EXTERNAL_EDIT", "REPAIR_REQUIRED"}
  /\ approvals \in Seq(Plans)
  /\ \A op \in Ops : batch[op].st \in {None, "STAGING", "PUBLISHED"}
  /\ managed \in [Tickets -> [st : {None, "STAGING", "PUBLISHED", "REVOKED"},
                              op : Ops \cup {None}]]
  /\ revoked \subseteq Tickets
  /\ board \in [Tickets -> [st : {None, "open", "done"}, op : Ops \cup {None},
                            ver : 0..1]]
  /\ lock \in {Free} \cup {Held("guard", a) : a \in Attempts}
                   \cup {Held("handoff", op) : op \in Ops}
  /\ \A a \in Attempts :
       att[a].pc \in {"new", "held", "guard", "orphan", "up", "ended"} \cup InGuard
  /\ lease \in [Tickets -> Attempts \cup {None}]
  /\ receipts \subseteq Tickets \X Procedures \X Attempts
  /\ accepted \in [Tickets -> Attempts \cup {None}]

InitAuthority ==
  /\ doc \in Plans
  /\ ws = "ACTIVE"
  /\ approvals = << >>
  /\ batch = [op \in Ops |-> NoBatch]
  /\ managed = [k \in Tickets |-> [st |-> None, op |-> None]]
  /\ revoked = {}
  /\ board = [k \in Tickets |-> [st |-> None, op |-> None, ver |-> 0]]
  /\ lock = Free
  /\ att = [a \in Attempts |-> NoAttempt]
  /\ lease = [k \in Tickets |-> None]
  /\ receipts = {}
  /\ accepted = [k \in Tickets |-> None]
  /\ crashes = 0 /\ edits = 0

planVars == <<doc, ws, approvals>>
handoffVars == <<batch, managed, revoked, board>>
runVars == <<lock, att, lease>>
reviewVars == <<receipts, accepted, crashes, edits>>

-----------------------------------------------------------------------------
(* The plan.                                                                *)

\* A browser edit: under the change lock, claim ACTIVE, revision current.
PatchDocument(t, c) ==
  /\ lock = Free /\ ws = "ACTIVE" /\ edits < MaxEdits
  /\ doc[t] # c
  /\ doc' = [doc EXCEPT ![t] = c]
  /\ edits' = edits + 1
  /\ UNCHANGED <<ws, approvals, receipts, accepted, crashes>>
  /\ UNCHANGED <<handoffVars, runVars>>

\* set_pm_workspace_state of the current claim.
SetWorkspaceState(states) == ws' \in states

\* External edit mode: the operator's editor writes without any lock.
BeginExternalEdit ==
  /\ lock = Free /\ ws = "ACTIVE"
  /\ SetWorkspaceState({"EXTERNAL_EDIT"})
  /\ UNCHANGED <<doc, approvals>>
  /\ UNCHANGED <<handoffVars, runVars, reviewVars>>

ExternalWrite(t, c) ==
  /\ ws = "EXTERNAL_EDIT" /\ edits < MaxEdits
  /\ doc[t] # c
  /\ doc' = [doc EXCEPT ![t] = c]
  /\ edits' = edits + 1
  /\ UNCHANGED <<ws, approvals, receipts, accepted, crashes>>
  /\ UNCHANGED <<handoffVars, runVars>>

\* The re-index either validates or leaves the claim to be repaired.
EndExternalEdit ==
  /\ lock = Free /\ ws = "EXTERNAL_EDIT"
  /\ SetWorkspaceState({"ACTIVE", "REPAIR_REQUIRED"})
  /\ UNCHANGED <<doc, approvals>>
  /\ UNCHANGED <<handoffVars, runVars, reviewVars>>

\* A repaired claim is a new claim: next fence, state ACTIVE.
ClaimWorkspace ==
  /\ ws = "REPAIR_REQUIRED"
  /\ ws' = "ACTIVE"
  /\ UNCHANGED <<doc, approvals>>
  /\ UNCHANGED <<handoffVars, runVars, reviewVars>>

\* record_pm_approval: the new row supersedes every earlier one.
RecordApproval(scope) == approvals' = Append(approvals, scope)

\* Approval of the current revision.  The manifest and its commit are in the
\* worktree before the row that supersedes the earlier approval; a crash
\* in between leaves files no row names.
Approve ==
  /\ lock = Free /\ ws = "ACTIVE" /\ Len(approvals) < MaxApprovals
  /\ RecordApproval(doc)
  /\ UNCHANGED <<doc, ws>>
  /\ UNCHANGED <<handoffVars, runVars, reviewVars>>

ActiveApproval == Len(approvals)

\* The preview refuses a plan whose current revision is not the approved one.
Previewable ==
  /\ ActiveApproval > 0
  /\ approvals[ActiveApproval] = doc
  /\ ws \in {"ACTIVE", "EXTERNAL_EDIT"}

-----------------------------------------------------------------------------
(* Handoff.                                                                 *)

\* The unique keys of items and managed tickets: a task revision is handed
\* off once, whatever the batch.
Insertable == \A t \in Tasks : managed[<<t, doc[t]>>].st = None

\* create_pm_handoff_batch: batch, items and tickets staged in one
\* transaction; the same operation again finds its own batch.
CreateHandoffBatch(op, scope, approval) ==
  \/ /\ batch[op].st = None /\ Insertable
     /\ batch' = [batch EXCEPT ![op] = [st |-> "STAGING", scope |-> scope,
                                        approval |-> approval]]
     /\ managed' = [k \in Tickets |->
          IF k[2] = scope[k[1]] THEN [st |-> "STAGING", op |-> op] ELSE managed[k]]
  \/ /\ batch[op].st # None
     /\ batch[op].scope = scope /\ batch[op].approval = approval
     /\ UNCHANGED <<batch, managed>>

\* publish, up to the staged rows: under the lock, on a fresh preview.
StageHandoff(op) ==
  /\ lock = Free /\ Previewable
  /\ CreateHandoffBatch(op, doc, ActiveApproval)
  /\ lock' = Held("handoff", op)
  /\ UNCHANGED <<revoked, board, att, lease>>
  /\ UNCHANGED <<planVars, reviewVars>>

Ours(op, k) == board[k].op = op
MatchesInput(op, k) == board[k].st = "open" /\ board[k].op = op /\ board[k].ver = 0

\* One ticket is created; a ticket that already carries this handoff's
\* reference is kept.
CreateTicket(op, k) ==
  /\ lock = Held("handoff", op)
  /\ k \in Items(op) /\ board[k].st = None
  /\ board' = [board EXCEPT ![k] = [st |-> "open", op |-> op, ver |-> 0]]
  /\ UNCHANGED <<batch, managed, revoked>>
  /\ UNCHANGED <<planVars, runVars, reviewVars>>

\* Every ticket of the batch is re-read and matched before the rows change.
Publishable(op) == \A k \in Items(op) : MatchesInput(op, k)

\* publish_pm_handoff: a second publication changes nothing.
PublishRows(op) ==
  /\ batch' = [batch EXCEPT ![op].st = "PUBLISHED"]
  /\ managed' = IF batch[op].st = "PUBLISHED" THEN managed
                ELSE [k \in Tickets |->
                       IF managed[k].op = op THEN [managed[k] EXCEPT !.st = "PUBLISHED"]
                       ELSE managed[k]]

PublishHandoff(op) ==
  /\ lock = Held("handoff", op)
  /\ Publishable(op)
  /\ PublishRows(op)
  /\ lock' = Free
  /\ UNCHANGED <<revoked, board, att, lease>>
  /\ UNCHANGED <<planVars, reviewVars>>

\* A mismatching or foreign ticket raises and leaves the batch as it is.
HandoffFails(op) ==
  /\ lock = Held("handoff", op)
  /\ \E k \in Items(op) : board[k].st # None /\ ~MatchesInput(op, k)
  /\ lock' = Free
  /\ UNCHANGED <<att, lease>>
  /\ UNCHANGED <<planVars, handoffVars, reviewVars>>

-----------------------------------------------------------------------------
(* Membership.                                                              *)

Blockers(op, k) == {<<p, batch[op].scope[p]>> : p \in {q \in Tasks : <<k[1], q>> \in Requires}}

\* get_accepted_pm_commit: the acceptance still has its whole receipt set.
AcceptedCommit(k) ==
  IF accepted[k] # None /\ \A p \in Procedures : <<k, p, accepted[k]>> \in receipts
  THEN accepted[k] ELSE None

Authorised(k) ==
  LET op == managed[k].op IN
  /\ managed[k].st = "PUBLISHED" /\ batch[op].st = "PUBLISHED"
  /\ AcceptedCommit(k) = None
  /\ batch[op].approval = ActiveApproval
  /\ approvals[ActiveApproval] = batch[op].scope
  /\ ws \in {"ACTIVE", "EXTERNAL_EDIT"}

\* recognize: the ticket read is runnable under the current plan.
Recognize(k, issue) ==
  LET op == managed[k].op IN
  /\ Authorised(k)
  /\ doc = batch[op].scope
  /\ issue.op = op /\ issue.ver = 0
  /\ \A b \in Blockers(op, k) : board[b].st = "done"

\* Every requires_code predecessor has a human-accepted commit.  Whether the
\* workspace descends from it is up to the workspace.
AcceptedPredecessors(k) ==
  \A b \in Blockers(managed[k].op, k) : AcceptedCommit(b) # None

-----------------------------------------------------------------------------
(* Permits and the launch guard.                                            *)

Dead(a) == att[a].pc \in {"new", "ended"}
PermitsOf(k) == {a \in Attempts : att[a].pc # "new" /\ att[a].k = k}
ActivePermitsOf(k) == {a \in PermitsOf(k) : att[a].permit \in ActivePermit}

\* revoke_pm_dispatch: every active permit of the ticket.
RevokeDispatch(atts, k) ==
  [a \in Attempts |->
     IF a \in ActivePermitsOf(k) THEN [atts[a] EXCEPT !.permit = "REVOKED"] ELSE atts[a]]

\* reserve_pm_dispatch_permit: lapsed reservations are revoked first; a
\* permit still active, or a durable revocation, refuses the insert.
ReservePermit(a, k) ==
  /\ k \notin revoked
  /\ \A b \in ActivePermitsOf(k) : att[b].lapsed /\ att[b].permit # "RUNNING"
  /\ att' = [RevokeDispatch(att, k) EXCEPT ![a] =
               [pc |-> "held", k |-> k, permit |-> "RESERVED", lapsed |-> FALSE,
                op |-> managed[k].op, seen |-> board[k]]]

\* An attempt holds the run lease when it is recognised and reserves.
Reserve(a, k) ==
  /\ att[a].pc = "new" /\ lease[k] = None /\ board[k].st = "open"
  /\ Recognize(k, board[k])
  /\ ReservePermit(a, k)
  /\ lease' = [lease EXCEPT ![k] = a]
  /\ UNCHANGED lock
  /\ UNCHANGED <<planVars, handoffVars, reviewVars>>

\* The permit's own deadline passes; heartbeats extend only live runs.
PermitLapses(a) ==
  /\ att[a].pc # "new" /\ att[a].permit \in {"RESERVED", "STARTING"} /\ ~att[a].lapsed
  /\ att' = [att EXCEPT ![a].lapsed = TRUE]
  /\ UNCHANGED <<lock, lease>>
  /\ UNCHANGED <<planVars, handoffVars, reviewVars>>

MutantGuardEnter(a) ==
  /\ att[a].pc = "held" /\ lock = Free
  /\ att' = [att EXCEPT ![a].pc = "guard", ![a].seen = board[att[a].k]]
  /\ UNCHANGED <<lock, lease>>
  /\ UNCHANGED <<planVars, handoffVars, reviewVars>>

\* transition_pm_dispatch_permit: fenced, unexpired, from a given state.
Transition(a, from) == att[a].permit \in from /\ ~att[a].lapsed

\* The guard takes the change lock and loads the ticket.
GuardEnter(a) ==
  /\ att[a].pc = "held" /\ lock = Free
  /\ lock' = Held("guard", a)
  /\ att' = [att EXCEPT ![a].pc = "guard", ![a].seen = board[att[a].k]]
  /\ UNCHANGED lease
  /\ UNCHANGED <<planVars, handoffVars, reviewVars>>

\* A refusal anywhere in the guard revokes the ticket's permits, ends the
\* attempt and gives the lock back.  The run row stays: complete_run rolls
\* back when it cannot consume the permit.
GuardRefuses(a) ==
  /\ att' = [RevokeDispatch(att, att[a].k) EXCEPT ![a].pc = "ended",
               ![a].permit = IF @ \in ActivePermit THEN "REVOKED" ELSE @]
  /\ lock' = Free
  /\ UNCHANGED lease
  /\ UNCHANGED <<planVars, handoffVars, reviewVars>>

GuardPasses(a) ==
  /\ Recognize(att[a].k, att[a].seen)
  /\ managed[att[a].k].op = att[a].op
  /\ AcceptedPredecessors(att[a].k)
  /\ Transition(a, {"RESERVED", "RUNNING"})

GuardCheck(a) ==
  /\ att[a].pc = "guard"
  /\ \/ /\ GuardPasses(a)
        /\ att' = [att EXCEPT ![a].pc = "starting", ![a].permit = "STARTING"]
        /\ UNCHANGED <<lock, lease>>
        /\ UNCHANGED <<planVars, handoffVars, reviewVars>>
     \/ \* not runnable, permit stale, or the ancestry proof fails
        GuardRefuses(a)

Spawn(a) ==
  /\ att[a].pc = "starting"
  /\ att' = [att EXCEPT ![a].pc = "spawned"]
  /\ UNCHANGED <<lock, lease>>
  /\ UNCHANGED <<planVars, handoffVars, reviewVars>>

\* publish_started re-reads the ticket and moves STARTING to RUNNING; a
\* refusal raises inside the guard and the backend ends the new process.
PublishStarted(a) ==
  /\ att[a].pc = "spawned"
  /\ \/ /\ board[att[a].k] = att[a].seen /\ Transition(a, {"STARTING"})
        /\ att' = [att EXCEPT ![a].pc = "published", ![a].permit = "RUNNING"]
        /\ UNCHANGED <<lock, lease>>
        /\ UNCHANGED <<planVars, handoffVars, reviewVars>>
     \/ /\ ~(board[att[a].k] = att[a].seen /\ Transition(a, {"STARTING"}))
        /\ GuardRefuses(a)

GuardExit(a) ==
  /\ att[a].pc = "published"
  /\ lock' = Free
  /\ att' = [att EXCEPT ![a].pc = "up"]
  /\ UNCHANGED lease
  /\ UNCHANGED <<planVars, handoffVars, reviewVars>>

\* The process of this turn ends; the next turn passes the guard again.
TurnEnds(a) ==
  /\ att[a].pc = "up"
  /\ att' = [att EXCEPT ![a].pc = "held"]
  /\ UNCHANGED <<lock, lease>>
  /\ UNCHANGED <<planVars, handoffVars, reviewVars>>

\* Only the RUNNING permit of this run can be consumed.
Consumable(a) == att[a].permit = "RUNNING"

\* complete_run: the exact RUNNING permit is consumed with the run row, or
\* neither changes.  A normal exit leaves a commit and may have moved the
\* ticket to Done.
CompleteAttempt(a) ==
  /\ att[a].pc \in {"up", "held"}
  /\ IF Consumable(a)
     THEN /\ att' = [att EXCEPT ![a].pc = "ended", ![a].permit = "CONSUMED"]
          /\ lease' = [lease EXCEPT ![att[a].k] = None]
          /\ \E done \in BOOLEAN :
               board' = [board EXCEPT ![att[a].k].st = IF done THEN "done" ELSE @]
     ELSE /\ att' = [att EXCEPT ![a].pc = "ended"]
          /\ UNCHANGED <<lease, board>>
  /\ UNCHANGED <<lock, batch, managed, revoked>>
  /\ UNCHANGED <<planVars, reviewVars>>

\* The service dies: its lock goes with it, processes that reported
\* themselves survive it, run rows and permits stay as they are.
ServiceDies ==
  /\ crashes < MaxCrashes
  /\ crashes' = crashes + 1
  /\ lock' = Free
  /\ att' = [a \in Attempts |->
       IF Dead(a) \/ att[a].pc = "orphan" THEN att[a]
       ELSE [att[a] EXCEPT !.pc = IF @ \in {"published", "up"} THEN "orphan" ELSE "ended"]]
  /\ UNCHANGED <<lease, receipts, accepted, edits>>
  /\ UNCHANGED <<planVars, handoffVars>>

\* A run row without a live owner is reclaimed: its process is ended, then
\* the row is finalised with its RUNNING permit.
FinalizeAttempt(k) ==
  /\ lease[k] # None /\ att[lease[k]].pc \in {"ended", "orphan"}
  /\ lease' = [lease EXCEPT ![k] = None]
  /\ att' = [att EXCEPT ![lease[k]].pc = "ended",
               ![lease[k]].permit = IF @ = "RUNNING" THEN "CONSUMED" ELSE @]
  /\ UNCHANGED lock
  /\ UNCHANGED <<planVars, handoffVars, reviewVars>>

\* revoke_pm_authority, under the same lock.
RevokeAuthority(k) ==
  /\ lock = Free /\ managed[k].st # None /\ k \notin revoked
  /\ revoked' = revoked \cup {k}
  /\ managed' = [managed EXCEPT ![k].st = "REVOKED"]
  /\ att' = RevokeDispatch(att, k)
  /\ UNCHANGED <<batch, board, lock, lease>>
  /\ UNCHANGED <<planVars, reviewVars>>

\* An operator edits a managed ticket at any time; the tracker has no part
\* in the change lock.
EditTicket(k) ==
  /\ board[k].st = "open" /\ edits < MaxEdits
  /\ board' = [board EXCEPT ![k].ver = 1 - @]
  /\ edits' = edits + 1
  /\ UNCHANGED <<batch, managed, revoked, receipts, accepted, crashes>>
  /\ UNCHANGED <<planVars, runVars>>

-----------------------------------------------------------------------------
(* Verification and acceptance.  A commit is named by the attempt that left  *)
(* it; a receipt is recorded for a commit at any time after the run.         *)

RecordVerification(k, p, a) ==
  /\ <<k, p, a>> \notin receipts
  /\ receipts' = receipts \cup {<<k, p, a>>}
  /\ UNCHANGED <<accepted, crashes, edits>>
  /\ UNCHANGED <<planVars, handoffVars, runVars>>

\* A successful terminal run of this ticket left the commit.
SuccessfulRun(k, a) == att[a].pc = "ended" /\ att[a].k = k /\ att[a].permit = "CONSUMED"

RunProcedure(k, p, a) ==
  /\ managed[k].st # None /\ SuccessfulRun(k, a)
  /\ RecordVerification(k, p, a)

\* Manual evidence names any commit that exists.
ManualEvidenceReady(k, a) == managed[k].st # None /\ att[a].pc # "new" /\ att[a].k = k

ConfirmManualEvidence(k, p, a) ==
  /\ ManualEvidenceReady(k, a)
  /\ RecordVerification(k, p, a)

MutantNoNativeAttempt(k) == ActivePermitsOf(k) = {}

\* No run row, no active permit, no process the registry still owns.
NoNativeAttempt(k) == lease[k] = None /\ ActivePermitsOf(k) = {}

\* preview_acceptance: every required procedure has a passing receipt at
\* this one commit.
AcceptanceReady(k, a) ==
  /\ managed[k].st # None
  /\ \A p \in Procedures : <<k, p, a>> \in receipts

RecordAcceptance(k, a) == accepted' = [accepted EXCEPT ![k] = a]

\* The ticket is moved to Done after the acceptance row; that may fail.
CompleteTicket(k) ==
  \E done \in BOOLEAN :
    board' = [board EXCEPT ![k].st = IF done /\ @ # None THEN "done" ELSE @]

Accept(k, a) ==
  /\ lock = Free
  /\ NoNativeAttempt(k) /\ AcceptanceReady(k, a)
  /\ RecordAcceptance(k, a)
  /\ CompleteTicket(k)
  /\ UNCHANGED <<batch, managed, revoked, receipts, crashes, edits>>
  /\ UNCHANGED <<planVars, runVars>>

-----------------------------------------------------------------------------
PlanStep ==
  \/ \E t \in Tasks, c \in Contents : PatchDocument(t, c) \/ ExternalWrite(t, c)
  \/ BeginExternalEdit \/ EndExternalEdit \/ ClaimWorkspace \/ Approve

HandoffStep ==
  \E op \in Ops : \/ StageHandoff(op) \/ PublishHandoff(op) \/ HandoffFails(op)
                  \/ \E k \in Tickets : CreateTicket(op, k)

GuardStep(a) ==
  \/ GuardEnter(a) \/ GuardCheck(a) \/ Spawn(a) \/ PublishStarted(a) \/ GuardExit(a)

AttemptStep ==
  \E a \in Attempts :
    \/ \E k \in Tickets : Reserve(a, k)
    \/ GuardStep(a) \/ PermitLapses(a) \/ TurnEnds(a) \/ CompleteAttempt(a)

ReviewStep ==
  \E k \in Tickets :
    \/ FinalizeAttempt(k) \/ RevokeAuthority(k) \/ EditTicket(k)
    \/ \E a \in Attempts :
         \/ Accept(k, a)
         \/ \E p \in Procedures : RunProcedure(k, p, a) \/ ConfirmManualEvidence(k, p, a)

NextAuthority == PlanStep \/ HandoffStep \/ AttemptStep \/ ReviewStep \/ ServiceDies

AuthoritySpec == InitAuthority /\ [][NextAuthority]_authorityVars

-----------------------------------------------------------------------------
(* From the moment the launch guard has checked a ticket until the started  *)
(* process is published, its authority still stands: its handoff is         *)
(* published under the active approval, it is neither revoked nor accepted, *)
(* its predecessors are accepted, and the plan is the approved one unless   *)
(* an external editor is at work (authority.py launch_guard).               *)
LaunchIsAuthorised ==
  \A a \in Attempts : att[a].pc \in InGuard =>
    LET k == att[a].k IN
    /\ Authorised(k) /\ k \notin revoked
    /\ AcceptedPredecessors(k)
    /\ doc = batch[managed[k].op].scope \/ ws = "EXTERNAL_EDIT"

(* An accepted task revision has no native process, and gets none again     *)
(* (verification.py accept, authority.py recognize).                        *)
AcceptedIsQuiet ==
  \A a \in Attempts : att[a].pc \in HasProcess => accepted[att[a].k] = None

(* A published managed ticket stands on a whole handoff: every ticket of    *)
(* its batch is on the board with the handoff's reference, whatever crash   *)
(* or retry came between staging and publication (handoff.py publish).      *)
PublishedIsWhole ==
  \A op \in Ops : batch[op].st = "PUBLISHED" =>
    \A k \in Items(op) : board[k].st # None /\ Ours(op, k)

===============================================================================
