------------------------------ MODULE PmDocuments ------------------------------
(***************************************************************************)
(* The planning documents of one change: work items in tasks.md, a second  *)
(* document, and the identity ledger in symphony.yaml that remembers every *)
(* permanent id, active or retired.  Writers stage and journal what they   *)
(* write so that a crash between two files can be rolled forward; an       *)
(* operator may edit the files directly in external edit mode; a planning  *)
(* proposal is applied to several documents at once.  A legacy ticket may  *)
(* be superseded by the change.                                            *)
(***************************************************************************)
EXTENDS Naturals, FiniteSets

CONSTANTS Ids,          \* permanent ids the host can mint
          MaxDocCrashes, MaxWrites, MaxExternal

VARIABLES tasks,      \* ids of the work items in tasks.md
          spec,       \* version of the second document
          ident,      \* the ledger: active and retired ids
          sem,        \* semantic journal and its two stage files
          multi,      \* multi-document journal
          claimState, \* state of the planning claim
          job,        \* the operation holding the change lock
          approved,   \* ids of the approved plan
          proposal,   \* a completed planning proposal with its reserved ids
          ever,       \* history: every id that was ever in tasks.md
          rebound,    \* history: a claim in repair was bound again
          legacy, docCrashes, writes, externals

docVars == <<tasks, spec, ident, sem, multi, claimState, job, approved, proposal, ever,
          rebound, legacy, docCrashes, writes, externals>>

Absent == "none"
NoJob == [pc |-> Absent]
NoJournal == [on |-> FALSE]
files == <<tasks, spec, ident, sem, multi, ever>>
bounds == <<docCrashes, writes, externals>>
claimVars == <<claimState, approved, proposal, rebound, legacy>>

Revision == <<tasks, spec, ident>>
Ledger(active, retired) == [active |-> active, retired |-> retired]

DocsTypeOK ==
  /\ tasks \subseteq Ids /\ ever \subseteq Ids /\ approved \subseteq Ids
  /\ spec \in 0..MaxWrites
  /\ ident.active \subseteq Ids /\ ident.retired \subseteq Ids
  /\ claimState \in {"ACTIVE", "EXTERNAL_EDIT", "REPAIR_REQUIRED"}
  /\ job.pc \in {Absent, "staged", "journal", "document", "identity",
                 "multi", "tasks", "spec", "multi_identity",
                 "recover", "recover_document", "recover_identity"}

InitDocs ==
  /\ tasks = {} /\ spec = 0 /\ ident = Ledger({}, {})
  /\ sem = NoJournal /\ multi = NoJournal
  /\ claimState = "ACTIVE" /\ job = NoJob
  /\ approved = {} /\ proposal = [st |-> Absent, ids |-> {}, base |-> << >>]
  /\ ever = {} /\ rebound = FALSE
  /\ legacy = [run |-> Absent, conv |-> Absent, st |-> "open"]
  /\ docCrashes = 0 /\ writes = 0 /\ externals = 0

-----------------------------------------------------------------------------
(* The change lock, and recovery before anything is read under it.          *)

Unlocked == job = NoJob
Recovered == ~sem.on /\ ~multi.on

\* A write asks for the lock with the revision it was prepared against; a
\* change in between refuses it, so the content is taken as current here.
Writable == Unlocked /\ Recovered /\ claimState = "ACTIVE" /\ writes < MaxWrites

\* Mint: an id the ledger does not know.
Mintable == Ids \ (ident.active \cup ident.retired \cup
                   IF proposal.st = "completed" THEN proposal.ids ELSE {})

\* _reconcile_work_items for the new task set; ids of "minted" and
\* "restored" are authorised, everything else may only stay or go.
Reconciles(after, minted, restored) ==
  /\ (after \ tasks) \subseteq (minted \cup restored)
  /\ minted \cap ident.retired = {} /\ minted \subseteq after
  /\ restored \subseteq ident.retired

MutantReconcile(after, restored) ==
  Ledger((ident.active \ (tasks \ after)) \cup after, ident.retired \ restored)

Reconcile(after, restored) ==
  Ledger((ident.active \ (tasks \ after)) \cup after,
         (ident.retired \cup (tasks \ after)) \ restored)

NoOverlap(ledger) == ledger.active \cap ledger.retired = {}

\* _atomic_semantic_write, prepared: the document and the ledger are staged.
Stage(after, restored) ==
  LET next == Reconcile(after, restored) IN
  /\ NoOverlap(next)
  /\ job' = [pc |-> "staged", tasks |-> after, ident |-> next]
  /\ writes' = writes + 1
  /\ UNCHANGED <<docCrashes, externals>>
  /\ UNCHANGED <<files, claimVars>>

CreateTask ==
  /\ Writable
  /\ \E id \in Mintable :
       /\ Reconciles(tasks \cup {id}, {id}, {})
       /\ Stage(tasks \cup {id}, {})

\* Approved work is cancelled, never deleted.
DeleteTask ==
  /\ Writable
  /\ \E id \in tasks \ approved :
       /\ Reconciles(tasks \ {id}, {}, {})
       /\ Stage(tasks \ {id}, {})

\* A retired id comes back only as the same entity.
RestoreTask ==
  /\ Writable
  /\ \E id \in ident.retired :
       /\ Reconciles(tasks \cup {id}, {}, {id})
       /\ Stage(tasks \cup {id}, {id})

WriteJournal ==
  /\ job.pc = "staged"
  /\ sem' = [on |-> TRUE, doc |-> TRUE, id |-> TRUE, tasks |-> job.tasks, ident |-> job.ident]
  /\ job' = [job EXCEPT !.pc = "journal"]
  /\ UNCHANGED <<tasks, spec, ident, multi, ever>>
  /\ UNCHANGED <<claimVars, bounds>>

\* The document stage replaces the document.
ReplaceDocument ==
  /\ job.pc = "journal"
  /\ tasks' = job.tasks /\ ever' = ever \cup job.tasks
  /\ sem' = [sem EXCEPT !.doc = FALSE]
  /\ job' = [job EXCEPT !.pc = "document"]
  /\ UNCHANGED <<spec, ident, multi>>
  /\ UNCHANGED <<claimVars, bounds>>

ReplaceIdentity ==
  /\ job.pc = "document"
  /\ ident' = job.ident
  /\ sem' = [sem EXCEPT !.id = FALSE]
  /\ job' = [job EXCEPT !.pc = "identity"]
  /\ UNCHANGED <<tasks, spec, multi, ever>>
  /\ UNCHANGED <<claimVars, bounds>>

Unlink ==
  /\ job.pc = "identity"
  /\ sem' = NoJournal
  /\ job' = NoJob
  /\ UNCHANGED <<tasks, spec, ident, multi, ever>>
  /\ UNCHANGED <<claimVars, bounds>>

-----------------------------------------------------------------------------
(* Recovery, by whoever opens the change next, under the change lock.        *)

BeginRecovery ==
  /\ Unlocked /\ ~Recovered
  /\ job' = [pc |-> "recover"]
  /\ UNCHANGED <<files, claimVars, bounds>>

\* Stages that are still there replace their targets; the document first.
RecoverDocument ==
  /\ job.pc = "recover"
  /\ IF sem.on
     THEN /\ tasks' = IF sem.doc THEN sem.tasks ELSE tasks
          /\ sem' = [sem EXCEPT !.doc = FALSE]
          /\ UNCHANGED spec
     ELSE /\ tasks' = multi.tasks /\ spec' = multi.spec
          /\ UNCHANGED sem
  /\ ever' = ever \cup tasks'
  /\ job' = [pc |-> "recover_document"]
  /\ UNCHANGED <<ident, multi>>
  /\ UNCHANGED <<claimVars, bounds>>

MutantRecoverIdentity ==
  /\ job.pc = "recover_document"
  /\ sem' = IF sem.on THEN [sem EXCEPT !.id = FALSE] ELSE sem
  /\ job' = [pc |-> "recover_identity"]
  /\ UNCHANGED <<tasks, spec, ident, multi, ever>>
  /\ UNCHANGED <<claimVars, bounds>>

RecoverIdentity ==
  /\ job.pc = "recover_document"
  /\ ident' = IF sem.on THEN IF sem.id THEN sem.ident ELSE ident ELSE multi.ident
  /\ sem' = IF sem.on THEN [sem EXCEPT !.id = FALSE] ELSE sem
  /\ job' = [pc |-> "recover_identity"]
  /\ UNCHANGED <<tasks, spec, multi, ever>>
  /\ UNCHANGED <<claimVars, bounds>>

\* A target that does not match the journal keeps the journal and asks for
\* repair.
RecoverUnlink ==
  /\ job.pc = "recover_identity"
  /\ IF sem.on
     THEN /\ sem' = IF tasks = sem.tasks /\ ident = sem.ident THEN NoJournal ELSE sem
          /\ UNCHANGED multi
     ELSE multi' = NoJournal /\ UNCHANGED sem
  /\ job' = NoJob
  /\ UNCHANGED <<tasks, spec, ident, ever>>
  /\ UNCHANGED <<claimVars, bounds>>

-----------------------------------------------------------------------------
(* Planning proposals.                                                      *)

\* The host reserves permanent ids before the proposal is reviewed.
CompleteProposal ==
  /\ proposal.st = Absent /\ Recovered /\ Unlocked
  /\ \E id \in Mintable :
       proposal' = [st |-> "completed", ids |-> {id}, base |-> Revision]
  /\ UNCHANGED <<claimState, approved, rebound, legacy, job>>
  /\ UNCHANGED <<files, bounds>>

\* patch_documents: the revision is checked under the lock, the state of the
\* claim is not.
ApplyProposal ==
  /\ Unlocked /\ Recovered /\ writes < MaxWrites
  /\ claimState # "REPAIR_REQUIRED"
  /\ proposal.st = "completed" /\ proposal.base = Revision
  /\ Reconciles(tasks \cup proposal.ids, proposal.ids, {})
  /\ NoOverlap(Reconcile(tasks \cup proposal.ids, {}))
  /\ job' = [pc |-> "multi", tasks |-> tasks \cup proposal.ids, spec |-> spec + 1,
             ident |-> Reconcile(tasks \cup proposal.ids, {})]
  /\ multi' = [on |-> TRUE, tasks |-> job'.tasks, spec |-> job'.spec, ident |-> job'.ident]
  /\ writes' = writes + 1
  /\ UNCHANGED <<tasks, spec, ident, sem, ever, claimVars, docCrashes, externals>>

ApplyTasks ==
  /\ job.pc = "multi"
  /\ tasks' = job.tasks /\ ever' = ever \cup job.tasks
  /\ job' = [job EXCEPT !.pc = "tasks"]
  /\ UNCHANGED <<spec, ident, sem, multi>>
  /\ UNCHANGED <<claimVars, bounds>>

ApplySpec ==
  /\ job.pc = "tasks"
  /\ spec' = job.spec
  /\ job' = [job EXCEPT !.pc = "spec"]
  /\ UNCHANGED <<tasks, ident, sem, multi, ever>>
  /\ UNCHANGED <<claimVars, bounds>>

ApplyIdentity ==
  /\ job.pc = "spec"
  /\ ident' = job.ident
  /\ job' = [job EXCEPT !.pc = "multi_identity"]
  /\ UNCHANGED <<tasks, spec, sem, multi, ever>>
  /\ UNCHANGED <<claimVars, bounds>>

ApplyDone ==
  /\ job.pc = "multi_identity"
  /\ multi' = NoJournal
  /\ job' = NoJob
  /\ proposal' = [proposal EXCEPT !.st = "applied"]
  /\ UNCHANGED <<tasks, spec, ident, sem, ever, claimState, approved, rebound, legacy, bounds>>

-----------------------------------------------------------------------------
(* External edit mode, approval, repair, crash.                             *)

BeginEdit ==
  /\ Unlocked /\ Recovered /\ claimState = "ACTIVE" /\ externals < MaxExternal
  /\ claimState' = "EXTERNAL_EDIT"
  /\ ident' = [ident EXCEPT !.active = @ \cup tasks]
  /\ externals' = externals + 1
  /\ UNCHANGED <<tasks, spec, sem, multi, ever, job, approved, proposal, rebound,
                 legacy, docCrashes, writes>>

\* The operator's editor takes no lock.
EditTasks ==
  /\ claimState = "EXTERNAL_EDIT"
  /\ \E after \in SUBSET Ids :
       tasks' = after /\ ever' = ever \cup after
  /\ UNCHANGED <<spec, ident, sem, multi, job, claimVars, bounds>>

\* Introduced ids and removed approved work are refused; removed ids retire.
ExternalReconciles ==
  /\ tasks \subseteq ident.active
  /\ (approved \cap ident.active) \subseteq tasks

EndEdit ==
  /\ Unlocked /\ Recovered /\ claimState = "EXTERNAL_EDIT"
  /\ IF ExternalReconciles
     THEN /\ ident' = Ledger(tasks, ident.retired \cup (ident.active \ tasks))
          /\ claimState' \in {"ACTIVE", "REPAIR_REQUIRED"}
     ELSE claimState' = "REPAIR_REQUIRED" /\ UNCHANGED ident
  /\ UNCHANGED <<tasks, spec, sem, multi, ever, job, approved, proposal, rebound,
                 legacy, bounds>>

\* A repair binds the claim again, with a new fence, as ACTIVE.
RepairClaim ==
  /\ claimState = "REPAIR_REQUIRED"
  /\ claimState' = "ACTIVE" /\ rebound' = TRUE
  /\ UNCHANGED <<approved, proposal, legacy, job>>
  /\ UNCHANGED <<files, bounds>>

ApproveTasks ==
  /\ Unlocked /\ Recovered /\ claimState = "ACTIVE"
  /\ approved' = tasks
  /\ UNCHANGED <<claimState, proposal, rebound, legacy, job>>
  /\ UNCHANGED <<files, bounds>>

\* The lock goes with the process; files, stages and journals stay.
WriterCrash ==
  /\ ~Unlocked /\ docCrashes < MaxDocCrashes
  /\ job' = NoJob
  /\ docCrashes' = docCrashes + 1
  /\ UNCHANGED <<files, claimVars, writes, externals>>

-----------------------------------------------------------------------------
(* A legacy ticket superseded by the change.                                *)

legacyOnly == <<files, job, claimState, approved, proposal, rebound, bounds>>

\* A run takes its lease, is recognised as ordinary work, starts, ends.
LegacyLease ==
  /\ legacy.run = Absent /\ legacy.st = "open"
  /\ legacy' = [legacy EXCEPT !.run = "leased"]
  /\ UNCHANGED legacyOnly

\* A conversion makes the ticket managed and not runnable.
LegacyStart ==
  /\ legacy.run = "leased"
  /\ legacy' = [legacy EXCEPT !.run = IF legacy.conv = Absent THEN "up" ELSE Absent]
  /\ UNCHANGED legacyOnly

LegacyEnds ==
  /\ legacy.run = "up"
  /\ legacy' = [legacy EXCEPT !.run = Absent]
  /\ UNCHANGED legacyOnly

\* The reservation is refused while the source has an active run row.  (A
\* lease taken before it and recognised after it is refused at the start.)
ReserveConversion ==
  /\ legacy.conv = Absent /\ legacy.run = Absent
  /\ legacy' = [legacy EXCEPT !.conv = "RESERVED"]
  /\ UNCHANGED legacyOnly

\* The source is parked, and only then is the conversion complete.
ParkLegacy ==
  /\ legacy.conv = "RESERVED"
  /\ legacy' = [legacy EXCEPT !.st = "parked",
                  !.conv = IF legacy.st = "parked" THEN "COMPLETE" ELSE @]
  /\ UNCHANGED legacyOnly

-----------------------------------------------------------------------------
WriterStep ==
  \/ CreateTask \/ DeleteTask \/ RestoreTask
  \/ WriteJournal \/ ReplaceDocument \/ ReplaceIdentity \/ Unlink

RecoveryStep == BeginRecovery \/ RecoverDocument \/ RecoverIdentity \/ RecoverUnlink

ProposalStep ==
  \/ CompleteProposal \/ ApplyProposal \/ ApplyTasks \/ ApplySpec \/ ApplyIdentity \/ ApplyDone

OperatorStep ==
  \/ BeginEdit \/ EditTasks \/ EndEdit \/ RepairClaim \/ ApproveTasks

LegacyStep == LegacyLease \/ LegacyStart \/ LegacyEnds \/ ReserveConversion \/ ParkLegacy

NextDocs == WriterStep \/ RecoveryStep \/ ProposalStep \/ OperatorStep \/ LegacyStep \/ WriterCrash

DocsSpec == InitDocs /\ [][NextDocs]_docVars

-----------------------------------------------------------------------------
Quiet == Unlocked /\ Recovered /\ claimState = "ACTIVE" /\ ~rebound

(* Whatever crash interrupted a writer, once the change is recovered its    *)
(* work items are exactly the ids the ledger holds active (documents.py     *)
(* _atomic_semantic_write, _atomic_multi_document_write and their recovery). *)
(* No id that was ever in the plan is forgotten: it stays active or retired, *)
(* so that the host never mints it for another work item (documents.py       *)
(* _reconcile_work_items, _mint_work_item_id).  Ids an external editor        *)
(* invented and removed again within one edit were never the host's.          *)
NeverTorn ==
  Quiet => /\ tasks = ident.active
           /\ externals = 0 => ever \subseteq ident.active \cup ident.retired

(* Approved work leaves the plan only through the reviewed cancellation     *)
(* (documents.py patch_document, patch_wbs, end_external_edit).             *)
ApprovedWorkStays == Quiet => approved \subseteq tasks

(* A ticket superseded by planning has no run of its own, and starts none   *)
(* (handoff.py convert_legacy against attempt.py's recognition).            *)
SupersededIsIdle == legacy.conv # Absent => legacy.run # "up"

(* "EXTERNAL_EDIT blocks browser and assistant writes"                       *)
(* (docs/pm-workspace-operations.md:8): while the operator edits, no step of *)
(* the service changes a document.                                          *)
ExternalEditBlocksWrites ==
  [][claimState = "EXTERNAL_EDIT" /\ job' # job => tasks' = tasks /\ spec' = spec]_docVars

===============================================================================
