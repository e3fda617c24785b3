------------------------------- MODULE PmArchive -------------------------------
(***************************************************************************)
(* Archiving an accepted planning change: a journal is prepared, OpenSpec  *)
(* merges the change into the baseline specs and moves its directory, the  *)
(* result is compared with the simulated one, the journal is completed and *)
(* the planning claim released.  Any step may be interrupted; the same     *)
(* operation is then retried, possibly by two requests at once.            *)
(***************************************************************************)
EXTENDS Naturals, FiniteSets

CONSTANTS Specs,        \* baseline spec files the change touches
          Requests,     \* concurrent requests with one operation id
          MaxCrashes, MaxForeign

VARIABLES source,     \* the change directory is in place
          target,     \* the archived directory is in place
          baseline,   \* content of every baseline file
          journal,    \* the operation's journal
          claim,      \* state of the planning claim
          lock,       \* holder of the change authority lock
          req,        \* program point of every request
          crashes, foreign

vars == <<source, target, baseline, journal, claim, lock, req, crashes, foreign>>

None == "none"
NoJournal == [st |-> None]

\* OpenSpec merges the change into whatever the file holds.  "other" is text
\* somebody else wrote; its merge keeps that text.
HoldsOther(content) == content \in {"other", "other_merged"}
Merge(content) == IF HoldsOther(content) THEN "other_merged" ELSE "merged"

TypeOK ==
  /\ source \in BOOLEAN /\ target \in BOOLEAN
  /\ baseline \in [Specs -> {"old", "merged", "other", "other_merged"}]
  /\ journal.st \in {None, "PREPARED", "RECONCILE", "COMPLETED"}
  /\ claim \in {"ACTIVE", "RELEASED"}
  /\ lock \in Requests \cup {None}

Init ==
  /\ source = TRUE /\ target = FALSE
  /\ baseline = [f \in Specs |-> "old"]
  /\ journal = NoJournal
  /\ claim = "ACTIVE" /\ lock = None
  /\ req = [r \in Requests |-> [pc |-> "idle"]]
  /\ crashes = 0 /\ foreign = 0

At(r, pc) == req[r].pc = pc
Goto(r, pc) == req' = [req EXCEPT ![r].pc = pc]
tree == <<source, target, baseline>>
bounds == <<crashes, foreign>>

\* _archive_effects_match and the moved directory.
EffectsMatch(record) == target /\ ~source /\ baseline = record.expected

-----------------------------------------------------------------------------
\* The journal is looked up before the lock is taken.
ApplyArchive(r) ==
  /\ At(r, "idle")
  /\ req' = [req EXCEPT ![r] = [pc |-> IF journal.st = None THEN "fresh" ELSE "replay",
                                record |-> journal]]
  /\ UNCHANGED <<tree, journal, claim, lock, bounds>>

\* A fresh archive: preview, simulate, prepare the journal.  A change that is
\* gone or released refuses the preview.
Prepare(r) ==
  /\ At(r, "fresh") /\ lock = None
  /\ IF claim = "ACTIVE" /\ source
     THEN /\ journal' = [st |-> "PREPARED", before |-> baseline,
                         expected |-> [f \in Specs |-> Merge(baseline[f])]]
          /\ lock' = r
          /\ req' = [req EXCEPT ![r] = [pc |-> "archive", record |-> journal']]
     ELSE /\ Goto(r, "idle")
          /\ UNCHANGED <<journal, lock>>
  /\ UNCHANGED <<tree, claim, bounds>>

\* OpenSpec writes the baseline file by file and moves the directory last.
WriteBaseline(r, f) ==
  /\ At(r, "archive") /\ baseline[f] # req[r].record.expected[f]
  /\ baseline' = [baseline EXCEPT ![f] = Merge(@)]
  /\ UNCHANGED <<source, target, journal, claim, lock, req, bounds>>

MoveChange(r) ==
  /\ At(r, "archive") /\ baseline = req[r].record.expected
  /\ source' = FALSE /\ target' = TRUE
  /\ Goto(r, "check")
  /\ UNCHANGED <<baseline, journal, claim, lock, bounds>>

\* OpenSpec fails half way, or its result is not the simulated one: the
\* journal is marked and the lock given back.
ArchiveFails(r) ==
  /\ At(r, "archive") \/ At(r, "check")
  /\ crashes < MaxCrashes
  /\ journal' = [journal EXCEPT !.st = "RECONCILE"]
  /\ lock' = None
  /\ Goto(r, "idle")
  /\ crashes' = crashes + 1
  /\ UNCHANGED <<tree, claim, foreign>>

CompleteJournal(r) ==
  /\ At(r, "check") /\ EffectsMatch(req[r].record)
  /\ journal' = [req[r].record EXCEPT !.st = "COMPLETED"]
  /\ Goto(r, "release")
  /\ UNCHANGED <<tree, claim, lock, bounds>>

\* The claim is released under its fence; releasing twice changes nothing.
ReleaseClaim(r) ==
  /\ At(r, "release")
  /\ claim' = "RELEASED"
  /\ lock' = None
  /\ Goto(r, "idle")
  /\ UNCHANGED <<tree, journal, bounds>>

-----------------------------------------------------------------------------
(* Replays of the same operation.                                           *)

\* Prepared, and nothing has happened yet: the journal is dropped and the
\* archive starts afresh.
NeverStarted(record) ==
  /\ record.st \in {"PREPARED", "RECONCILE"}
  /\ source /\ ~target /\ baseline = record.before

MutantRollable(record) ==
  /\ record.st \in {"PREPARED", "RECONCILE"}
  /\ source # target
  /\ \A f \in Specs : baseline[f] \in {record.before[f], record.expected[f]}
  /\ target

\* Only a prefix of the prepared archive is completed; anything else that is
\* in the way is left to the operator.
Rollable(record) ==
  /\ record.st \in {"PREPARED", "RECONCILE"}
  /\ source # target
  /\ \A f \in Specs : baseline[f] \in {record.before[f], record.expected[f]}

Replay(r) ==
  /\ At(r, "replay") /\ lock = None
  /\ LET record == req[r].record IN
     IF record.st = "COMPLETED"
     THEN /\ IF EffectsMatch(record)
             THEN Goto(r, "release") /\ lock' = r
             ELSE Goto(r, "idle") /\ UNCHANGED lock
          /\ UNCHANGED journal
     ELSE IF NeverStarted(record)
     THEN /\ journal' = NoJournal      \* unlinking a journal twice fails
          /\ Goto(r, IF journal.st = None THEN "idle" ELSE "fresh")
          /\ UNCHANGED lock
     ELSE /\ IF EffectsMatch(record) THEN Goto(r, "reconciled") /\ lock' = r
             ELSE IF Rollable(record) THEN Goto(r, "roll") /\ lock' = r
             ELSE Goto(r, "idle") /\ UNCHANGED lock
          /\ UNCHANGED journal
  /\ UNCHANGED <<tree, claim, bounds>>

\* Roll forward: the files not reached yet, then the directory.
RollBaseline(r, f) ==
  /\ At(r, "roll") /\ baseline[f] # req[r].record.expected[f]
  /\ baseline' = [baseline EXCEPT ![f] = req[r].record.expected[f]]
  /\ UNCHANGED <<source, target, journal, claim, lock, req, bounds>>

RollMove(r) ==
  /\ At(r, "roll") /\ baseline = req[r].record.expected
  /\ source' = FALSE /\ target' = TRUE
  /\ Goto(r, "reconciled")
  /\ UNCHANGED <<baseline, journal, claim, lock, bounds>>

\* A replay releases the claim first and completes the journal last.
Reconciled(r) ==
  /\ At(r, "reconciled")
  /\ claim' = "RELEASED"
  /\ Goto(r, "journal")
  /\ UNCHANGED <<tree, journal, lock, bounds>>

ReconciledJournal(r) ==
  /\ At(r, "journal")
  /\ journal' = [req[r].record EXCEPT !.st = "COMPLETED"]
  /\ lock' = None
  /\ Goto(r, "idle")
  /\ UNCHANGED <<tree, claim, bounds>>

-----------------------------------------------------------------------------
Crash ==
  /\ crashes < MaxCrashes
  /\ lock' = None
  /\ req' = [r \in Requests |-> [pc |-> "idle"]]
  /\ crashes' = crashes + 1
  /\ UNCHANGED <<tree, journal, claim, foreign>>

\* Somebody else writes a baseline file while no archive of this change runs.
ForeignEdit(f) ==
  /\ lock = None /\ foreign < MaxForeign
  /\ baseline' = [baseline EXCEPT ![f] = "other"]
  /\ foreign' = foreign + 1
  /\ UNCHANGED <<source, target, journal, claim, lock, req, crashes>>

RequestStep(r) ==
  \/ ApplyArchive(r) \/ Prepare(r) \/ MoveChange(r) \/ CompleteJournal(r) \/ ReleaseClaim(r)
  \/ Replay(r) \/ RollMove(r) \/ Reconciled(r) \/ ReconciledJournal(r)
  \/ \E f \in Specs : WriteBaseline(r, f) \/ RollBaseline(r, f)

Next ==
  \/ \E r \in Requests : RequestStep(r) \/ ArchiveFails(r)
  \/ \E f \in Specs : ForeignEdit(f)
  \/ Crash

\* The client keeps retrying; a request that started runs to its end.
Spec == Init /\ [][Next]_vars /\ \A r \in Requests : SF_vars(RequestStep(r))

-----------------------------------------------------------------------------
(* A released claim has its change archived: directory moved, none left      *)
(* behind, whatever interrupted the archive (application.py apply_archive).   *)
ReleasedIsArchived == claim = "RELEASED" => target /\ ~source

(* Text somebody else wrote into the baseline survives every retry           *)
(* (application.py _roll_archive_forward: "never overwritten").              *)
OthersTextKept ==
  \A f \in Specs : HoldsOther(baseline[f]) => HoldsOther(baseline'[f])

Prepared == journal.st # None
Resolved == claim = "RELEASED" \/ \E f \in Specs : HoldsOther(baseline[f])

(* An archive whose journal is prepared is finished by retries, from every   *)
(* prefix a crash left, unless other text is in the way.                     *)
ArchiveFinishes == Prepared ~> Resolved

===============================================================================
