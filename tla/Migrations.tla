----------------------------- MODULE Migrations -----------------------------
(***************************************************************************)
(* The upgrade of a board's state.db (orchestrator/migrations.py), run by  *)
(* every process that opens the registry, several at once included.  Each  *)
(* reads the version outside any lock, backs the database up if the        *)
(* upgrade will withdraw something, and applies the migrations one by one, *)
(* each in a transaction that re-reads the version.                        *)
(*                                                                         *)
(* The schema is abstracted to the groups of tables and columns a version  *)
(* adds; of the rows it keeps whether there are runs, and one application  *)
(* release gate, the data that migrations 5 and 6 rewrite.                 *)
(***************************************************************************)
EXTENDS Naturals, FiniteSets

CONSTANTS
  Procs,       \* processes that open the registry
  MaxFaults,   \* bound: crashes, failed statements, lock timeouts
  MaxWork      \* bound: gate operations of processes that have the registry open

VARIABLES
  db,        \* the committed database: [ver, has, runs, gate]
  txn,       \* the database as the open transaction sees it
  lock,      \* the process in BEGIN IMMEDIATE, or None
  proc,      \* by process: [pc, seen: version read, next: migration]
  backups,   \* databases that were copied
  lost,      \* ghost: gates a migration has withdrawn
  faults, work

vars == <<db, txn, lock, proc, backups, lost, faults, work>>

None == "none"
Latest == 9

ASSUME MigrationsAssumption ==
  None \notin Procs /\ MaxFaults \in Nat /\ MaxWork \in Nat

NoGate == [status |-> "none", proof |-> 0, bound |-> FALSE]
Pending == [status |-> "pending", proof |-> 0, bound |-> FALSE]
Approved(proof, bound) == [status |-> "approved", proof |-> proof, bound |-> bound]
Completed(proof) == [status |-> "completed", proof |-> proof, bound |-> TRUE]

\* proof: the version whose evidence a gate rests on; bound: to a finalizer's run.
Gate ==
  [status : {"none", "pending", "approved", "completed"}, proof : 0..6, bound : BOOLEAN]
Database == [ver : 0..Latest, has : SUBSET (1..Latest), runs : BOOLEAN, gate : Gate]
Starter ==
  [pc : {"off", "plan", "next", "applied", "up"}, seen : 0..Latest, next : 0..(Latest + 1)]

TypeOK ==
  /\ db \in Database /\ txn \in Database /\ lock \in Procs \cup {None}
  /\ proc \in [Procs -> Starter] /\ backups \subseteq Database /\ lost \subseteq Gate
  /\ faults \in 0..MaxFaults /\ work \in 0..MaxWork

\* Databases of released builds: a new one, one that predates versions, one
\* with gates of version 4 or 5, and a repaired one that recorded version 1
\* and lost its tables.
Released ==
  {[ver |-> 0, has |-> {}, runs |-> FALSE, gate |-> NoGate],
   [ver |-> 0, has |-> {1}, runs |-> TRUE, gate |-> NoGate],
   [ver |-> 6, has |-> 2..6, runs |-> FALSE, gate |-> NoGate]}
  \cup [ver : {4}, has : {1..4}, runs : {TRUE},
        gate : {Pending, Approved(4, FALSE), Approved(4, TRUE)}]
  \cup [ver : {5}, has : {1..5}, runs : {TRUE},
        gate : {Pending, Approved(5, FALSE), Approved(5, TRUE), Completed(5)}]

Init ==
  /\ db \in Released /\ txn = db /\ lock = None
  /\ proc = [p \in Procs |-> [pc |-> "off", seen |-> 0, next |-> 0]]
  /\ backups = {} /\ lost = {} /\ faults = 0 /\ work = 0
-----------------------------------------------------------------------------
(* The migrations, each a function from a database to a database.          *)

Adds(d, group) == [d EXCEPT !.has = @ \cup {group}]

Baseline(d) == Adds(d, 1)
LegacyFlowTables(d) == Adds(d, 2)
ReleaseGates(d) == Adds(d, 3)
FinalizerRunBinding(d) == Adds(d, 4)

Withdrawn(d) == [d EXCEPT !.gate = IF @ = NoGate THEN @ ELSE Pending]

\* No gate row predating provenance keeps its approval.
ReleaseProvenance(d) == Withdrawn(Adds(d, 5))

\* A completion, or an approval bound to a finalizer's run, has no ticket
\* version to prove it.
ReleaseCycleAuthority(d) ==
  LET a == Adds(d, 6)
  IN  IF d.gate.bound THEN Withdrawn(a) ELSE a

\* The two that extend runs recreate the baseline if its tables are gone.
WithRuns(d) == IF 1 \in d.has THEN d ELSE Baseline(d)
RunExplorer(d) == Adds(WithRuns(d), 7)
DurableContinuation(d) == Adds(WithRuns(d), 8)
PmWorkspace(d) == Adds(d, 9)

Apply(v, d) ==
  CASE v = 1 -> Baseline(d)
    [] v = 2 -> LegacyFlowTables(d)
    [] v = 3 -> ReleaseGates(d)
    [] v = 4 -> FinalizerRunBinding(d)
    [] v = 5 -> ReleaseProvenance(d)
    [] v = 6 -> ReleaseCycleAuthority(d)
    [] v = 7 -> RunExplorer(d)
    [] v = 8 -> DurableContinuation(d)
    [] v = 9 -> PmWorkspace(d)
-----------------------------------------------------------------------------
(* apply_migrations.                                                       *)

At(p, pc) == proc[p].pc = pc
Goes(p, pc) == proc' = [proc EXCEPT ![p].pc = pc]

\* The optimistic read of the version.
ReadVersion(p) ==
  /\ At(p, "off")
  /\ proc' = [proc EXCEPT ![p] =
       [pc |-> IF db.ver = Latest THEN "up" ELSE "plan", seen |-> db.ver, next |-> db.ver + 1]]
  /\ UNCHANGED <<db, txn, lock, backups, lost, faults, work>>

HasRuns == 1 \in db.has /\ db.runs
HasGates == 3 \in db.has /\ db.gate # NoGate

NeedsBackup(seen) == (seen < 2 /\ HasRuns) \/ (seen < 6 /\ HasGates)

Backup(p) ==
  /\ At(p, "plan")
  /\ backups' = IF NeedsBackup(proc[p].seen) THEN backups \cup {db} ELSE backups
  /\ Goes(p, "next")
  /\ UNCHANGED <<db, txn, lock, lost, faults, work>>

After(p) ==
  IF proc[p].next = Latest THEN [proc[p] EXCEPT !.pc = "up"]
  ELSE [proc[p] EXCEPT !.pc = "next", !.next = @ + 1]

\* Mutant: what the process read before the lock decides.
MutantDone(p) == proc[p].seen >= proc[p].next

\* Another process has applied the migration meanwhile.
AlreadyDone(p) == db.ver >= proc[p].next

Skip(p) ==
  /\ At(p, "next") /\ lock = None /\ AlreadyDone(p)
  /\ proc' = [proc EXCEPT ![p] = After(p)]
  /\ UNCHANGED <<db, txn, lock, backups, lost, faults, work>>

Begin(p) ==
  /\ At(p, "next") /\ lock = None /\ ~AlreadyDone(p)
  /\ lock' = p /\ txn' = Apply(proc[p].next, db) /\ Goes(p, "applied")
  /\ UNCHANGED <<db, backups, lost, faults, work>>

Commit(p) ==
  /\ At(p, "applied")
  /\ db' = [txn EXCEPT !.ver = proc[p].next] /\ txn' = db' /\ lock' = None
  /\ proc' = [proc EXCEPT ![p] = After(p)]
  /\ lost' = IF txn.gate # db.gate THEN lost \cup {db.gate} ELSE lost
  /\ UNCHANGED <<backups, faults, work>>

Ends(p) == faults < MaxFaults /\ faults' = faults + 1 /\ Goes(p, "off")

RolledBack == txn' = db /\ UNCHANGED db

\* A statement fails, or the host crashes, inside a transaction.
Rollback(p) ==
  /\ At(p, "applied") /\ Ends(p) /\ lock' = None /\ RolledBack
  /\ UNCHANGED <<backups, lost, work>>

\* A crash outside one, or BEGIN IMMEDIATE times out on another's lock.
Stops(p) ==
  /\ proc[p].pc \in {"plan", "next", "up"} /\ Ends(p)
  /\ UNCHANGED <<db, txn, lock, backups, lost, work>>
-----------------------------------------------------------------------------
(* A process that has the registry open at the latest version.             *)

Works(p, gate) ==
  /\ At(p, "up") /\ lock = None /\ work < MaxWork /\ work' = work + 1
  /\ db' = [db EXCEPT !.gate = gate] /\ txn' = db'
  /\ UNCHANGED <<lock, proc, backups, lost, faults>>

PersistPending(p) == db.gate = NoGate /\ Works(p, Pending)
Approve(p) == db.gate = Pending /\ Works(p, Approved(6, FALSE))
Bind(p) == db.gate.status = "approved" /\ ~db.gate.bound /\ Works(p, [db.gate EXCEPT !.bound = TRUE])
Complete(p) == db.gate.status = "approved" /\ db.gate.bound /\ Works(p, Completed(6))

Next ==
  \E p \in Procs :
    \/ ReadVersion(p) \/ Backup(p) \/ Skip(p) \/ Begin(p) \/ Commit(p)
    \/ Rollback(p) \/ Stops(p)
    \/ PersistPending(p) \/ Approve(p) \/ Bind(p) \/ Complete(p)

Spec == Init /\ [][Next]_vars
-----------------------------------------------------------------------------
(***************************************************************************)
(* A crash or an error in an upgrade leaves the database at the last fully *)
(* applied version: no migration is recorded and missing, none is there    *)
(* and unrecorded (apply_migrations; the tables of version 1 are older     *)
(* than the record, and are restored by version 7 if they were lost).      *)
(***************************************************************************)
NotHalfMigrated ==
  /\ db.has \ {1} = 2..db.ver
  /\ (db.ver >= 7) => 1 \in db.has

(***************************************************************************)
(* A migration withdraws only what its version cannot prove: an approval   *)
(* given after the upgrade outlives every slower starter that still        *)
(* believes the old version (the re-read under BEGIN IMMEDIATE).           *)
(***************************************************************************)
NewApprovalStays == \A g \in lost : g.proof < 6

(***************************************************************************)
(* What a migration withdraws is in a backup, whichever process took it    *)
(* and whichever crashed in between (the three backup conditions of        *)
(* apply_migrations).                                                      *)
(***************************************************************************)
LossIsBackedUp == \A g \in lost \ {Pending} : \E b \in backups : b.gate = g
=============================================================================
