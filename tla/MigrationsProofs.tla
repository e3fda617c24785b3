-------------------------- MODULE MigrationsProofs --------------------------
(***************************************************************************)
(* Proofs about the upgrade of the registry, for any number of processes   *)
(* that open it: the recorded version is the schema's, nothing an upgraded *)
(* process approved is withdrawn, and what is withdrawn is in a backup.    *)
(*                                                                         *)
(* The argument is about a process that is slow.  While it prepares or     *)
(* holds a transaction its next migration is at most one past the version  *)
(* in the database, because versions only grow; so the one it applies is   *)
(* the one that is due.  Evidence of version 6 exists only once every      *)
(* migration is in, and before that a gate changes only by being           *)
(* withdrawn: the gate a slow process withdraws is the one it copied.      *)
(***************************************************************************)
EXTENDS Migrations, TLAPS

(* The schema of a database is that of its version. *)
Whole(d) ==
  /\ d.has \ {1} = 2..d.ver
  /\ d.ver >= 7 => 1 \in d.has

GateSound(d) ==
  /\ d.gate # NoGate => 3 \in d.has
  /\ d.gate.proof >= 6 => d.ver = Latest

(* A process s with name p, over the database d and the transaction t held *)
(* by l.                                                                   *)
StarterSound(s, p, d, t, l) ==
  /\ s.pc = "applied" <=> l = p
  /\ s.pc \in {"plan", "next", "applied"} =>
       s.seen < s.next /\ s.next <= d.ver + 1 /\ s.next <= Latest
  /\ s.pc = "up" => d.ver = Latest
  /\ s.pc = "applied" => d.ver < s.next /\ t = Apply(s.next, d)

(* A process past its backup has a copy of a gate it may withdraw. *)
Copied(s, d, copies) ==
  s.pc \in {"next", "applied"} /\ s.seen < 6 /\ d.ver < 6 /\ d.gate \notin {NoGate, Pending} =>
    \E b \in copies : b.gate = d.gate

IInv ==
  /\ TypeOK
  /\ Whole(db) /\ GateSound(db)
  /\ \A p \in Procs : StarterSound(proc[p], p, db, txn, lock)
  /\ \A p \in Procs : Copied(proc[p], db, backups)
  /\ NewApprovalStays /\ LossIsBackedUp

-----------------------------------------------------------------------------
(* The migrations. *)

LEMMA GateFacts ==
  /\ NoGate \in Gate /\ Pending \in Gate /\ Pending # NoGate
  /\ NoGate.proof = 0 /\ Pending.proof = 0
  BY DEF Gate, NoGate, Pending

LEMMA AddsFacts ==
  ASSUME NEW d \in Database, NEW g \in 1..Latest
  PROVE  /\ Adds(d, g) \in Database
         /\ Adds(d, g).ver = d.ver /\ Adds(d, g).gate = d.gate
         /\ Adds(d, g).has = d.has \cup {g}
  BY DEF Adds, Database

LEMMA WithdrawnFacts ==
  ASSUME NEW d \in Database
  PROVE  /\ Withdrawn(d) \in Database
         /\ Withdrawn(d).ver = d.ver /\ Withdrawn(d).has = d.has
         /\ Withdrawn(d).gate \in {d.gate, Pending}
         /\ d.gate = NoGate => Withdrawn(d).gate = NoGate
<1>1. CASE d.gate = NoGate
  <2>1. Withdrawn(d) = d
    BY <1>1 DEF Withdrawn, Database
  <2> QED BY <1>1, <2>1
<1>2. CASE d.gate # NoGate
  <2>1. Withdrawn(d) = [d EXCEPT !.gate = Pending]
    BY <1>2 DEF Withdrawn, Database
  <2> QED BY <1>2, <2>1, GateFacts DEF Database
<1> QED BY <1>1, <1>2

(* What migration v may change. *)
Migrated(v, d, e) ==
  /\ e \in Database /\ e.ver = d.ver
  /\ v \in e.has /\ e.has \ {1} = (d.has \cup {v}) \ {1}
  /\ (1 \in d.has \/ v \in {1, 7, 8}) => 1 \in e.has
  /\ e.gate \in {d.gate, Pending}
  /\ (d.gate = NoGate \/ v \notin {5, 6}) => e.gate = d.gate

LEMMA RunsFacts ==
  ASSUME NEW d \in Database
  PROVE  /\ WithRuns(d) \in Database
         /\ WithRuns(d).ver = d.ver /\ WithRuns(d).gate = d.gate
         /\ WithRuns(d).has = d.has \cup {1}
  BY AddsFacts DEF WithRuns, Baseline, Latest, Database

LEMMA ApplyMigrates ==
  ASSUME NEW d \in Database, NEW v \in 1..Latest
  PROVE  Migrated(v, d, Apply(v, d))
<1>1. CASE v \in {1, 2, 3, 4, 9}
  <2>1. Apply(v, d) = Adds(d, v)
    BY <1>1 DEF Apply, Baseline, LegacyFlowTables, ReleaseGates, FinalizerRunBinding, PmWorkspace
  <2> QED BY <1>1, <2>1, AddsFacts DEF Migrated
<1>2. CASE v = 5
  <2>1. Apply(v, d) = Withdrawn(Adds(d, 5))
    BY <1>2 DEF Apply, ReleaseProvenance
  <2>2. Adds(d, 5) \in Database /\ Adds(d, 5).ver = d.ver /\ Adds(d, 5).gate = d.gate
        /\ Adds(d, 5).has = d.has \cup {5}
    BY AddsFacts DEF Latest
  <2> QED BY <1>2, <2>1, <2>2, WithdrawnFacts DEF Migrated
<1>3. CASE v = 6
  <2>1. Apply(v, d) \in {Adds(d, 6), Withdrawn(Adds(d, 6))}
    BY <1>3 DEF Apply, ReleaseCycleAuthority
  <2>2. Adds(d, 6) \in Database /\ Adds(d, 6).ver = d.ver /\ Adds(d, 6).gate = d.gate
        /\ Adds(d, 6).has = d.has \cup {6}
    BY AddsFacts DEF Latest
  <2> QED BY <1>3, <2>1, <2>2, WithdrawnFacts DEF Migrated
<1>4. CASE v \in {7, 8}
  <2> DEFINE r == WithRuns(d)
  <2>1. Apply(v, d) = Adds(r, v)
    BY <1>4 DEF Apply, RunExplorer, DurableContinuation
  <2>2. r \in Database /\ r.ver = d.ver /\ r.gate = d.gate /\ r.has = d.has \cup {1}
    BY RunsFacts
  <2> HIDE DEF r
  <2> QED BY <1>4, <2>1, <2>2, AddsFacts DEF Migrated
<1> QED BY <1>1, <1>2, <1>3, <1>4 DEF Latest

-----------------------------------------------------------------------------
(* The steps. *)

LEMMA InitSound == Init => IInv
<1> SUFFICES ASSUME Init PROVE IInv OBVIOUS
<1>1. db \in Database /\ Whole(db) /\ GateSound(db)
  <2> DEFINE early == [ver : {4}, has : {1..4}, runs : {TRUE},
                       gate : {Pending, Approved(4, FALSE), Approved(4, TRUE)}]
             late == [ver : {5}, has : {1..5}, runs : {TRUE},
                      gate : {Pending, Approved(5, FALSE), Approved(5, TRUE), Completed(5)}]
  <2>0. NoGate \in Gate /\ NoGate.proof = 0
    BY GateFacts
  <2>1. CASE db = [ver |-> 0, has |-> {}, runs |-> FALSE, gate |-> NoGate]
    BY <2>0, <2>1 DEF Database, Whole, GateSound, Latest
  <2>2. CASE db = [ver |-> 0, has |-> {1}, runs |-> TRUE, gate |-> NoGate]
    BY <2>0, <2>2 DEF Database, Whole, GateSound, Latest
  <2>3. CASE db = [ver |-> 6, has |-> 2..6, runs |-> FALSE, gate |-> NoGate]
    BY <2>0, <2>3 DEF Database, Whole, GateSound, Latest
  <2>4. CASE db \in early
    <3> DEFINE g == db.gate
    <3>1. /\ db = [ver |-> 4, has |-> 1..4, runs |-> TRUE, gate |-> g]
          /\ g \in {Pending, Approved(4, FALSE), Approved(4, TRUE)}
      BY <2>4
    <3> HIDE DEF g
    <3>2. g \in Gate /\ g.proof \in 0..5
      <4>1. CASE g = Pending
        BY <4>1 DEF Gate, Pending
      <4>2. CASE g = Approved(4, FALSE)
        BY <4>2 DEF Gate, Approved
      <4>3. CASE g = Approved(4, TRUE)
        BY <4>3 DEF Gate, Approved
      <4> QED BY <3>1, <4>1, <4>2, <4>3
    <3>3. db.ver = 4 /\ db.has = 1..4 /\ db.gate = g
      BY <3>1
    <3>4. db \in Database
      BY <3>1, <3>2 DEF Database, Latest
    <3>5. Whole(db)
      BY <3>3 DEF Whole
    <3> QED BY <3>2, <3>3, <3>4, <3>5 DEF GateSound
  <2>5. CASE db \in late
    <3> DEFINE g == db.gate
    <3>1. /\ db = [ver |-> 5, has |-> 1..5, runs |-> TRUE, gate |-> g]
          /\ g \in {Pending, Approved(5, FALSE), Approved(5, TRUE), Completed(5)}
      BY <2>5
    <3> HIDE DEF g
    <3>2. g \in Gate /\ g.proof \in 0..5
      <4>1. CASE g = Pending
        BY <4>1 DEF Gate, Pending
      <4>2. CASE g = Approved(5, FALSE)
        BY <4>2 DEF Gate, Approved
      <4>3. CASE g = Approved(5, TRUE)
        BY <4>3 DEF Gate, Approved
      <4>4. CASE g = Completed(5)
        BY <4>4 DEF Gate, Completed
      <4> QED BY <3>1, <4>1, <4>2, <4>3, <4>4
    <3>3. db.ver = 5 /\ db.has = 1..5 /\ db.gate = g
      BY <3>1
    <3>4. db \in Database
      BY <3>1, <3>2 DEF Database, Latest
    <3>5. Whole(db)
      BY <3>3 DEF Whole
    <3> QED BY <3>2, <3>3, <3>4, <3>5 DEF GateSound
  <2>6. db \in Released
    BY DEF Init
  <2> QED BY <2>1, <2>2, <2>3, <2>4, <2>5, <2>6 DEF Released
<1>2. TypeOK
  BY <1>1, MigrationsAssumption DEF Init, TypeOK, Starter, Latest
<1>3. \A p \in Procs : StarterSound(proc[p], p, db, txn, lock)
  BY MigrationsAssumption DEF Init, StarterSound
<1>4. \A p \in Procs : Copied(proc[p], db, backups)
  BY DEF Init, Copied
<1> QED BY <1>1, <1>2, <1>3, <1>4 DEF Init, IInv, NewApprovalStays, LossIsBackedUp

(* A step of one process that leaves the database alone. *)
LEMMA OneStarter ==
  ASSUME IInv, NEW p \in Procs, NEW s \in Starter,
         proc' = [proc EXCEPT ![p] = s], db' = db, lost' = lost,
         txn' \in Database, lock' \in Procs \cup {None},
         backups \subseteq backups', backups' \subseteq Database,
         faults' \in 0..MaxFaults, work' = work,
         \A q \in Procs \ {p} : StarterSound(proc[q], q, db, txn', lock'),
         StarterSound(s, p, db, txn', lock'),
         Copied(s, db, backups')
  PROVE  IInv'
<1>1. proc' \in [Procs -> Starter] /\ proc'[p] = s /\ \A q \in Procs \ {p} : proc'[q] = proc[q]
  BY DEF IInv, TypeOK
<1>2. TypeOK'
  BY <1>1 DEF IInv, TypeOK
<1>3. \A q \in Procs : StarterSound(proc'[q], q, db', txn', lock')
  BY <1>1
<1>4. \A q \in Procs : Copied(proc'[q], db', backups')
  BY <1>1 DEF IInv, Copied
<1>5. NewApprovalStays' /\ LossIsBackedUp'
  BY DEF IInv, NewApprovalStays, LossIsBackedUp
<1> QED BY <1>2, <1>3, <1>4, <1>5 DEF IInv

LEMMA Members ==
  ASSUME IInv, NEW p \in Procs
  PROVE  /\ proc[p] \in Starter /\ db \in Database /\ txn \in Database
         /\ StarterSound(proc[p], p, db, txn, lock) /\ Copied(proc[p], db, backups)
         /\ \A pc \in {"off", "plan", "next", "applied", "up"} :
              /\ [proc[p] EXCEPT !.pc = pc] \in Starter
              /\ [proc[p] EXCEPT !.pc = pc].pc = pc
              /\ [proc[p] EXCEPT !.pc = pc].seen = proc[p].seen
              /\ [proc[p] EXCEPT !.pc = pc].next = proc[p].next
  BY DEF IInv, TypeOK, Starter

LEMMA GoesIs ==
  ASSUME IInv, NEW p \in Procs, NEW pc, Goes(p, pc)
  PROVE  proc' = [proc EXCEPT ![p] = [proc[p] EXCEPT !.pc = pc]]
  BY DEF IInv, TypeOK, Goes

LEMMA ReadKeeps ==
  ASSUME IInv, NEW p \in Procs, ReadVersion(p)
  PROVE  IInv'
<1> DEFINE s == [pc |-> IF db.ver = Latest THEN "up" ELSE "plan", seen |-> db.ver,
                 next |-> db.ver + 1]
<1>1. db.ver \in 0..Latest
  BY Members DEF Database
<1>2. /\ s \in Starter /\ s.seen = db.ver /\ s.next = db.ver + 1
      /\ s.pc = IF db.ver = Latest THEN "up" ELSE "plan"
  BY <1>1 DEF Starter, Latest
<1>3. proc' = [proc EXCEPT ![p] = s]
  BY DEF ReadVersion
<1> HIDE DEF s
<1>4. lock # p
  BY Members DEF ReadVersion, At, StarterSound
<1>5. StarterSound(s, p, db, txn, lock) /\ Copied(s, db, backups)
  BY <1>1, <1>2, <1>4 DEF StarterSound, Copied, Latest
<1> QED BY <1>2, <1>3, <1>5, OneStarter DEF ReadVersion, IInv, TypeOK

LEMMA BackupKeeps ==
  ASSUME IInv, NEW p \in Procs, Backup(p)
  PROVE  IInv'
<1> DEFINE s == [proc[p] EXCEPT !.pc = "next"]
<1>1. s \in Starter /\ s.pc = "next" /\ s.seen = proc[p].seen /\ s.next = proc[p].next
  BY Members
<1>2. proc' = [proc EXCEPT ![p] = s]
  BY GoesIs DEF Backup
<1>3. StarterSound(s, p, db, txn, lock)
  BY <1>1, Members DEF StarterSound, Backup, At
<1> HIDE DEF s
<1>4. Copied(s, db, backups')
  <2> SUFFICES ASSUME s.seen < 6, db.gate \notin {NoGate, Pending}
               PROVE  \E b \in backups' : b.gate = db.gate
    BY DEF Copied
  <2>1. NeedsBackup(proc[p].seen)
    BY <1>1 DEF NeedsBackup, HasGates, IInv, GateSound
  <2>2. db \in backups'
    BY <2>1 DEF Backup
  <2> QED BY <2>2
<1>5. backups \subseteq backups' /\ backups' \subseteq Database
  BY DEF Backup, IInv, TypeOK
<1> QED BY <1>1, <1>2, <1>3, <1>4, <1>5, OneStarter DEF Backup, IInv, TypeOK

LEMMA AfterFacts ==
  ASSUME NEW p \in Procs, proc \in [Procs -> Starter], proc[p].next \in 1..Latest
  PROVE  /\ After(p) \in Starter /\ After(p).seen = proc[p].seen
         /\ proc[p].next = Latest => After(p).pc = "up"
         /\ proc[p].next # Latest => After(p).pc = "next" /\ After(p).next = proc[p].next + 1
<1> DEFINE s == proc[p]
<1>1. s \in Starter /\ s = proc[p] /\ s.next \in 1..Latest
  OBVIOUS
<1>2. After(p) = IF s.next = Latest THEN [s EXCEPT !.pc = "up"]
                 ELSE [s EXCEPT !.pc = "next", !.next = s.next + 1]
  BY <1>1 DEF After, Starter
<1> HIDE DEF s
<1>3. CASE s.next = Latest
  BY <1>1, <1>2, <1>3 DEF Starter
<1>4. CASE s.next # Latest
  <2> DEFINE n == s.next + 1
  <2>1. n \in 0..(Latest + 1)
    BY <1>1 DEF Latest
  <2>2. After(p) = [s EXCEPT !.pc = "next", !.next = n] /\ n = proc[p].next + 1
    BY <1>1, <1>2, <1>4
  <2> HIDE DEF n
  <2> QED BY <1>1, <1>4, <2>1, <2>2 DEF Starter
<1> QED BY <1>3, <1>4

(* What the plan of a process says when it looks at its next migration. *)
LEMMA PlanFacts ==
  ASSUME IInv, NEW p \in Procs, proc[p].pc \in {"next", "applied"}
  PROVE  /\ proc[p].seen \in 0..Latest /\ db.ver \in 0..Latest
         /\ proc[p].next \in 1..Latest /\ proc[p].seen < proc[p].next
         /\ proc[p].next <= db.ver + 1
         /\ proc[p].pc = "next" <=> lock # p
<1>1. proc[p].seen \in 0..Latest /\ proc[p].next \in 0..(Latest + 1) /\ db.ver \in 0..Latest
  BY Members DEF Starter, Database
<1>2. /\ proc[p].seen < proc[p].next /\ proc[p].next <= db.ver + 1 /\ proc[p].next <= Latest
      /\ proc[p].pc = "applied" <=> lock = p
  BY Members DEF StarterSound
<1> QED BY <1>1, <1>2 DEF Latest

LEMMA SkipKeeps ==
  ASSUME IInv, NEW p \in Procs, Skip(p)
  PROVE  IInv'
<1> DEFINE s == After(p)
<1>1. proc[p].next \in 1..Latest /\ proc[p].seen < proc[p].next /\ proc[p].next <= db.ver
      /\ proc[p].seen \in 0..Latest /\ db.ver \in 0..Latest /\ proc[p].pc = "next" /\ lock # p
  BY PlanFacts DEF Skip, At, AlreadyDone
<1>2. /\ s \in Starter /\ s.seen = proc[p].seen
      /\ proc[p].next = Latest => s.pc = "up"
      /\ proc[p].next # Latest => s.pc = "next" /\ s.next = proc[p].next + 1
  BY <1>1, AfterFacts DEF IInv, TypeOK
<1>3. proc' = [proc EXCEPT ![p] = s]
  BY DEF Skip
<1> HIDE DEF s
<1>4. StarterSound(s, p, db, txn, lock)
  BY <1>1, <1>2 DEF StarterSound, Latest
<1>5. Copied(s, db, backups)
  BY <1>1, <1>2, Members DEF Copied
<1> QED BY <1>2, <1>3, <1>4, <1>5, OneStarter DEF Skip, IInv, TypeOK

LEMMA BeginKeeps ==
  ASSUME IInv, NEW p \in Procs, Begin(p)
  PROVE  IInv'
<1> DEFINE s == [proc[p] EXCEPT !.pc = "applied"]
<1>1. s \in Starter /\ s.pc = "applied" /\ s.seen = proc[p].seen /\ s.next = proc[p].next
  BY Members
<1>2. proc' = [proc EXCEPT ![p] = s]
  BY GoesIs DEF Begin
<1> HIDE DEF s
<1>3. s.next \in 1..Latest /\ db.ver < s.next
  BY <1>1, PlanFacts DEF Begin, At, AlreadyDone, Latest
<1>4. txn' \in Database /\ txn' = Apply(s.next, db) /\ lock' = p
  BY <1>1, <1>3, Members, ApplyMigrates DEF Begin, Migrated
<1>5. StarterSound(s, p, db, txn', lock')
  BY <1>1, <1>3, <1>4, Members DEF StarterSound, Begin, At
<1>6. Copied(s, db, backups)
  BY <1>1, Members DEF Copied, Begin, At
<1>7. \A q \in Procs \ {p} : StarterSound(proc[q], q, db, txn', lock')
  <2> TAKE q \in Procs \ {p}
  <2>1. StarterSound(proc[q], q, db, txn, lock) /\ lock # q
    BY MigrationsAssumption DEF IInv, Begin
  <2> QED BY <2>1, <1>4 DEF StarterSound
<1> QED BY <1>1, <1>2, <1>4, <1>5, <1>6, <1>7, OneStarter DEF Begin, IInv, TypeOK

LEMMA StopsKeeps ==
  ASSUME IInv, NEW p \in Procs, Stops(p) \/ Rollback(p)
  PROVE  IInv'
<1> DEFINE s == [proc[p] EXCEPT !.pc = "off"]
<1>1. s \in Starter /\ s.pc = "off"
  BY Members
<1>2. proc' = [proc EXCEPT ![p] = s] /\ faults' \in 0..MaxFaults
  BY GoesIs, MigrationsAssumption DEF Stops, Rollback, Ends, IInv, TypeOK
<1> HIDE DEF s
<1>3. Copied(s, db, backups)
  BY <1>1 DEF Copied
<1>4. CASE Stops(p)
  <2>1. lock # p
    BY <1>4, Members DEF Stops, StarterSound
  <2>2. StarterSound(s, p, db, txn, lock)
    BY <1>1, <2>1 DEF StarterSound
  <2> QED BY <1>1, <1>2, <1>3, <1>4, <2>2, OneStarter DEF Stops, IInv, TypeOK
<1>5. CASE Rollback(p)
  <2>1. lock = p /\ lock' = None /\ txn' = db
    BY <1>5, Members DEF Rollback, RolledBack, At, StarterSound
  <2>2. StarterSound(s, p, db, txn', lock')
    BY <1>1, <2>1, MigrationsAssumption DEF StarterSound
  <2>3. \A q \in Procs \ {p} : StarterSound(proc[q], q, db, txn', lock')
    BY <2>1, MigrationsAssumption DEF IInv, StarterSound
  <2> QED BY <1>1, <1>2, <1>3, <1>5, <2>1, <2>2, <2>3, OneStarter, Members DEF Rollback, RolledBack, IInv, TypeOK
<1> QED BY <1>4, <1>5

LEMMA CommitKeeps ==
  ASSUME IInv, NEW p \in Procs, Commit(p)
  PROVE  IInv'
<1> DEFINE s == After(p)
           v == proc[p].next
<1>1. /\ lock = p /\ v \in 1..Latest /\ v = db.ver + 1 /\ proc[p].seen < v
      /\ proc[p].seen \in 0..Latest /\ db.ver \in 0..Latest /\ proc[p].pc = "applied"
      /\ txn = Apply(v, db)
  <2>1. proc[p].pc = "applied"
    BY DEF Commit, At
  <2>2. db.ver < v /\ txn = Apply(v, db)
    BY <2>1, Members DEF StarterSound
  <2> HIDE DEF v
  <2>3. /\ proc[p].seen \in 0..Latest /\ db.ver \in 0..Latest /\ v \in 1..Latest
        /\ proc[p].seen < v /\ v <= db.ver + 1 /\ lock = p
    BY <2>1, PlanFacts DEF v
  <2> QED BY <2>1, <2>2, <2>3 DEF Latest
<1>2. Migrated(v, db, txn) /\ db.gate \in Gate
  BY <1>1, Members, ApplyMigrates DEF Database
<1>3. /\ db' \in Database /\ db'.ver = v /\ db'.has = txn.has /\ db'.gate = txn.gate
      /\ txn' = db' /\ lock' = None /\ backups' = backups /\ faults' = faults /\ work' = work
  <2> DEFINE e == [txn EXCEPT !.ver = v]
  <2>1. db' = e /\ txn' = db' /\ lock' = None /\ UNCHANGED <<backups, faults, work>>
    BY DEF Commit
  <2> HIDE DEF v
  <2>2. txn \in Database /\ v \in 0..Latest
    BY <1>1 DEF Latest, IInv, TypeOK
  <2>3. e \in Database /\ e.ver = v /\ e.has = txn.has /\ e.gate = txn.gate
    BY <2>2 DEF Database
  <2> HIDE DEF e
  <2> QED BY <2>1, <2>3
<1>4. /\ s \in Starter /\ s.seen = proc[p].seen
      /\ v = Latest => s.pc = "up"
      /\ v # Latest => s.pc = "next" /\ s.next = v + 1
  BY <1>1, AfterFacts DEF IInv, TypeOK
<1>5. /\ proc' \in [Procs -> Starter] /\ proc'[p] = s
      /\ \A q \in Procs \ {p} : proc'[q] = proc[q]
  BY <1>4 DEF Commit, IInv, TypeOK
<1> HIDE DEF s, v
<1>6. Whole(db')
  <2>1. db.has \ {1} = 2..db.ver
    BY DEF IInv, Whole
  <2>2. db'.has \ {1} = (db.has \cup {v}) \ {1}
    BY <1>2, <1>3 DEF Migrated
  <2>3. db'.has \ {1} = 2..v
    BY <1>1, <2>1, <2>2 DEF Latest
  <2>4. v >= 7 => 1 \in db'.has
    BY <1>1, <1>2, <1>3 DEF IInv, Whole, Migrated, Latest
  <2> QED BY <1>3, <2>3, <2>4 DEF Whole
<1>7. db.gate.proof < 6
  BY <1>1, <1>2 DEF IInv, GateSound, Gate, Latest
<1>8. GateSound(db')
  <2>1. db'.gate.proof < 6 /\ db'.gate.proof \in 0..6
    BY <1>2, <1>3, <1>7, GateFacts DEF Migrated, Database, Gate
  <2>2. db'.gate # NoGate => 3 \in db'.has
    BY <1>2, <1>3 DEF Migrated, IInv, GateSound
  <2> QED BY <2>1, <2>2 DEF GateSound
<1>9. \A q \in Procs : StarterSound(proc'[q], q, db', txn', lock')
  <2>1. StarterSound(s, p, db', txn', lock')
    BY <1>1, <1>3, <1>4, MigrationsAssumption DEF StarterSound, Latest
  <2>2. ASSUME NEW q \in Procs \ {p} PROVE StarterSound(proc[q], q, db', txn', lock')
    <3>1. StarterSound(proc[q], q, db, txn, lock) /\ proc[q] \in Starter
      BY DEF IInv, TypeOK
    <3>2. proc[q].pc # "applied" /\ proc[q].pc # "up"
      BY <1>1, <3>1 DEF StarterSound, Latest
    <3> QED BY <1>1, <1>3, <3>1, <3>2, MigrationsAssumption DEF StarterSound, Starter, Latest
  <2> QED BY <1>5, <2>1, <2>2
<1>10. \A q \in Procs : Copied(proc'[q], db', backups')
  <2> SUFFICES ASSUME NEW q \in Procs, proc'[q].pc \in {"next", "applied"}, proc'[q].seen < 6,
                      db'.ver < 6, db'.gate \notin {NoGate, Pending}
               PROVE  \E b \in backups : b.gate = db'.gate
    BY <1>3 DEF Copied
  <2>1. db'.gate = db.gate /\ db.ver < 6
    BY <1>1, <1>2, <1>3 DEF Migrated
  <2>2. proc[q].pc \in {"next", "applied"} /\ proc[q].seen < 6
    BY <1>1, <1>4, <1>5
  <2> QED BY <2>1, <2>2 DEF IInv, Copied
<1>11. ASSUME txn.gate # db.gate
       PROVE  db.gate = Pending \/ \E b \in backups : b.gate = db.gate
  <2>1. v \in {5, 6} /\ db.gate # NoGate
    BY <1>2, <1>11 DEF Migrated
  <2>2. proc[p].seen < 6 /\ db.ver < 6
    BY <1>1, <2>1
  <2> QED BY <1>1, <2>1, <2>2, Members DEF Copied
<1>12. lost' = lost \/ (lost' = lost \cup {db.gate} /\ txn.gate # db.gate)
  BY DEF Commit
<1>13. NewApprovalStays' /\ LossIsBackedUp'
  BY <1>3, <1>7, <1>11, <1>12 DEF IInv, NewApprovalStays, LossIsBackedUp
<1>14. TypeOK'
  BY <1>2, <1>3, <1>5, <1>12 DEF IInv, TypeOK
<1> QED BY <1>6, <1>8, <1>9, <1>10, <1>13, <1>14 DEF IInv

(* A process that has the registry open, at the latest version. *)
LEMMA WorksKeeps ==
  ASSUME IInv, NEW p \in Procs, NEW g \in Gate, Works(p, g)
  PROVE  IInv'
<1>1. db.ver = Latest /\ db \in Database /\ lock = None
  BY Members DEF Works, At, StarterSound
<1>2. /\ db' \in Database /\ db'.ver = Latest /\ db'.has = db.has /\ db'.gate = g /\ txn' = db'
  BY <1>1 DEF Works, Database
<1>3. UNCHANGED <<lock, proc, backups, lost, faults>> /\ work' \in 0..MaxWork
  BY MigrationsAssumption DEF Works, IInv, TypeOK
<1>4. TypeOK'
  BY <1>2, <1>3 DEF IInv, TypeOK
<1>5. Whole(db') /\ GateSound(db')
  BY <1>1, <1>2 DEF IInv, Whole, GateSound, Latest
<1>6. \A q \in Procs : StarterSound(proc'[q], q, db', txn', lock')
  BY <1>1, <1>2, <1>3, MigrationsAssumption DEF IInv, StarterSound
<1>7. \A q \in Procs : Copied(proc'[q], db', backups')
  BY <1>2 DEF Copied, Latest
<1> QED BY <1>3, <1>4, <1>5, <1>6, <1>7 DEF IInv, NewApprovalStays, LossIsBackedUp

LEMMA GateOperationKeeps ==
  ASSUME IInv, NEW p \in Procs, PersistPending(p) \/ Approve(p) \/ Bind(p) \/ Complete(p)
  PROVE  IInv'
<1>1. PICK g : Works(p, g) /\ g \in {Pending, Approved(6, FALSE), [db.gate EXCEPT !.bound = TRUE], Completed(6)}
  BY DEF PersistPending, Approve, Bind, Complete
<1>2. db.gate \in Gate
  BY Members DEF Database
<1>3. [db.gate EXCEPT !.bound = TRUE] \in Gate
  BY <1>2 DEF Gate
<1>4. Pending \in Gate /\ Approved(6, FALSE) \in Gate /\ Completed(6) \in Gate
  BY DEF Gate, Pending, Approved, Completed
<1> QED BY <1>1, <1>3, <1>4, WorksKeeps

LEMMA NextKeeps == IInv /\ [Next]_vars => IInv'
<1> SUFFICES ASSUME IInv, [Next]_vars PROVE IInv' OBVIOUS
<1>1. CASE UNCHANGED vars
  BY <1>1 DEF vars, IInv, TypeOK, NewApprovalStays, LossIsBackedUp
<1>2. ASSUME NEW p \in Procs,
             \/ ReadVersion(p) \/ Backup(p) \/ Skip(p) \/ Begin(p) \/ Commit(p)
             \/ Rollback(p) \/ Stops(p)
             \/ PersistPending(p) \/ Approve(p) \/ Bind(p) \/ Complete(p)
      PROVE  IInv'
  BY <1>2, ReadKeeps, BackupKeeps, SkipKeeps, BeginKeeps, CommitKeeps, StopsKeeps, GateOperationKeeps
<1> QED BY <1>1, <1>2 DEF Next

(***************************************************************************)
(* In every state of an upgrade, whoever runs it and wherever it is cut    *)
(* off, schema, version and the processes' plans agree (apply_migrations). *)
(***************************************************************************)
THEOREM UpgradeIsSound == Spec => []IInv
<1> QED BY InitSound, NextKeeps, PTL DEF Spec

(***************************************************************************)
(* No migration is recorded and missing, none is there and unrecorded: an  *)
(* upgrade that was cut off is at the last version it applied in full.     *)
(***************************************************************************)
THEOREM NothingHalfMigrated == Spec => []NotHalfMigrated
<1>1. IInv => NotHalfMigrated
  BY DEF IInv, Whole, NotHalfMigrated
<1> QED BY <1>1, UpgradeIsSound, PTL

(***************************************************************************)
(* A slow starter that still believes the old version withdraws no         *)
(* approval given after the upgrade (the re-read under BEGIN IMMEDIATE).   *)
(***************************************************************************)
THEOREM NewApprovalsStay == Spec => []NewApprovalStays
<1>1. IInv => NewApprovalStays
  BY DEF IInv
<1> QED BY <1>1, UpgradeIsSound, PTL

(***************************************************************************)
(* Every approval and completion an upgrade withdraws is in a backup,      *)
(* whichever process took it (the backup conditions of apply_migrations).  *)
(***************************************************************************)
THEOREM WithdrawnIsCopied == Spec => []LossIsBackedUp
<1>1. IInv => LossIsBackedUp
  BY DEF IInv
<1> QED BY <1>1, UpgradeIsSound, PTL

=============================================================================
