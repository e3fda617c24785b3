-------------------------- MODULE RunLeasesProofs --------------------------
(***************************************************************************)
(* Proofs about the lease protocol of module RunLeases, for any number of  *)
(* instances, tickets, pids, rows and any lease length.                    *)
(***************************************************************************)
EXTENDS RunLeases, TLAPS

-----------------------------------------------------------------------------
(* The registry's transactions keep the table well formed. *)

(* A free row is a row, and so is what acquire_run inserts. *)
LEMMA NewRowType ==
    /\ FreeRow \in Row
    /\ \A b \in Boots, i \in Issues : NewRow(b, i) \in Row
<1>1. /\ 0 \in 0..TTL /\ TTL \in 0..TTL /\ 0 \in 0..MaxInc
      /\ 0 \in 0..MaxTurn /\ 0 \in 0..MaxRuns
  BY RegistryAssumption
<1>2. FreeRow \in Row
  BY <1>1 DEF FreeRow, Row, Statuses, NoRun, NoIdent
<1>3. ASSUME NEW b \in Boots, NEW i \in Issues
      PROVE  NewRow(b, i) \in Row
  BY <1>1, <1>2 DEF NewRow, Row, Statuses
<1> QED BY <1>2, <1>3

(* Expiring stale leases (_expire_stale_locked) keeps the table well       *)
(* formed.                                                                 *)
LEMMA ExpireStaleType ==
    ASSUME NEW t \in Table
    PROVE  ExpireStale(t) \in Table
  BY DEF ExpireStale, Table, Row, Statuses, Stale

(* The inserts of acquire_run and acquire_continuation_run keep the table  *)
(* well formed.                                                            *)
LEMMA AcquireType ==
    ASSUME NEW t \in Table, NEW n \in RunIds, NEW b \in Boots, NEW i \in Issues
    PROVE  /\ AcquireRun(t, n, b, i) \in Table
           /\ \A src \in RunIds : AcquireContinuation(t, n, b, i, src) \in Table
<1>1. ExpireStale(t) \in Table
  BY ExpireStaleType
<1>2. NewRow(b, i) \in Row
  BY NewRowType
<1>3. AcquireRun(t, n, b, i) \in Table
  BY <1>1, <1>2 DEF AcquireRun, Table
<1>4. ASSUME NEW src \in RunIds
      PROVE  AcquireContinuation(t, n, b, i, src) \in Table
  <2>1. t[src].turn \in 0..MaxTurn /\ src \in 0..MaxRuns
    BY RegistryAssumption DEF Table, Row, RunIds
  <2>2. [NewRow(b, i) EXCEPT !.turn = t[src].turn, !.fresh = TRUE,
                             !.from = src] \in Row
    BY <1>2, <2>1 DEF Row
  <2> QED BY <1>1, <2>2 DEF AcquireContinuation, Table
<1> QED BY <1>3, <1>4

(* heartbeat, clear_backend_agent_pid, checkpoint_completed_turn,          *)
(* complete_run and finalize_reclaimed_lease update one row and keep the   *)
(* table well formed.                                                      *)
LEMMA UpdateType ==
    ASSUME NEW t \in Table, NEW r \in RunIds
    PROVE  /\ \A pid \in Pids \cup {NoPid}, ident \in 0..MaxInc :
                 Heartbeat(t, r, pid, ident) \in Table
           /\ ClearBackendPid(t, r) \in Table
           /\ \A b \in Boots : CheckpointAllowed(t, r, b) =>
                 CheckpointTurn(t, r) \in Table
           /\ \A status \in Statuses : CompleteRun(t, r, status) \in Table
           /\ FinalizeReclaimed(t, r) \in Table
  <1>1. t[r] \in Row /\ 0 \in 0..TTL /\ TTL \in 0..TTL /\ 0 \in 0..MaxInc
    BY RegistryAssumption DEF Table
  <1>2. ASSUME NEW pid \in Pids \cup {NoPid}, NEW ident \in 0..MaxInc
        PROVE  Heartbeat(t, r, pid, ident) \in Table
    <2>1. Beat(t[r], pid, ident) \in Row
      BY <1>1 DEF Beat, Row
    <2> QED BY <2>1 DEF Heartbeat, Table
  <1>3. ClearBackendPid(t, r) \in Table
    BY <1>1 DEF ClearBackendPid, Table, Row, NoIdent
  <1>4. ASSUME NEW b \in Boots, CheckpointAllowed(t, r, b)
        PROVE  CheckpointTurn(t, r) \in Table
    <2>1. t[r].turn + 1 \in 0..MaxTurn
      BY <1>1, <1>4, RegistryAssumption DEF CheckpointAllowed, Row
    <2>2. [t[r] EXCEPT !.turn = t[r].turn + 1, !.fresh = TRUE] \in Row
      BY <1>1, <2>1 DEF Row
    <2> QED BY <2>2 DEF CheckpointTurn, Table
  <1>5. ASSUME NEW status \in Statuses
        PROVE  CompleteRun(t, r, status) \in Table
    BY <1>1 DEF CompleteRun, Table, Row
  <1>6. FinalizeReclaimed(t, r) \in Table
    BY <1>1 DEF FinalizeReclaimed, Table, Row, NoIdent, Statuses
  <1> QED BY <1>2, <1>3, <1>4, <1>5, <1>6

(* reclaim_dead_owner_leases, the clock and ticket edits keep the table    *)
(* well formed.                                                            *)
LEMMA SweepType ==
    ASSUME NEW t \in Table
    PROVE  /\ \A b, alive : ReclaimDeadOwners(t, b, alive) \in Table
           /\ ElapseTable(t) \in Table
           /\ \A i : EditTable(t, i) \in Table
  <1>1. \A b, alive : ReclaimDeadOwners(t, b, alive) \in Table
    BY DEF ReclaimDeadOwners, Table, Row, Statuses
  <1>2. ElapseTable(t) \in Table
    <2>1. \A r \in RunIds : t[r] \in Row BY DEF Table
    <2>2. \A r \in RunIds : t[r].ttl > 0 => t[r].ttl - 1 \in 0..TTL
      BY <2>1, RegistryAssumption DEF Row
    <2> QED BY <2>1, <2>2 DEF ElapseTable, Table, Row
  <1>3. \A i : EditTable(t, i) \in Table
    BY DEF EditTable, Table, Row
  <1> QED BY <1>1, <1>2, <1>3

-----------------------------------------------------------------------------
(* Type correctness *)

(* Run ids: the bounds that allocation and the empty `run_id` rely on. *)
LEMMA RunNumbers ==
    /\ NoRun \in 0..MaxRuns /\ RunIds \subseteq 0..MaxRuns
    /\ \A e \in 0..MaxRuns : e # NoRun => e \in RunIds
    /\ \A n \in 0..MaxRuns : n < MaxRuns => n + 1 \in RunIds /\ n + 1 \in 0..MaxRuns
    /\ 0 \in 0..MaxInc
  BY RegistryAssumption DEF NoRun, RunIds

(* What the instances put into `_running` are entries. *)
LEMMA EntryType ==
    /\ NoEntry \in Entry
    /\ \A r \in 0..MaxRuns : NewEntry(r) \in Entry
    /\ \A e \in Entry, stops \in BOOLEAN : LoseLease(e, stops) \in Entry
    /\ \A e \in Entry, r \in 0..MaxRuns : [e EXCEPT !.run = r] \in Entry
<1>1. NoEntry \in Entry
  BY RunNumbers DEF NoEntry, Entry, NoRun, NoIdent
<1>2. ASSUME NEW r \in 0..MaxRuns PROVE NewEntry(r) \in Entry
  BY <1>1 DEF NewEntry, Entry
<1>3. ASSUME NEW e \in Entry, NEW stops \in BOOLEAN
      PROVE  LoseLease(e, stops) \in Entry
  BY DEF LoseLease, Entry
<1>4. ASSUME NEW e \in Entry, NEW r \in 0..MaxRuns
      PROVE  [e EXCEPT !.run = r] \in Entry
  BY DEF Entry
<1> QED BY <1>1, <1>2, <1>3, <1>4

(* Replacing one `_running` entry keeps the table of entries well formed. *)
LEMMA SetEntryType ==
    ASSUME TypeOK, NEW b \in Boots, NEW i \in Issues, NEW e \in Entry,
           SetEntry(b, i, e)
    PROVE  entry' \in [Boots -> [Issues -> Entry]]
  BY DEF TypeOK, SetEntry

(* The registry and the entries after a heartbeat, of whatever outcome. *)
LEMMA HeartbeatType ==
    ASSUME TypeOK, NEW b \in Boots, NEW i \in Issues, NEW e \in Entry,
           NEW stops \in BOOLEAN, HeartbeatRunLease(b, i, e, stops)
    PROVE  /\ runs' \in Table /\ nruns' \in 0..MaxRuns
           /\ entry' \in [Boots -> [Issues -> Entry]]
<1>1. LoseLease(e, stops) \in Entry /\ e.run \in 0..MaxRuns
      /\ e.pid \in Pids \cup {NoPid} /\ e.ident \in 0..MaxInc
  BY EntryType DEF Entry
<1>2. runs \in Table /\ nruns \in 0..MaxRuns
  BY DEF TypeOK
<1>3. CASE e.run = NoRun
  BY <1>1, <1>2, <1>3, SetEntryType DEF HeartbeatRunLease, regVars
<1>4. CASE /\ e.run # NoRun /\ runs[e.run].status = "active"
           /\ runs' = Heartbeat(runs, e.run, e.pid, e.ident)
           /\ SetEntry(b, i, e)
           /\ UNCHANGED nruns
  <2>1. e.run \in RunIds
    BY <1>1, <1>4, RunNumbers
  <2>2. runs' \in Table
    BY <1>1, <1>2, <1>4, <2>1, UpdateType
  <2> QED BY <1>2, <1>4, <2>2, SetEntryType
<1>5. CASE SetEntry(b, i, LoseLease(e, stops)) /\ UNCHANGED regVars
  BY <1>1, <1>2, <1>5, SetEntryType DEF regVars
<1>6. CASE e.run # NoRun /\ HeartbeatRaises(b, i, e, stops)
  BY <1>1, <1>2, <1>6, SetEntryType DEF HeartbeatRaises, regVars
<1>7. CASE Reacquire(b, i, e, stops)
  <2>1. CASE /\ runs' = ExpireStale(runs)
             /\ SetEntry(b, i, LoseLease(e, stops))
             /\ UNCHANGED nruns
    BY <1>1, <1>2, <2>1, ExpireStaleType, SetEntryType
  <2>2. CASE /\ nruns < MaxRuns
             /\ nruns' = nruns + 1
             /\ runs' = AcquireRun(runs, nruns + 1, b, i)
             /\ SetEntry(b, i, [e EXCEPT !.run = nruns + 1])
    <3>1. nruns + 1 \in RunIds /\ nruns + 1 \in 0..MaxRuns
      BY <1>2, <2>2, RunNumbers
    <3>2. [e EXCEPT !.run = nruns + 1] \in Entry
      BY <3>1, EntryType
    <3> QED BY <1>2, <2>2, <3>1, <3>2, AcquireType, SetEntryType
  <2>3. CASE SetEntry(b, i, e) /\ UNCHANGED regVars
    BY <1>2, <2>3, SetEntryType DEF regVars
  <2> QED BY <1>7, <2>1, <2>2, <2>3 DEF Reacquire
<1> QED BY <1>3, <1>4, <1>5, <1>6, <1>7 DEF HeartbeatRunLease

(* The process table after a kill, confirmed or not. *)
LEMMA KillType ==
    ASSUME TypeOK, NEW p \in Pids \cup {NoPid}, NEW ident \in 0..MaxInc,
           KillConfirmed(p, ident) \/ KillUnconfirmed(p)
    PROVE  proc' \in [Pids -> Process] /\ foreign' \in BOOLEAN
<1>1. proc \in [Pids -> Process] /\ foreign \in BOOLEAN
  BY DEF TypeOK
<1>2. CASE UNCHANGED osVars
  BY <1>1, <1>2 DEF osVars
<1>3. CASE p # NoPid /\ KillGroup(p)
  <2>1. p \in Pids BY <1>3
  <2>2. [proc[p] EXCEPT !.life = "none", !.owner = NoIssue] \in Process
    BY <1>1, <2>1 DEF Process
  <2> QED BY <1>1, <1>3, <2>1, <2>2 DEF KillGroup, GroupGone
<1> QED BY <1>2, <1>3 DEF KillConfirmed, KillUnconfirmed

(* _finish_run_lease keeps the table well formed. *)
LEMMA FinishType ==
    ASSUME runs \in Table, NEW run \in 0..MaxRuns, NEW unconfirmed,
           NEW status \in Statuses, FinishRunLease(run, unconfirmed, status)
    PROVE  runs' \in Table
  BY RunNumbers, UpdateType DEF FinishRunLease

(* A registry with no rows, no instance started and no process. *)
LEMMA InitType == Init => TypeOK
<1> SUFFICES ASSUME Init PROVE TypeOK OBVIOUS
<1>1. EmptyTable \in Table /\ nruns \in 0..MaxRuns
  BY NewRowType, RunNumbers DEF EmptyTable, Table, Init, NoRun
<1>2. NoEntry \in Entry /\ NoHint \in Hint
      /\ NoProcess \in Process
  BY EntryType, RunNumbers DEF NoHint, Hint, NoProcess,
                               Process, NoRun
<1> QED BY <1>1, <1>2 DEF Init, TypeOK

(* Steps of the instance's process. *)
LEMMA InstanceType ==
    ASSUME TypeOK, NEW b \in Boots,
           StartService(b) \/ RequestStop(b) \/ StopCompletes(b) \/ Crash(b)
    PROVE  TypeOK'
<1> USE DEF TypeOK, regVars, tickVars, osVars
<1>1. CASE StartService(b)
  BY <1>1 DEF StartService
<1>2. CASE RequestStop(b)
  <2>1. ForgetTick(b) => /\ reapQ' \in [Boots -> SUBSET Snapshot]
                         /\ reaped' \in [Boots -> Snapshot \cup {NoSnapshot}]
                         /\ eject' \in [Boots -> EjectState \cup {NoEject}]
    BY DEF ForgetTick
  <2>2. ASSUME NEW i \in Issues
        PROVE  [entry[b][i] EXCEPT !.cancelled = TRUE,
                                   !.ejecting = FALSE] \in Entry
    <3>1. entry[b][i] \in Entry OBVIOUS
    <3> QED BY ONLY <3>1 DEF Entry
  <2>3. entry' \in [Boots -> [Issues -> Entry]]
    BY <1>2, <2>2 DEF RequestStop
  <2> QED BY <1>2, <2>1, <2>3 DEF RequestStop
<1>3. CASE StopCompletes(b)
  BY <1>3, EntryType DEF StopCompletes
<1>4. CASE Crash(b)
  <2>1. NoHint \in Hint
    BY RunNumbers DEF NoHint, Hint, NoRun
  <2> QED BY <1>4, <2>1, EntryType DEF Crash, ForgetTick
<1> QED BY <1>1, <1>2, <1>3, <1>4

(* Steps of the operating system, of time and of whoever edits tickets. *)
LEMMA WorldType ==
    ASSUME TypeOK,
           \/ \E p \in Pids : ProcessExit(p) \/ PidReuse(p)
           \/ Elapse
           \/ \E i \in Issues : EditIssue(i)
    PROVE  TypeOK'
<1> USE DEF TypeOK, regVars, tickVars, osVars
<1>1. ASSUME NEW p \in Pids, ProcessExit(p) PROVE TypeOK'
  <2>1. /\ [proc[p] EXCEPT !.life = "none", !.owner = NoIssue] \in Process
        /\ [proc[p] EXCEPT !.life = "orphans"] \in Process
    BY DEF Process
  <2> QED BY <1>1, <2>1 DEF ProcessExit, GroupGone
<1>2. ASSUME NEW p \in Pids, PidReuse(p) PROVE TypeOK'
  <2>1. proc[p].inc + 1 \in 0..MaxInc
    BY <1>2, RegistryAssumption DEF PidReuse, Process
  <2>2. [inc |-> proc[p].inc + 1, life |-> "leader", owner |-> NoIssue]
            \in Process
    BY <2>1 DEF Process
  <2> QED BY <1>2, <2>2 DEF PidReuse
<1>3. CASE Elapse
  BY <1>3, SweepType DEF Elapse
<1>4. ASSUME NEW i \in Issues, EditIssue(i) PROVE TypeOK'
  BY <1>4, SweepType DEF EditIssue
<1> QED BY <1>1, <1>2, <1>3, <1>4

(* Steps of the tick: reclaiming, expiring and force-ejecting. *)
LEMMA MaintenanceType ==
    ASSUME TypeOK, NEW b \in Boots, MaintenanceStep(b)
    PROVE  TypeOK'
<1> USE DEF TypeOK, regVars, tickVars, osVars
<1>1. CASE ReclaimClaim(b)
  <2>1. runs' \in Table
    <3> PICK reused : runs' = ReclaimDeadOwners(runs, b,
                          {c \in Boots : Alive(c)} \cup reused)
      BY <1>1 DEF ReclaimClaim
    <3> QED BY SweepType
  <2>2. \A r \in RunIds : SnapshotOf(runs', r) \in Snapshot
    BY <2>1 DEF SnapshotOf, Snapshot, Table, Row
  <2> QED BY <1>1, <2>1, <2>2 DEF ReclaimClaim
<1>2. CASE ReapKill(b)
  <2> PICK s \in reapQ[b] :
          /\ reapQ' = [reapQ EXCEPT ![b] = reapQ[b] \ {s}]
          /\ \/ /\ KillConfirmed(s.pid, s.ident)
                /\ reaped' = [reaped EXCEPT ![b] = s]
             \/ KillUnconfirmed(s.pid) /\ UNCHANGED reaped
    BY <1>2 DEF ReapKill
  <2>1. s \in Snapshot /\ s.pid \in Pids \cup {NoPid} /\ s.ident \in 0..MaxInc
    BY DEF Snapshot
  <2>2. proc' \in [Pids -> Process] /\ foreign' \in BOOLEAN
    BY <2>1, KillType
  <2> QED BY <1>2, <2>1, <2>2 DEF ReapKill
<1>3. CASE ReapFinalize(b)
  <2>1. reaped[b].run \in RunIds
    BY <1>3 DEF ReapFinalize, Snapshot
  <2>2. runs' \in Table
    BY <1>3, <2>1, UpdateType DEF ReapFinalize
  <2> QED BY <1>3, <2>2 DEF ReapFinalize
<1>4. CASE ExpireLeases(b)
  BY <1>4, ExpireStaleType DEF ExpireLeases
<1>5. CASE EjectFinish(b)
  <2> DEFINE i == eject[b].issue
             e == entry[b][i]
  <2>1. i \in Issues /\ eject[b].run \in 0..MaxRuns /\ eject[b].ok \in BOOLEAN
    BY <1>5 DEF EjectFinish, EjectState
  <2>2. e \in Entry /\ e.run \in 0..MaxRuns /\ e.ejecting \in BOOLEAN
    BY <2>1 DEF Entry
  <2>3. [e EXCEPT !.ejecting = FALSE, !.abandoned = TRUE,
                  !.unconfirmed = IF e.run = NoRun THEN @
                                  ELSE ~eject[b].ok] \in Entry
    BY <2>1, <2>2 DEF Entry
  <2>4. entry' \in [Boots -> [Issues -> Entry]]
    BY <1>5, <2>1, <2>2, <2>3, EntryType, SetEntryType DEF EjectFinish
  <2>5. runs' \in Table
    BY <1>5, <2>1, <2>2, FinishType DEF EjectFinish, Statuses
  <2> QED BY <1>5, <2>4, <2>5 DEF EjectFinish
<1> QED BY <1>1, <1>2, <1>3, <1>4, <1>5 DEF MaintenanceStep

(* Steps of dispatch, of the worker and of its backend. *)
LEMMA DispatchType ==
    ASSUME TypeOK, NEW b \in Boots, NEW i \in Issues,
           DispatchDiscover(b, i) \/ DispatchAcquire(b, i)
    PROVE  TypeOK'
<1> USE DEF TypeOK, regVars, tickVars, osVars
<1>1. NoHint \in Hint /\ hint[b] \in Hint
  BY RunNumbers DEF NoHint, Hint, NoRun
<1>2. CASE DispatchDiscover(b, i)
  <2> PICK src \in 0..MaxRuns :
          hint' = [hint EXCEPT ![b] = [issue |-> i, src |-> src]]
    BY <1>2 DEF DispatchDiscover
  <2>1. [issue |-> i, src |-> src] \in Hint
    BY DEF Hint
  <2> QED BY <1>2, <2>1 DEF DispatchDiscover
<1>3. CASE DispatchAcquire(b, i)
  <2>1. CASE DispatchRefuse(b, i)
    BY <1>1, <1>3, <2>1, ExpireStaleType DEF DispatchAcquire, DispatchRefuse
  <2>2. CASE /\ nruns < MaxRuns /\ nruns' = nruns + 1
             /\ SetEntry(b, i, NewEntry(nruns + 1))
             /\ DispatchFresh(b, i) \/ DispatchContinuation(b, i)
    <3>1. nruns + 1 \in RunIds /\ nruns + 1 \in 0..MaxRuns
      BY <2>2, RunNumbers
    <3>2. hint[b].src \in 0..MaxRuns
      BY <1>1 DEF Hint
    <3>3. runs' \in Table
      BY <2>2, <3>1, <3>2, AcquireType, RunNumbers
      DEF DispatchFresh, DispatchContinuation
    <3>4. entry' \in [Boots -> [Issues -> Entry]]
      BY <2>2, <3>1, EntryType, SetEntryType
    <3> QED BY <1>1, <1>3, <2>2, <3>1, <3>3, <3>4 DEF DispatchAcquire
  <2>3. CASE DispatchLeaseless(b, i)
    <3>1. entry' \in [Boots -> [Issues -> Entry]]
      BY <2>3, EntryType, RunNumbers, SetEntryType DEF DispatchLeaseless
    <3> QED BY <1>1, <1>3, <2>3, <3>1 DEF DispatchAcquire, DispatchLeaseless
  <2> QED BY <1>3, <2>1, <2>2, <2>3
          DEF DispatchAcquire, DispatchFresh, DispatchContinuation
<1> QED BY <1>2, <1>3

(* Steps of a worker and its backend: heartbeats, spawn, pid callbacks,    *)
(* stop and checkpoints keep the types.                                    *)
LEMMA BackendType ==
    ASSUME TypeOK, NEW b \in Boots, NEW i \in Issues,
           \/ \E stops \in BOOLEAN : HeartbeatEntry(b, i, stops)
           \/ \E p \in Pids : SpawnBackend(b, i, p)
           \/ SyncBackendPid(b, i) \/ StopBackend(b, i) \/ StopFails(b, i)
           \/ Checkpoint(b, i)
    PROVE  TypeOK'
<1> USE DEF TypeOK, regVars, tickVars, osVars
<1> DEFINE e == entry[b][i]
<1>1. /\ e \in Entry /\ e.run \in 0..MaxRuns /\ e.inc \in 0..MaxInc
      /\ e.pid \in Pids \cup {NoPid} /\ e.spawn \in Pids \cup {NoPid}
  BY DEF Entry
<1>2. ASSUME NEW stops \in BOOLEAN, HeartbeatEntry(b, i, stops)
      PROVE  TypeOK'
  <2>1. HeartbeatRunLease(b, i, e, stops)
    BY <1>2 DEF HeartbeatEntry
  <2>2. /\ runs' \in Table /\ nruns' \in 0..MaxRuns
        /\ entry' \in [Boots -> [Issues -> Entry]]
    BY <1>1, <2>1, HeartbeatType
  <2> QED BY <1>2, <2>2 DEF HeartbeatEntry
<1>3. ASSUME NEW p \in Pids, SpawnBackend(b, i, p) PROVE TypeOK'
  <2>1. proc[p].inc + 1 \in 0..MaxInc
    <3>1. proc[p].inc \in 0..MaxInc /\ proc[p].inc < MaxInc
      BY <1>3 DEF SpawnBackend, Process
    <3> QED BY ONLY <3>1, RegistryAssumption
  <2>2. /\ [inc |-> proc[p].inc + 1, life |-> "leader", owner |-> i] \in Process
        /\ [e EXCEPT !.spawn = p, !.inc = proc[p].inc + 1] \in Entry
    BY <1>1, <2>1 DEF Process, Entry
  <2>3. entry' \in [Boots -> [Issues -> Entry]]
    BY <1>3, <2>2, SetEntryType DEF SpawnBackend
  <2> QED BY <1>3, <2>2, <2>3 DEF SpawnBackend
<1>4. CASE SyncBackendPid(b, i)
  <2> PICK id \in {NoIdent} \cup (IF Gone(e.spawn, e.inc) THEN {} ELSE {e.inc}) :
          HeartbeatRunLease(b, i, [e EXCEPT !.pid = e.spawn, !.ident = id,
                                            !.spawn = NoPid], TRUE)
    BY <1>4 DEF SyncBackendPid
  <2>1. id \in 0..MaxInc
    BY <1>1, RunNumbers DEF NoIdent
  <2>2. [e EXCEPT !.pid = e.spawn, !.ident = id, !.spawn = NoPid] \in Entry
    BY <1>1, <2>1 DEF Entry
  <2>3. /\ runs' \in Table /\ nruns' \in 0..MaxRuns
        /\ entry' \in [Boots -> [Issues -> Entry]]
    BY <2>2, HeartbeatType
  <2> QED BY <1>4, <2>3 DEF SyncBackendPid
<1>5. CASE StopBackend(b, i)
  <2>1. e.pid \in Pids /\ [e EXCEPT !.pid = NoPid, !.ident = NoIdent,
                                    !.inc = 0] \in Entry
    BY <1>1, <1>5, RunNumbers DEF StopBackend, Entry, NoIdent
  <2>2. [proc[e.pid] EXCEPT !.life = "none", !.owner = NoIssue] \in Process
    BY <2>1 DEF Process
  <2>3. proc' \in [Pids -> Process]
    BY <1>5, <2>1, <2>2 DEF StopBackend, GroupGone
  <2>4. runs' \in Table
    BY <1>1, <1>5, RunNumbers, UpdateType DEF StopBackend
  <2>5. entry' \in [Boots -> [Issues -> Entry]]
    BY <1>5, <2>1, SetEntryType DEF StopBackend
  <2> QED BY <1>5, <2>3, <2>4, <2>5 DEF StopBackend
<1>6. CASE StopFails(b, i)
  <2>1. [e EXCEPT !.unconfirmed = TRUE] \in Entry
    BY <1>1 DEF Entry
  <2>2. entry' \in [Boots -> [Issues -> Entry]]
    BY <1>6, <2>1, SetEntryType DEF StopFails
  <2> QED BY <1>6, <2>2 DEF StopFails
<1>7. CASE Checkpoint(b, i)
  <2>1. e.run \in RunIds /\ CheckpointAllowed(runs, e.run, b)
    BY <1>1, <1>7, RunNumbers DEF Checkpoint
  <2>2. runs' \in Table
    BY <1>7, <2>1, UpdateType DEF Checkpoint
  <2> QED BY <1>7, <2>2 DEF Checkpoint
<1> QED BY <1>2, <1>3, <1>4, <1>5, <1>6, <1>7

(* A worker's exit and the kill of a force-eject keep the types. *)
LEMMA ExitType ==
    ASSUME TypeOK, NEW b \in Boots, NEW i \in Issues,
           WorkerExit(b, i) \/ EjectKill(b, i)
    PROVE  TypeOK'
<1> USE DEF TypeOK, regVars, tickVars, osVars
<1> DEFINE e == entry[b][i]
<1>1. /\ e \in Entry /\ e.run \in 0..MaxRuns /\ e.pid \in Pids \cup {NoPid}
  BY DEF Entry
<1>2. CASE WorkerExit(b, i)
  <2>1. ExitStatus(b) \in Statuses
    BY DEF ExitStatus, Statuses
  <2>2. runs' \in Table
    BY <1>1, <1>2, <2>1, FinishType DEF WorkerExit
  <2>3. entry' \in [Boots -> [Issues -> Entry]]
    BY <1>2, EntryType, SetEntryType DEF WorkerExit
  <2> QED BY <1>2, <2>2, <2>3 DEF WorkerExit
<1>3. CASE EjectKill(b, i)
  <2>1. [e EXCEPT !.ejecting = TRUE] \in Entry
    BY <1>1 DEF Entry
  <2>2. entry' \in [Boots -> [Issues -> Entry]]
    BY <1>3, <2>1, SetEntryType DEF EjectKill
  <2>3. \A ok \in BOOLEAN : [issue |-> i, run |-> e.run, ok |-> ok] \in EjectState
    BY <1>1 DEF EjectState
  <2>4. eject' \in [Boots -> EjectState \cup {NoEject}]
    BY <1>3, <2>3 DEF EjectKill
  <2>5. proc' \in [Pids -> Process] /\ foreign' \in BOOLEAN
    <3>1. CASE e.run # NoRun /\ runs[e.run].pid = e.pid
      <4>1. runs[e.run].ident \in 0..MaxInc
        BY <1>1, <3>1, RunNumbers DEF Table, Row
      <4> QED BY <1>1, <1>3, <3>1, <4>1, KillType DEF EjectKill
    <3>2. CASE UNCHANGED osVars
      BY <3>2
    <3>3. CASE e.pid \in Pids /\ KillGroup(e.pid)
      <4>1. [proc[e.pid] EXCEPT !.life = "none", !.owner = NoIssue] \in Process
        BY <3>3 DEF Process
      <4> QED BY <3>3, <4>1 DEF KillGroup, GroupGone
    <3> QED BY <1>1, <1>3, <3>1, <3>2, <3>3 DEF EjectKill
  <2> QED BY <1>3, <2>2, <2>4, <2>5 DEF EjectKill
<1> QED BY <1>2, <1>3

(* Type correctness: no step of any instance, agent or crash leaves the    *)
(* registry, an entry or the process table ill-formed.                     *)
THEOREM TypeCorrect == Spec => []TypeOK
<1>1. TypeOK /\ [Next]_vars => TypeOK'
  <2> SUFFICES ASSUME TypeOK, [Next]_vars PROVE TypeOK' OBVIOUS
  <2>1. CASE UNCHANGED vars
    BY <2>1 DEF TypeOK, vars
  <2>2. ASSUME NEW b \in Boots, MaintenanceStep(b) PROVE TypeOK'
    BY <2>2, MaintenanceType
  <2>3. ASSUME NEW b \in Boots, NEW i \in Issues, WorkerStep(b, i)
        PROVE  TypeOK'
    BY <2>3, DispatchType, BackendType, ExitType DEF WorkerStep
  <2>4. ASSUME NEW b \in Boots,
               StartService(b) \/ RequestStop(b) \/ StopCompletes(b) \/ Crash(b)
        PROVE  TypeOK'
    BY <2>4, InstanceType
  <2>5. CASE \/ \E p \in Pids : ProcessExit(p) \/ PidReuse(p)
             \/ Elapse
             \/ \E i \in Issues : EditIssue(i)
    BY <2>5, WorldType
  <2> QED BY <2>1, <2>2, <2>3, <2>4, <2>5 DEF Next
<1> QED BY <1>1, InitType, PTL DEF Spec
-----------------------------------------------------------------------------
(***************************************************************************)
(* What the rows of the registry can go through: a run that ended never    *)
(* fences its ticket again, and a checkpoint is consumed once, by the next *)
(* run of its ticket, without losing a turn.  The argument has two layers. *)
(* RegistryStep classifies every step of every instance by its effect on   *)
(* the table: it keeps each row within RowStep, and inserts at most one    *)
(* row, fresh or continuing an eligible source.  The invariants then       *)
(* follow from that classification alone.                                  *)
(***************************************************************************)

Ended(row) == row.status \in Statuses \ {"none", "active", "reclaiming"}

(* What one step may do to a row. *)
RowStep(old, new) ==
    /\ new.issue = old.issue /\ new.from = old.from
    /\ old.status = "none" <=> new.status = "none"
    /\ Ended(old) => Ended(new)
    /\ old.turn <= new.turn
    /\ old.status # "active" => new.turn = old.turn
    /\ old.status = "reclaiming" =>
          \/ new.status = "reclaiming" /\ new.pid = old.pid /\ new.ident = old.ident
          \/ Ended(new)

(* Rows above nruns are free, the others are not, and nothing an instance  *)
(* remembers of a run id is above nruns.                                   *)
Allocated ==
    /\ \A r \in RunIds : runs[r].status = "none" <=> nruns < r
    /\ \A r \in RunIds : nruns < r => runs[r].issue = NoIssue /\ runs[r].from = NoRun
    /\ \A b \in Boots, i \in Issues : entry[b][i].run <= nruns
    /\ \A b \in Boots : eject[b].run <= nruns

-----------------------------------------------------------------------------
(* The transactions, row by row *)

(* _expire_stale_locked changes no more of a row than RowStep allows. *)
LEMMA ExpireStaleRows ==
    ASSUME NEW t \in Table, NEW r \in RunIds
    PROVE  /\ RowStep(t[r], ExpireStale(t)[r])
           /\ ExpireStale(t)[r].status \in {"orphaned", "shutdown_interrupted"} =>
                 t[r].status = ExpireStale(t)[r].status
           /\ ExpireStale(t)[r].turn = t[r].turn
<1>1. t[r] \in Row /\ t[r].turn \in Nat
  BY RegistryAssumption DEF Table, Row
<1>2. ExpireStale(t)[r] = IF Stale(t[r]) THEN [t[r] EXCEPT !.status = "expired"]
                                         ELSE t[r]
  BY DEF ExpireStale
<1>3. CASE Stale(t[r])
  BY <1>1, <1>2, <1>3 DEF Stale, Row, RowStep, Ended, Statuses
<1>4. CASE ~Stale(t[r])
  BY <1>1, <1>2, <1>4 DEF RowStep
<1> QED BY <1>3, <1>4

(* Nor do heartbeat, clear_backend_agent_pid, checkpoint_completed_turn,   *)
(* complete_run and finalize_reclaimed_lease.                              *)
LEMMA UpdateRows ==
    ASSUME NEW t \in Table, NEW n \in RunIds, NEW r \in RunIds
    PROVE  /\ \A pid, ident : RowStep(t[r], Heartbeat(t, n, pid, ident)[r])
           /\ RowStep(t[r], ClearBackendPid(t, n)[r])
           /\ \A b : CheckpointAllowed(t, n, b) =>
                 RowStep(t[r], CheckpointTurn(t, n)[r])
           /\ \A status \in {"done", "shutdown_interrupted"} :
                 t[n].status # "none" => RowStep(t[r], CompleteRun(t, n, status)[r])
           /\ RowStep(t[r], FinalizeReclaimed(t, n)[r])
<1>1. /\ t[r] \in Row /\ t[r].turn \in Nat /\ RowStep(t[r], t[r])
      /\ t \in [RunIds -> Row]
  BY RegistryAssumption DEF Table, Row, RowStep
<1>2. CASE r # n
  BY <1>1, <1>2 DEF Heartbeat, ClearBackendPid, CheckpointTurn, CompleteRun,
                    FinalizeReclaimed
<1>3. CASE r = n
  <2>1. ASSUME NEW pid, NEW ident
        PROVE  RowStep(t[r], Heartbeat(t, n, pid, ident)[r])
    BY <1>1, <1>3 DEF Heartbeat, Beat, Row, RowStep, Ended
  <2>2. RowStep(t[r], ClearBackendPid(t, n)[r])
    BY <1>1, <1>3 DEF ClearBackendPid, Row, RowStep, Ended
  <2>3. ASSUME NEW b, CheckpointAllowed(t, n, b)
        PROVE  RowStep(t[r], CheckpointTurn(t, n)[r])
    <3>1. CheckpointTurn(t, n)[r] =
              [t[r] EXCEPT !.turn = t[r].turn + 1, !.fresh = TRUE]
      BY <1>1, <1>3 DEF CheckpointTurn
    <3> QED BY <1>1, <1>3, <2>3, <3>1 DEF CheckpointAllowed, Row, RowStep, Ended
  <2>4. ASSUME NEW status \in {"done", "shutdown_interrupted"},
               t[n].status # "none"
        PROVE  RowStep(t[r], CompleteRun(t, n, status)[r])
    BY <1>1, <1>3, <2>4 DEF CompleteRun, Row, RowStep, Ended, Statuses
  <2>5. RowStep(t[r], FinalizeReclaimed(t, n)[r])
    BY <1>1, <1>3 DEF FinalizeReclaimed, Row, RowStep, Ended, Statuses
  <2> QED BY <2>1, <2>2, <2>3, <2>4, <2>5
<1> QED BY <1>2, <1>3

(* Nor do reclaim_dead_owner_leases, the clock and ticket edits. *)
LEMMA SweepRows ==
    ASSUME NEW t \in Table, NEW r \in RunIds
    PROVE  /\ \A b, alive : RowStep(t[r], ReclaimDeadOwners(t, b, alive)[r])
           /\ RowStep(t[r], ElapseTable(t)[r])
           /\ \A i : RowStep(t[r], EditTable(t, i)[r])
<1>1. t[r] \in Row /\ t[r].turn \in Nat
  BY RegistryAssumption DEF Table, Row
<1>2. ASSUME NEW b, NEW alive
      PROVE  RowStep(t[r], ReclaimDeadOwners(t, b, alive)[r])
  BY <1>1 DEF ReclaimDeadOwners, Reclaimable, Row, RowStep, Ended
<1>3. RowStep(t[r], ElapseTable(t)[r])
  BY <1>1 DEF ElapseTable, Row, RowStep, Ended
<1>4. ASSUME NEW i PROVE RowStep(t[r], EditTable(t, i)[r])
  BY <1>1 DEF EditTable, Row, RowStep, Ended
<1> QED BY <1>2, <1>3, <1>4

-----------------------------------------------------------------------------
(* The steps, by their effect on the table *)

KeepRows ==
    nruns' = nruns /\ \A r \in RunIds : RowStep(runs[r], runs'[r])

(* The run `src` may be continued on ticket i. *)
Eligible(src, i) ==
    /\ src \in RunIds /\ runs[src].issue = i /\ Ended(runs[src])
    /\ \A s \in RunIds : runs[s].from # src
    /\ \A s \in RunIds : runs[s].issue = i => s <= src

InsertRow(n, i) ==
    /\ n \in RunIds /\ n = nruns + 1 /\ nruns' = n
    /\ \A r \in RunIds : r # n => RowStep(runs[r], runs'[r])
    /\ runs'[n].status = "active" /\ runs'[n].issue = i
    /\ \/ runs'[n].from = NoRun /\ runs'[n].turn = 0
       \/ /\ Eligible(runs'[n].from, i)
          /\ runs'[n].turn = runs[runs'[n].from].turn

RegistryEffect == KeepRows \/ \E n \in RunIds, i \in Issues : InsertRow(n, i)

(* A step that leaves the table alone is a KeepRows step. *)
LEMMA KeepTable ==
    ASSUME TypeOK, runs' = runs, nruns' = nruns
    PROVE  RegistryEffect
<1>1. \A r \in RunIds : runs[r].turn \in Nat
  BY RegistryAssumption DEF TypeOK, Table, Row
<1> QED BY <1>1 DEF RegistryEffect, KeepRows, RowStep

(* acquire_run, called by dispatch or by a heartbeat, inserts one row that *)
(* continues no run.                                                       *)
LEMMA FreshInserts ==
    ASSUME TypeOK, NEW b \in Boots, NEW i \in Issues, nruns < MaxRuns,
           nruns' = nruns + 1, runs' = AcquireRun(runs, nruns + 1, b, i)
    PROVE  RegistryEffect
<1> DEFINE n == nruns + 1
<1>1. n \in RunIds /\ runs \in Table
  BY RunNumbers DEF TypeOK
<1>2. runs'[n] = NewRow(b, i)
  BY <1>1, ExpireStaleType DEF AcquireRun, Table
<1>3. /\ runs'[n].status = "active" /\ runs'[n].issue = i
      /\ runs'[n].from = NoRun /\ runs'[n].turn = 0
  BY <1>2 DEF NewRow, FreeRow
<1>4. \A r \in RunIds : r # n => RowStep(runs[r], runs'[r])
  <2>1. \A r \in RunIds : r # n => runs'[r] = ExpireStale(runs)[r]
    BY <1>1, ExpireStaleType DEF AcquireRun, Table
  <2> QED BY <1>1, <2>1, ExpireStaleRows
<1> QED BY <1>1, <1>3, <1>4 DEF RegistryEffect, InsertRow

(* acquire_continuation_run inserts one row that continues an eligible run *)
(* and inherits its turns.                                                 *)
LEMMA ContinuationInserts ==
    ASSUME TypeOK, NEW b \in Boots, NEW i \in Issues, NEW src \in RunIds,
           nruns < MaxRuns, nruns' = nruns + 1,
           ContinuationSource(ExpireStale(runs), src, i),
           runs' = AcquireContinuation(runs, nruns + 1, b, i, src)
    PROVE  RegistryEffect
<1> DEFINE n == nruns + 1
           t == ExpireStale(runs)
           new == [NewRow(b, i) EXCEPT !.turn = runs[src].turn, !.fresh = TRUE,
                                       !.from = src]
<1>1. n \in RunIds /\ runs \in Table /\ t \in Table
  BY RunNumbers, ExpireStaleType DEF TypeOK
<1>2. runs'[n] = new
  BY <1>1 DEF AcquireContinuation, Table
<1>3. /\ runs'[n].status = "active" /\ runs'[n].issue = i
      /\ runs'[n].from = src /\ runs'[n].turn = runs[src].turn
  BY <1>2 DEF NewRow, FreeRow
<1>4. \A r \in RunIds : r # n => RowStep(runs[r], runs'[r])
  <2>1. \A r \in RunIds : r # n => runs'[r] = t[r]
    BY <1>1 DEF AcquireContinuation, Table
  <2> QED BY <1>1, <2>1, ExpireStaleRows
<1>5. \A r \in RunIds : t[r].issue = runs[r].issue /\ t[r].from = runs[r].from
  BY <1>1, ExpireStaleRows DEF RowStep
<1>6. Ended(runs[src])
  BY <1>1, ExpireStaleRows DEF ContinuationSource, Ended, Statuses
<1>7. Eligible(src, i)
  BY <1>5, <1>6 DEF ContinuationSource, Eligible
<1> QED BY <1>1, <1>3, <1>4, <1>7 DEF RegistryEffect, InsertRow

(* A heartbeat, of whatever outcome, keeps the rows or inserts one. *)
LEMMA HeartbeatEffect ==
    ASSUME TypeOK, NEW b \in Boots, NEW i \in Issues, NEW e \in Entry,
           NEW stops \in BOOLEAN, HeartbeatRunLease(b, i, e, stops)
    PROVE  RegistryEffect
<1>1. runs \in Table /\ e.run \in 0..MaxRuns
  BY DEF TypeOK, Entry
<1>2. CASE UNCHANGED regVars
  BY <1>2, KeepTable DEF regVars
<1>3. CASE /\ e.run # NoRun /\ UNCHANGED nruns
           /\ runs' = Heartbeat(runs, e.run, e.pid, e.ident)
  BY <1>1, <1>3, RunNumbers, UpdateRows DEF RegistryEffect, KeepRows
<1>4. CASE runs' = ExpireStale(runs) /\ UNCHANGED nruns
  BY <1>1, <1>4, ExpireStaleRows DEF RegistryEffect, KeepRows
<1>5. CASE /\ nruns < MaxRuns /\ nruns' = nruns + 1
           /\ runs' = AcquireRun(runs, nruns + 1, b, i)
  BY <1>5, FreshInserts
<1> QED BY <1>2, <1>3, <1>4, <1>5
        DEF HeartbeatRunLease, HeartbeatRaises, Reacquire

(* _finish_run_lease, on a run that was inserted, keeps the rows. *)
LEMMA FinishEffect ==
    ASSUME TypeOK, Allocated, NEW run \in 0..MaxRuns, run <= nruns,
           NEW unconfirmed, NEW status \in {"done", "shutdown_interrupted"},
           FinishRunLease(run, unconfirmed, status), nruns' = nruns
    PROVE  RegistryEffect
<1>1. CASE UNCHANGED runs
  BY <1>1, KeepTable
<1>2. CASE run # NoRun /\ runs' = CompleteRun(runs, run, status)
  <2>1. run \in RunIds /\ runs \in Table
    BY <1>2, RunNumbers DEF TypeOK
  <2>2. runs[run].status # "none"
    BY <2>1, RegistryAssumption DEF Allocated, TypeOK, RunIds
  <2> QED BY <1>2, <2>1, <2>2, UpdateRows DEF RegistryEffect, KeepRows
<1> QED BY <1>1, <1>2 DEF FinishRunLease

(* Every step keeps the rows within RowStep and inserts at most one row. *)
LEMMA RegistryStep ==
    ASSUME TypeOK, Allocated, [Next]_vars
    PROVE  RegistryEffect
<1> USE DEF regVars
<1>t. runs \in Table BY DEF TypeOK
<1>1. CASE UNCHANGED <<runs, nruns>>
  BY <1>1, KeepTable
<1>2. ASSUME NEW b \in Boots, MaintenanceStep(b) PROVE RegistryEffect
  <2>1. CASE ReclaimClaim(b)
    <3> PICK reused : runs' = ReclaimDeadOwners(runs, b,
                          {c \in Boots : Alive(c)} \cup reused)
      BY <2>1 DEF ReclaimClaim
    <3> QED BY <1>t, <2>1, SweepRows DEF ReclaimClaim, RegistryEffect, KeepRows
  <2>2. CASE ReapFinalize(b)
    <3>1. reaped[b].run \in RunIds
      BY <2>2 DEF ReapFinalize, TypeOK, Snapshot
    <3>2. CASE UNCHANGED runs
      BY <2>2, <3>2, KeepTable DEF ReapFinalize
    <3>3. CASE runs' = FinalizeReclaimed(runs, reaped[b].run)
      BY <1>t, <2>2, <3>1, <3>3, UpdateRows
      DEF ReapFinalize, RegistryEffect, KeepRows
    <3> QED BY <2>2, <3>2, <3>3 DEF ReapFinalize
  <2>3. CASE ExpireLeases(b)
    BY <1>t, <2>3, ExpireStaleRows DEF ExpireLeases, RegistryEffect, KeepRows
  <2>4. CASE EjectFinish(b)
    <3> DEFINE i == eject[b].issue
               run == IF entry[b][i].ejecting THEN entry[b][i].run
                                              ELSE eject[b].run
    <3>1. i \in Issues /\ eject[b].run \in 0..MaxRuns
      BY <2>4 DEF EjectFinish, EjectState, TypeOK
    <3>2. run \in 0..MaxRuns /\ run <= nruns
      BY <3>1 DEF TypeOK, Entry, Allocated
    <3> HIDE DEF run
    <3>3. FinishRunLease(run, ~eject[b].ok, "done") /\ nruns' = nruns
      BY <2>4 DEF EjectFinish, run
    <3> QED BY <3>2, <3>3, FinishEffect
  <2>5. CASE ReapKill(b)
    BY <2>5, KeepTable DEF ReapKill
  <2> QED BY <1>2, <2>1, <2>2, <2>3, <2>4, <2>5 DEF MaintenanceStep
<1>3. ASSUME NEW b \in Boots, NEW i \in Issues, WorkerStep(b, i)
      PROVE  RegistryEffect
  <2> DEFINE e == entry[b][i]
  <2>e. e \in Entry /\ e.run \in 0..MaxRuns /\ e.run <= nruns
    BY DEF TypeOK, Entry, Allocated
  <2>1. CASE DispatchAcquire(b, i)
    <3>1. CASE DispatchRefuse(b, i)
      BY <1>t, <3>1, KeepTable, ExpireStaleRows
      DEF DispatchRefuse, RegistryEffect, KeepRows
    <3>2. CASE DispatchFresh(b, i)
      BY <3>2, FreshInserts DEF DispatchFresh
    <3>3. CASE DispatchContinuation(b, i)
      <4>1. hint[b].src \in RunIds
        BY <3>3, RunNumbers DEF DispatchContinuation, TypeOK, Hint
      <4> QED BY <3>3, <4>1, ContinuationInserts DEF DispatchContinuation
    <3>4. CASE DispatchLeaseless(b, i)
      BY <3>4, KeepTable DEF DispatchLeaseless
    <3> QED BY <2>1, <3>1, <3>2, <3>3, <3>4 DEF DispatchAcquire
  <2>2. ASSUME NEW stops \in BOOLEAN, HeartbeatEntry(b, i, stops)
        PROVE  RegistryEffect
    BY <2>e, <2>2, HeartbeatEffect DEF HeartbeatEntry
  <2>3. CASE SyncBackendPid(b, i)
    <3> PICK id \in {NoIdent} \cup (IF Gone(e.spawn, e.inc) THEN {} ELSE {e.inc}) :
            HeartbeatRunLease(b, i, [e EXCEPT !.pid = e.spawn, !.ident = id,
                                              !.spawn = NoPid], TRUE)
      BY <2>3 DEF SyncBackendPid
    <3>1. [e EXCEPT !.pid = e.spawn, !.ident = id, !.spawn = NoPid] \in Entry
      BY <2>e, RunNumbers DEF Entry, NoIdent
    <3> QED BY <3>1, HeartbeatEffect
  <2>4. CASE StopBackend(b, i)
    <3>1. CASE e.run # NoRun /\ runs' = ClearBackendPid(runs, e.run)
      BY <1>t, <2>e, <2>4, <3>1, RunNumbers, UpdateRows
      DEF StopBackend, RegistryEffect, KeepRows
    <3> QED BY <2>4, <3>1, KeepTable DEF StopBackend
  <2>5. CASE Checkpoint(b, i)
    <3>1. e.run \in RunIds
      BY <2>5, <2>e, RunNumbers DEF Checkpoint
    <3> QED BY <1>t, <2>5, <3>1, UpdateRows DEF Checkpoint, RegistryEffect, KeepRows
  <2>6. CASE WorkerExit(b, i)
    BY <2>6, <2>e, FinishEffect DEF WorkerExit, ExitStatus
  <2>7. CASE \/ DispatchDiscover(b, i) \/ StopFails(b, i) \/ EjectKill(b, i)
             \/ \E p \in Pids : SpawnBackend(b, i, p)
    BY <2>7, <1>1 DEF DispatchDiscover, StopFails, EjectKill, SpawnBackend
  <2> QED BY <1>3, <2>1, <2>2, <2>3, <2>4, <2>5, <2>6, <2>7 DEF WorkerStep
<1>4. ASSUME NEW b \in Boots,
             StartService(b) \/ RequestStop(b) \/ StopCompletes(b) \/ Crash(b)
      PROVE  RegistryEffect
  BY <1>1, <1>4 DEF StartService, RequestStop, StopCompletes, Crash
<1>5. CASE Elapse
  BY <1>t, <1>5, SweepRows DEF Elapse, RegistryEffect, KeepRows
<1>6. ASSUME NEW i \in Issues, EditIssue(i) PROVE RegistryEffect
  BY <1>t, <1>6, SweepRows DEF EditIssue, RegistryEffect, KeepRows
<1>7. ASSUME NEW p \in Pids, ProcessExit(p) \/ PidReuse(p) PROVE RegistryEffect
  BY <1>1, <1>7 DEF ProcessExit, PidReuse
<1> QED BY <1>1, <1>2, <1>3, <1>4, <1>5, <1>6, <1>7 DEF Next, vars

-----------------------------------------------------------------------------
(* Row ids are handed out once, in order *)

(* The count of inserted rows never falls. *)
LEMMA RunsGrow ==
    ASSUME TypeOK, RegistryEffect
    PROVE  nruns' \in Nat /\ nruns <= nruns'
<1>1. nruns \in Nat
  BY RegistryAssumption DEF TypeOK
<1> QED BY <1>1 DEF RegistryEffect, KeepRows, InsertRow

(* The entries after one of them was set. *)
LEMMA SetEntryRun ==
    ASSUME TypeOK, Allocated, RegistryEffect, NEW b \in Boots, NEW i \in Issues,
           NEW e, e.run <= nruns', SetEntry(b, i, e)
    PROVE  \A c \in Boots, j \in Issues : entry'[c][j].run <= nruns'
<1>1. \A c \in Boots, j \in Issues : entry[c][j].run \in Nat /\ nruns \in Nat
  BY RegistryAssumption DEF TypeOK, Entry
<1>2. \A c \in Boots, j \in Issues : entry[c][j].run <= nruns'
  BY <1>1, RunsGrow DEF Allocated
<1> QED BY <1>2 DEF SetEntry, TypeOK

(* After a heartbeat every entry holds a run id that was handed out. *)
LEMMA HeartbeatRun ==
    ASSUME TypeOK, Allocated, RegistryEffect, NEW b \in Boots, NEW i \in Issues,
           NEW e \in Entry, e.run <= nruns, NEW stops \in BOOLEAN,
           HeartbeatRunLease(b, i, e, stops)
    PROVE  \A c \in Boots, j \in Issues : entry'[c][j].run <= nruns'
<1>1. e.run \in Nat /\ nruns \in Nat
  BY RegistryAssumption DEF TypeOK, Entry
<1>2. e.run <= nruns' /\ LoseLease(e, stops).run <= nruns'
  BY <1>1, RunsGrow DEF LoseLease, Entry
<1>3. CASE SetEntry(b, i, e) \/ SetEntry(b, i, LoseLease(e, stops))
  BY <1>2, <1>3, SetEntryRun
<1>4. CASE nruns' = nruns + 1 /\ SetEntry(b, i, [e EXCEPT !.run = nruns + 1])
  <2>1. [e EXCEPT !.run = nruns + 1].run <= nruns'
    BY <1>1, <1>4 DEF Entry
  <2> QED BY <1>4, <2>1, SetEntryRun
<1> QED BY <1>3, <1>4 DEF HeartbeatRunLease, HeartbeatRaises, Reacquire

(* After any step every entry holds a run id that was handed out. *)
LEMMA EntryRuns ==
    ASSUME TypeOK, Allocated, [Next]_vars, RegistryEffect
    PROVE  \A c \in Boots, j \in Issues : entry'[c][j].run <= nruns'
<1>1. \A c \in Boots, j \in Issues :
          entry[c][j] \in Entry /\ entry[c][j].run \in Nat /\ nruns \in Nat
  BY RegistryAssumption DEF TypeOK, Entry
<1>2. \A c \in Boots, j \in Issues : entry[c][j].run <= nruns'
  BY <1>1, RunsGrow DEF Allocated
<1>3. CASE UNCHANGED entry
  BY <1>2, <1>3
<1>4. NoEntry.run <= nruns'
  BY RunsGrow DEF NoEntry, NoRun
<1>5. ASSUME NEW b \in Boots, MaintenanceStep(b), ~UNCHANGED entry
      PROVE  \A c \in Boots, j \in Issues : entry'[c][j].run <= nruns'
  <2>1. EjectFinish(b)
    BY <1>5 DEF MaintenanceStep, ReclaimClaim, ReapKill, ReapFinalize, ExpireLeases
  <2> DEFINE i == eject[b].issue
             e == entry[b][i]
  <2>2. i \in Issues /\ e \in Entry /\ e.run <= nruns'
    BY <1>1, <1>2, <2>1 DEF EjectFinish, EjectState, TypeOK
  <2>3. [e EXCEPT !.ejecting = FALSE, !.abandoned = TRUE,
                  !.unconfirmed = IF e.run = NoRun THEN @
                                  ELSE ~eject[b].ok].run <= nruns'
    BY <2>2 DEF Entry
  <2> QED BY <1>4, <2>1, <2>2, <2>3, SetEntryRun DEF EjectFinish
<1>6. ASSUME NEW b \in Boots, NEW i \in Issues, WorkerStep(b, i), ~UNCHANGED entry
      PROVE  \A c \in Boots, j \in Issues : entry'[c][j].run <= nruns'
  <2> DEFINE e == entry[b][i]
  <2>e. e \in Entry /\ e.run <= nruns /\ e.run <= nruns'
    BY <1>1, <1>2 DEF Allocated
  <2>1. CASE DispatchAcquire(b, i)
    <3>1. CASE nruns' = nruns + 1 /\ SetEntry(b, i, NewEntry(nruns + 1))
      <4>1. NewEntry(nruns + 1).run <= nruns'
        BY <3>1, RunsGrow DEF NewEntry, NoEntry
      <4> QED BY <3>1, <4>1, SetEntryRun
    <3>2. CASE SetEntry(b, i, NewEntry(NoRun))
      <4>1. NewEntry(NoRun).run <= nruns'
        BY RunsGrow DEF NewEntry, NoEntry, NoRun
      <4> QED BY <3>2, <4>1, SetEntryRun
    <3> QED BY <1>6, <2>1, <3>1, <3>2
            DEF DispatchAcquire, DispatchRefuse, DispatchFresh,
                DispatchContinuation, DispatchLeaseless
  <2>2. ASSUME NEW stops \in BOOLEAN, HeartbeatEntry(b, i, stops)
        PROVE  \A c \in Boots, j \in Issues : entry'[c][j].run <= nruns'
    BY <2>e, <2>2, HeartbeatRun DEF HeartbeatEntry
  <2>3. CASE SyncBackendPid(b, i)
    <3> PICK id \in {NoIdent} \cup (IF Gone(e.spawn, e.inc) THEN {} ELSE {e.inc}) :
            HeartbeatRunLease(b, i, [e EXCEPT !.pid = e.spawn, !.ident = id,
                                              !.spawn = NoPid], TRUE)
      BY <2>3 DEF SyncBackendPid
    <3> DEFINE f == [e EXCEPT !.pid = e.spawn, !.ident = id, !.spawn = NoPid]
    <3>1. f \in Entry /\ f.run <= nruns
      BY <2>e, RunNumbers DEF Entry, NoIdent
    <3> HIDE DEF f
    <3>2. HeartbeatRunLease(b, i, f, TRUE) BY DEF f
    <3> QED BY <3>1, <3>2, HeartbeatRun
  <2>4. ASSUME NEW p \in Pids, SpawnBackend(b, i, p)
        PROVE  \A c \in Boots, j \in Issues : entry'[c][j].run <= nruns'
    <3>1. [e EXCEPT !.spawn = p, !.inc = proc[p].inc + 1].run <= nruns'
      BY <2>e DEF Entry
    <3> QED BY <2>4, <3>1, SetEntryRun DEF SpawnBackend
  <2>5. CASE StopBackend(b, i)
    <3>1. [e EXCEPT !.pid = NoPid, !.ident = NoIdent, !.inc = 0].run <= nruns'
      BY <2>e DEF Entry
    <3> QED BY <2>5, <3>1, SetEntryRun DEF StopBackend
  <2>6. CASE StopFails(b, i)
    <3>1. [e EXCEPT !.unconfirmed = TRUE].run <= nruns'
      BY <2>e DEF Entry
    <3> QED BY <2>6, <3>1, SetEntryRun DEF StopFails
  <2>7. CASE EjectKill(b, i)
    <3>1. [e EXCEPT !.ejecting = TRUE].run <= nruns'
      BY <2>e DEF Entry
    <3> QED BY <2>7, <3>1, SetEntryRun DEF EjectKill
  <2>8. CASE WorkerExit(b, i)
    BY <1>4, <2>8, SetEntryRun DEF WorkerExit
  <2> QED BY <1>6, <2>1, <2>2, <2>3, <2>4, <2>5, <2>6, <2>7, <2>8
          DEF WorkerStep, DispatchDiscover, Checkpoint
<1>7. ASSUME NEW b \in Boots, RequestStop(b)
      PROVE  \A c \in Boots, j \in Issues : entry'[c][j].run <= nruns'
  <2>1. \A j \in Issues :
            [entry[b][j] EXCEPT !.cancelled = TRUE, !.ejecting = FALSE].run
                = entry[b][j].run
    BY <1>1 DEF Entry
  <2> QED BY <1>2, <1>7, <2>1 DEF RequestStop, TypeOK
<1>8. ASSUME NEW b \in Boots, StopCompletes(b) \/ Crash(b)
      PROVE  \A c \in Boots, j \in Issues : entry'[c][j].run <= nruns'
  <2>1. entry' = [entry EXCEPT ![b] = [j \in Issues |-> NoEntry]]
    BY <1>8 DEF StopCompletes, Crash
  <2>2. entry \in [Boots -> [Issues -> Entry]]
    BY DEF TypeOK
  <2>3. ASSUME NEW c \in Boots, NEW j \in Issues
        PROVE  entry'[c][j] \in {entry[c][j], NoEntry}
    BY <2>1, <2>2
  <2> QED BY <1>2, <1>4, <2>3
<1> QED BY <1>3, <1>5, <1>6, <1>7, <1>8
        DEF Next, vars, StartService, ProcessExit, PidReuse, Elapse, EditIssue

(* After any step a pending force-eject holds a run id that was handed     *)
(* out.                                                                    *)
LEMMA EjectRuns ==
    ASSUME TypeOK, Allocated, [Next]_vars, RegistryEffect
    PROVE  \A c \in Boots : eject'[c].run <= nruns'
<1>1. /\ nruns \in Nat /\ NoEject.run = 0
      /\ \A c \in Boots : eject[c].run \in Nat
      /\ \A c \in Boots, j \in Issues : entry[c][j].run \in Nat
  BY RegistryAssumption DEF TypeOK, EjectState, NoEject, NoRun, Entry
<1>2. \A c \in Boots, j \in Issues :
          eject[c].run <= nruns' /\ entry[c][j].run <= nruns' /\ NoEject.run <= nruns'
  BY <1>1, RunsGrow DEF Allocated
<1>3. \A c \in Boots : eject[c].run <= nruns' /\ NoEject.run <= nruns'
  BY <1>1, RunsGrow DEF Allocated
<1>4. ASSUME NEW b \in Boots, NEW new, new.run <= nruns',
             eject' = [eject EXCEPT ![b] = new]
      PROVE  \A c \in Boots : eject'[c].run <= nruns'
  BY <1>3, <1>4 DEF TypeOK
<1>5. ASSUME NEW b \in Boots, NEW i \in Issues, EjectKill(b, i)
      PROVE  \A c \in Boots : eject'[c].run <= nruns'
  <2>1. PICK ok : eject' = [eject EXCEPT ![b] =
                               [issue |-> i, run |-> entry[b][i].run, ok |-> ok]]
    BY <1>5 DEF EjectKill
  <2> QED BY <1>2, <1>4, <2>1
<1>6. ASSUME NEW b \in Boots,
             EjectFinish(b) \/ RequestStop(b) \/ Crash(b)
      PROVE  \A c \in Boots : eject'[c].run <= nruns'
  BY <1>3, <1>4, <1>6 DEF EjectFinish, RequestStop, Crash, ForgetTick
<1>7. CASE UNCHANGED eject
  BY <1>3, <1>7
<1>8. ASSUME NEW b \in Boots, MaintenanceStep(b)
      PROVE  UNCHANGED eject \/ EjectFinish(b)
  BY <1>8 DEF tickVars, MaintenanceStep, ReclaimClaim, ReapKill, ReapFinalize,
              ExpireLeases
<1>9. ASSUME NEW b \in Boots, NEW i \in Issues, WorkerStep(b, i)
      PROVE  UNCHANGED eject \/ EjectKill(b, i)
  BY <1>9 DEF tickVars, WorkerStep, DispatchDiscover, DispatchAcquire,
              HeartbeatEntry, SpawnBackend, SyncBackendPid, StopBackend,
              StopFails, Checkpoint, WorkerExit
<1>10. ASSUME NEW b \in Boots, StartService(b) \/ StopCompletes(b)
       PROVE  UNCHANGED eject
  BY <1>10 DEF tickVars, StartService, StopCompletes
<1>11. CASE \/ \E p \in Pids : ProcessExit(p) \/ PidReuse(p)
            \/ Elapse \/ (\E i \in Issues : EditIssue(i)) \/ UNCHANGED vars
  BY <1>7, <1>11 DEF tickVars, vars, ProcessExit, PidReuse, Elapse, EditIssue
<1> QED BY <1>5, <1>6, <1>7, <1>8, <1>9, <1>10, <1>11 DEF Next

(* Every step preserves Allocated. *)
LEMMA AllocatedStep ==
    ASSUME TypeOK, Allocated, [Next]_vars
    PROVE  Allocated'
<1>1. RegistryEffect
  BY RegistryStep
<1>2. nruns \in Nat /\ RunIds \subseteq Nat
  BY RegistryAssumption DEF TypeOK, RunIds
<1>3. /\ \A r \in RunIds : runs'[r].status = "none" <=> nruns' < r
      /\ \A r \in RunIds : nruns' < r =>
            runs'[r].issue = NoIssue /\ runs'[r].from = NoRun
  <2>1. CASE KeepRows
    BY <2>1 DEF KeepRows, RowStep, Allocated
  <2>2. ASSUME NEW n \in RunIds, NEW i \in Issues, InsertRow(n, i)
        PROVE  <1>3!1 /\ <1>3!2
    <3>1. n = nruns + 1 /\ nruns' = n /\ runs'[n].status = "active"
          /\ \A r \in RunIds : r # n => RowStep(runs[r], runs'[r])
      BY <2>2 DEF InsertRow
    <3>2. \A r \in RunIds : (nruns' < r) <=> (nruns < r /\ r # n)
      BY <1>2, <3>1
    <3> QED BY <3>1, <3>2 DEF RowStep, Allocated
  <2> QED BY <1>1, <2>1, <2>2 DEF RegistryEffect
<1> QED BY <1>1, <1>3, EntryRuns, EjectRuns DEF Allocated

-----------------------------------------------------------------------------
(* The theorems *)

(* Nothing is handed out initially. *)
LEMMA InitAllocated == Init => Allocated
<1> SUFFICES ASSUME Init PROVE Allocated OBVIOUS
<1>1. \A r \in RunIds : runs[r] = FreeRow /\ 0 < r
  BY RegistryAssumption DEF Init, EmptyTable, RunIds
<1> QED BY <1>1 DEF Init, Allocated, FreeRow, NoEntry, NoEject, NoRun

(* The rows' ids are handed out once, in order, and no instance holds an   *)
(* id that was not handed out.                                             *)
THEOREM RowsAllocated == Spec => []Allocated
  BY TypeCorrect, InitAllocated, AllocatedStep, PTL DEF Spec

(* A run that ended never fences its ticket again, whatever late           *)
(* heartbeat, pid callback, reclaim or finalize still arrives.             *)
THEOREM EndedStaysEnded == Spec => NoRevival
<1> DEFINE Step == \A r \in RunIds :
                      runs[r].status \in Statuses \ {"none", "active", "reclaiming"} =>
                          runs'[r].status \notin {"none", "active", "reclaiming"}
<1>1. TypeOK /\ Allocated /\ [Next]_vars => [Step]_vars
  <2> SUFFICES ASSUME TypeOK, Allocated, [Next]_vars PROVE Step OBVIOUS
  <2>1. RegistryEffect
    BY RegistryStep
  <2>2. CASE KeepRows
    BY <2>2 DEF KeepRows, RowStep, Ended
  <2>3. ASSUME NEW n \in RunIds, NEW i \in Issues, InsertRow(n, i)
        PROVE  Step
    <3>1. nruns \in Nat
      BY RegistryAssumption DEF TypeOK
    <3>2. runs[n].status = "none"
      BY <2>3, <3>1 DEF InsertRow, Allocated
    <3> QED BY <2>3, <3>2 DEF InsertRow, RowStep, Ended
  <2> QED BY <2>1, <2>2, <2>3 DEF RegistryEffect
<1> QED BY <1>1, TypeCorrect, RowsAllocated, PTL DEF Spec, NoRevival

(* The inductive invariant of continuation: the run that is continued is   *)
(* an ended, older run of the same ticket, the newest before its           *)
(* successor, and has no other successor and no turn its successor lacks.  *)
Continues(r) ==
    LET src == runs[r].from IN
    /\ src \in RunIds /\ src < r
    /\ runs[src].issue = runs[r].issue /\ runs[r].issue \in Issues
    /\ \A s \in RunIds : s < r /\ runs[s].issue = runs[r].issue => s <= src
    /\ Ended(runs[src]) /\ runs[src].turn <= runs[r].turn

ContinuationInv ==
    /\ \A r \in RunIds : runs[r].from # NoRun => Continues(r)
    /\ OneSuccessor

(* Every step preserves ContinuationInv: a kept row cannot move the        *)
(* checkpoint of an ended run, and an inserted row continues the newest    *)
(* ended run of its ticket, which no other row continues.                  *)
LEMMA ContinuationStep ==
    ASSUME TypeOK, Allocated, ContinuationInv, [Next]_vars, TypeOK'
    PROVE  ContinuationInv'
<1>1. RegistryEffect
  BY RegistryStep
<1>t. \A r \in RunIds : runs[r].turn \in Nat /\ runs'[r].turn \in Nat
  <2>1. \A r \in RunIds : runs[r] \in Row /\ runs'[r] \in Row
    BY DEF TypeOK, Table
  <2> QED BY <2>1, RegistryAssumption DEF Row
<1>2. nruns \in Nat /\ \A r \in RunIds : r \in Nat
  BY RegistryAssumption DEF TypeOK, RunIds
<1>3. CASE KeepRows
  <2>1. \A r \in RunIds : /\ runs'[r].issue = runs[r].issue
                          /\ runs'[r].from = runs[r].from
    BY <1>3 DEF KeepRows, RowStep
  <2>2. ASSUME NEW r \in RunIds, runs'[r].from # NoRun
        PROVE  Continues(r)'
    <3> DEFINE src == runs[r].from
    <3>1. Continues(r) /\ src \in RunIds /\ runs'[r].from = src
      BY <2>1, <2>2 DEF ContinuationInv, Continues
    <3>2. Ended(runs'[src]) /\ runs'[src].turn = runs[src].turn
      BY <1>3, <3>1 DEF KeepRows, RowStep, Continues, Ended
    <3>3. runs'[src].turn <= runs'[r].turn
      <4>1. runs[src].turn <= runs[r].turn /\ runs[r].turn <= runs'[r].turn
        BY <1>3, <3>1 DEF KeepRows, RowStep, Continues
      <4> QED BY <1>t, <3>1, <3>2, <4>1
    <3> QED BY <2>1, <3>1, <3>2, <3>3 DEF Continues, Ended
  <2>3. OneSuccessor'
    BY <2>1 DEF ContinuationInv, OneSuccessor
  <2> QED BY <2>2, <2>3 DEF ContinuationInv
<1>4. ASSUME NEW n \in RunIds, NEW i \in Issues, InsertRow(n, i)
      PROVE  ContinuationInv'
  <2>1. /\ n = nruns + 1 /\ runs'[n].issue = i
        /\ \A r \in RunIds : r # n => RowStep(runs[r], runs'[r])
    BY <1>4 DEF InsertRow
  <2>2. \A r \in RunIds : r # n => /\ runs'[r].issue = runs[r].issue
                                   /\ runs'[r].from = runs[r].from
    BY <2>1 DEF RowStep
  <2>3. runs[n].issue = NoIssue /\ runs[n].from = NoRun /\ runs[n].status = "none"
    BY <1>2, <2>1 DEF Allocated
  <2>4. \A r \in RunIds : r > n => runs[r].issue = NoIssue /\ runs[r].from = NoRun
    BY <1>2, <2>1 DEF Allocated
  <2>5. ASSUME NEW r \in RunIds, r # n, runs'[r].from # NoRun
        PROVE  Continues(r)' /\ r < n /\ runs[r].from # n
    <3> DEFINE src == runs[r].from
    <3>1. Continues(r) /\ src \in RunIds /\ runs'[r].from = src
      BY <2>2, <2>5 DEF ContinuationInv, Continues
    <3>2. r < n /\ src < r
      BY <1>2, <2>2, <2>4, <2>5, <3>1 DEF Continues
    <3>3. src # n
      BY <1>2, <3>1, <3>2
    <3>4. /\ Ended(runs'[src]) /\ runs'[src].turn = runs[src].turn
          /\ runs[r].turn <= runs'[r].turn
      BY <2>1, <2>5, <3>1, <3>3 DEF RowStep, Continues, Ended
    <3>5. runs'[src].turn <= runs'[r].turn
      BY <1>t, <3>1, <3>4 DEF Continues
    <3>6. \A s \in RunIds : s < r /\ runs'[s].issue = runs'[r].issue => s <= src
      <4>1. \A s \in RunIds : s < r => s # n
        BY <1>2, <2>5, <3>2
      <4> QED BY <2>2, <2>5, <3>1, <4>1 DEF Continues
    <3> QED BY <2>2, <2>5, <3>1, <3>2, <3>3, <3>4, <3>5, <3>6
            DEF Continues, Ended
  <2>6. CASE runs'[n].from = NoRun
    <3>1. OneSuccessor'
      BY <2>2, <2>6 DEF ContinuationInv, OneSuccessor
    <3> QED BY <2>5, <2>6, <3>1 DEF ContinuationInv
  <2>7. CASE /\ Eligible(runs'[n].from, i)
             /\ runs'[n].turn = runs[runs'[n].from].turn
    <3> DEFINE src == runs'[n].from
    <3>1. /\ src \in RunIds /\ runs[src].issue = i /\ Ended(runs[src])
          /\ \A s \in RunIds : runs[s].from # src
          /\ \A s \in RunIds : runs[s].issue = i => s <= src
      BY <2>7 DEF Eligible
    <3>2. src # n /\ src < n
      <4>1. runs[src].issue # NoIssue
        BY <3>1, RegistryAssumption
      <4> QED BY <1>2, <2>3, <2>4, <3>1, <4>1
    <3>3. Ended(runs'[src]) /\ runs'[src].turn = runs[src].turn
      BY <2>1, <3>1, <3>2 DEF RowStep, Ended
    <3>4. \A s \in RunIds : s < n /\ runs'[s].issue = i => s <= src
      <4>1. \A s \in RunIds : s < n => s # n
        BY <1>2
      <4> QED BY <2>2, <3>1, <4>1
    <3>5. Continues(n)'
      <4>1. runs'[src].turn <= runs'[n].turn
        BY <1>t, <2>7, <3>1, <3>3
      <4>2. runs'[src].issue = i
        BY <2>2, <3>1, <3>2
      <4> QED BY <2>1, <3>1, <3>2, <3>3, <3>4, <4>1, <4>2 DEF Continues, Ended
    <3>6. OneSuccessor'
      BY <2>2, <3>1 DEF ContinuationInv, OneSuccessor
    <3> QED BY <2>5, <3>5, <3>6 DEF ContinuationInv
  <2> QED BY <1>4, <2>6, <2>7 DEF InsertRow
<1> QED BY <1>1, <1>3, <1>4 DEF RegistryEffect

(* Initially no row continues another. *)
LEMMA InitContinuation == Init => ContinuationInv
  BY DEF Init, EmptyTable, FreeRow, ContinuationInv, OneSuccessor

(* The inductive invariant of continuation holds of every behaviour. *)
THEOREM ContinuationInvariant == Spec => []ContinuationInv
<1>1. TypeOK /\ TypeOK' /\ Allocated /\ ContinuationInv /\ [Next]_vars
          => ContinuationInv'
  BY ContinuationStep
<1> QED BY <1>1, InitContinuation, TypeCorrect, RowsAllocated, PTL DEF Spec

(* A checkpoint is consumed at most once, however discovery and            *)
(* acquisition of any number of instances interleave.                      *)
THEOREM CheckpointConsumedOnce == Spec => []OneSuccessor
<1>1. ContinuationInv => OneSuccessor
  BY DEF ContinuationInv
<1> QED BY <1>1, ContinuationInvariant, PTL

(* A continuation resumes the newest earlier run of its own ticket. *)
THEOREM ContinuationIsNewest == Spec => []ContinuesNewest
<1>1. ContinuationInv => ContinuesNewest
  BY DEF ContinuationInv, ContinuesNewest, Continues
<1> QED BY <1>1, ContinuationInvariant, PTL

(* A worker whose run was continued by another instance cannot move the    *)
(* checkpoint any more: no completed turn is lost.                         *)
THEOREM NoTurnIsLost == Spec => []ContinuationKeepsProgress
<1>1. ContinuationInv => ContinuationKeepsProgress
  BY DEF ContinuationInv, ContinuationKeepsProgress, Continues
<1> QED BY <1>1, ContinuationInvariant, PTL

-----------------------------------------------------------------------------
(* The refinement of RunHistory. *)

(* Rows that stay within RowStep are entries that go on. *)
LEMMA RowGoesOn ==
    ASSUME NEW old \in Row, NEW new \in Row, RowStep(old, new)
    PROVE  History!Goes(LogEntry(old), LogEntry(new))
<1>1. /\ old.turn \in Nat /\ new.turn \in Nat
      /\ old.status \in Statuses /\ new.status \in Statuses
  BY RegistryAssumption DEF Row
<1>2. old.status \in {"none", "active", "reclaiming"} \/ Ended(old)
  BY <1>1 DEF Ended
<1>3. new.status \in {"none", "active", "reclaiming"} \/ Ended(new)
  BY <1>1 DEF Ended
<1>4. \/ Life(new) = Life(old)
      \/ Life(old) = "active" /\ Life(new) \in {"reclaiming", "ended"}
      \/ Life(old) = "reclaiming" /\ Life(new) = "ended"
  BY <1>2, <1>3 DEF RowStep, Life, Ended, Statuses
<1>5. \/ new.turn = old.turn
      \/ Life(old) = "active" /\ new.turn > old.turn
  BY <1>1 DEF RowStep, Life
<1> QED BY <1>4, <1>5 DEF History!Goes, LogEntry, RowStep

LEMMA LogIsTyped ==
    ASSUME NEW row \in Row
    PROVE  LogEntry(row) \in History!Entry
<1>1. row.turn \in Nat /\ row.issue \in Issues \cup {NoIssue} /\ row.from \in 0..MaxRuns
  BY RegistryAssumption DEF Row
<1>2. Life(row) \in {"none", "active", "reclaiming", "ended"}
  BY DEF Life
<1> QED BY <1>1, <1>2 DEF LogEntry, History!Entry

LEMMA StepRefines ==
    ASSUME TypeOK, TypeOK', Allocated, [Next]_vars
    PROVE  [History!Next]_(History!vars)
<1> DEFINE log == [r \in RunIds |-> LogEntry(runs[r])]
<1>1. RegistryEffect
  BY RegistryStep
<1>2. \A r \in RunIds : runs[r] \in Row /\ runs'[r] \in Row
  BY DEF TypeOK, Table
<1>3. log' \in [RunIds -> History!Entry] /\ History!Places = RunIds
  BY <1>2, LogIsTyped DEF RunIds, History!Places
<1>4. \A r \in RunIds : log[r] = LogEntry(runs[r]) /\ log'[r] = LogEntry(runs'[r])
  OBVIOUS
<1>5. ASSUME NEW r \in RunIds, RowStep(runs[r], runs'[r])
      PROVE  History!Goes(log[r], log'[r])
  BY <1>2, <1>4, <1>5, RowGoesOn
<1>6. CASE KeepRows
  <2>1. History!Live
    BY <1>3, <1>5, <1>6 DEF KeepRows, History!Live, History!GoOn
  <2> QED BY <2>1 DEF History!Next
<1>7. ASSUME NEW n \in RunIds, NEW i \in Issues, InsertRow(n, i)
      PROVE  History!Next
  <2> DEFINE new == LogEntry(runs'[n])
  <2>1. /\ n = nruns + 1 /\ nruns' = n /\ nruns < MaxRuns
        /\ \A r \in RunIds \ {n} : RowStep(runs[r], runs'[r])
        /\ runs'[n].status = "active" /\ runs'[n].issue = i
    BY <1>7, RegistryAssumption DEF InsertRow, RunIds, TypeOK
  <2>2. new = [issue |-> i, life |-> "active", turn |-> runs'[n].turn, from |-> runs'[n].from]
    BY <2>1 DEF LogEntry, Life
  <2>3. History!Append(new)
    BY <1>3, <1>4, <1>5, <2>1 DEF History!Append, History!GoOn
  <2> HIDE DEF new
  <2>4. CASE runs'[n].from = NoRun /\ runs'[n].turn = 0
    <3>1. History!Begin(i)
      BY <2>2, <2>3, <2>4 DEF History!Begin, NoRun
    <3> QED BY <3>1 DEF History!Next
  <2>5. CASE Eligible(runs'[n].from, i) /\ runs'[n].turn = runs[runs'[n].from].turn
    <3> DEFINE src == runs'[n].from
    <3>1. /\ src \in RunIds /\ runs[src].issue = i /\ Ended(runs[src])
          /\ \A s \in RunIds : runs[s].from # src
          /\ \A s \in RunIds : runs[s].issue = i => s <= src
          /\ runs'[n].turn = runs[src].turn
      BY <2>5 DEF Eligible
    <3> HIDE DEF src
    <3>2. log[src].issue = i /\ log[src].life = "ended" /\ log[src].turn = runs[src].turn
      BY <1>4, <3>1 DEF LogEntry, Life, Ended
    <3>3. \A p \in RunIds : log[p].issue = runs[p].issue /\ log[p].from = runs[p].from
      BY <1>4 DEF LogEntry
    <3>4. new = [issue |-> i, life |-> "active", turn |-> log[src].turn, from |-> src]
      BY <2>2, <3>1, <3>2 DEF src
    <3>5. History!Resume(i, src)
      BY <1>3, <2>3, <3>1, <3>2, <3>3, <3>4 DEF History!Resume
    <3> QED BY <1>3, <3>1, <3>5 DEF History!Next
  <2> QED BY <1>7, <2>4, <2>5 DEF InsertRow
<1> QED BY <1>1, <1>6, <1>7 DEF RegistryEffect

(* Whatever instances, workers, reclaimers and crashes do, the runs table  *)
(* is the log of RunHistory: what ended stays, turns are added only to     *)
(* runs that live, and a run is resumed once, by the next of its ticket.   *)
THEOREM RegistryImplementsHistory == Spec => ImplementsHistory
<1>1. Init => History!Init
  <2> SUFFICES ASSUME Init PROVE History!Init OBVIOUS
  <2>1. \A r \in RunIds : LogEntry(runs[r]) = History!Nothing
    BY DEF Init, EmptyTable, FreeRow, LogEntry, Life, History!Nothing, NoRun
  <2> QED BY <2>1 DEF Init, History!Init, History!Places, RunIds
<1>2. TypeOK /\ TypeOK' /\ Allocated /\ [Next]_vars => [History!Next]_(History!vars)
  BY StepRefines
<1> QED BY <1>1, <1>2, TypeCorrect, RowsAllocated, PTL DEF Spec, ImplementsHistory, History!Spec

-----------------------------------------------------------------------------
(***************************************************************************)
(* Proofs about the processes that the lease protocol signals, for any     *)
(* number of instances, tickets, pids and reuses of a pid: a fence is      *)
(* released only after the backend it names is gone, and the reaper and    *)
(* force-eject signal no process that Symphony did not start.              *)
(*                                                                         *)
(* The argument follows the fingerprints.  A pid and an identity travel    *)
(* from the driver to the entry, from there to the registry's row, and     *)
(* from the row to a reaper that keeps them across an await.  Backed says   *)
(* that such a pair, wherever it is kept, never names an incarnation that  *)
(* is still to come and, while the incarnation it names lives, that it is  *)
(* one of Symphony's.  ProcStep, what a step may do to a process, keeps     *)
(* that true and makes a backend that is gone stay gone.                   *)
(***************************************************************************)

Backed(ps, p, id) ==
    \/ p = NoPid
    \/ /\ id <= ps[p].inc
       /\ \/ id = NoIdent \/ ps[p].inc # id \/ ps[p].life = "none"
          \/ ps[p].owner # NoIssue

EntryBacked(ps, e) == Backed(ps, e.pid, e.ident) /\ Backed(ps, e.spawn, e.inc)

RowsBacked(t, ps) == \A r \in RunIds : Backed(ps, t[r].pid, t[r].ident)
EntriesBacked(es, ps) == \A b \in Boots, i \in Issues : EntryBacked(ps, es[b][i])
QueuesBacked(q, ps) == \A b \in Boots : \A s \in q[b] : Backed(ps, s.pid, s.ident)
ReapedBacked(d, ps) == \A b \in Boots : d[b] # NoSnapshot => Backed(ps, d[b].pid, d[b].ident)

(* Every fingerprint that is kept anywhere is backed. *)
Fingerprints ==
    /\ RowsBacked(runs, proc) /\ EntriesBacked(entry, proc)
    /\ QueuesBacked(reapQ, proc) /\ ReapedBacked(reaped, proc)

(* A worker has a run, unless it was started without a lease. *)
HasRun(e) == e.on => e.run # NoRun
Leased == \A b \in Boots, i \in Issues : HasRun(entry[b][i])

(* What a step may do to a process: a new incarnation has a new number, and *)
(* an old one changes only by ending.                                      *)
ProcStep(old, new) ==
    /\ old.inc <= new.inc
    /\ new.inc = old.inc => /\ old.life = "none" => new.life = "none"
                            /\ new.life = "none" \/ new.owner = old.owner

-----------------------------------------------------------------------------
(* Fingerprints under a step of the processes *)

LEMMA BackedStable ==
    ASSUME NEW ps \in [Pids -> Process], NEW qs \in [Pids -> Process],
           \A p \in Pids : ProcStep(ps[p], qs[p]),
           NEW p \in Pids \cup {NoPid}, NEW id \in 0..MaxInc, Backed(ps, p, id)
    PROVE  Backed(qs, p, id)
<1>1. CASE p = NoPid
  BY <1>1 DEF Backed
<1>2. CASE p \in Pids
  <2>1. /\ ps[p].inc \in Nat /\ qs[p].inc \in Nat /\ id \in Nat
        /\ ProcStep(ps[p], qs[p])
    BY <1>2, RegistryAssumption DEF Process
  <2> QED BY <1>2, <2>1, RegistryAssumption DEF Backed, ProcStep
<1> QED BY <1>1, <1>2

(* A backend that is gone stays gone, although its pid is reused. *)
LEMMA GoneStable ==
    ASSUME TypeOK, TypeOK', \A q \in Pids : ProcStep(proc[q], proc'[q]),
           NEW p \in Pids \cup {NoPid}, NEW id \in 0..MaxInc,
           Backed(proc, p, id), Gone(p, id)
    PROVE  Gone(p, id)'
<1>1. CASE p = NoPid
  BY <1>1 DEF Gone
<1>2. CASE p \in Pids /\ p # NoPid
  <2>1. /\ proc[p].inc \in Nat /\ proc'[p].inc \in Nat /\ id \in Nat
        /\ ProcStep(proc[p], proc'[p])
    BY <1>2, RegistryAssumption DEF TypeOK, Process
  <2> QED BY <1>2, <2>1 DEF Backed, Gone, ProcStep
<1> QED BY <1>1, <1>2

(* The end of a group. *)
LEMMA GroupGoneStep ==
    ASSUME TypeOK, NEW p \in Pids, proc' = GroupGone(p)
    PROVE  /\ \A q \in Pids : ProcStep(proc[q], proc'[q])
           /\ proc'[p].life = "none"
<1>1. proc \in [Pids -> Process] /\ \A q \in Pids : proc[q].inc \in Nat
  BY RegistryAssumption DEF TypeOK, Process
<1>2. proc'[p] = [proc[p] EXCEPT !.life = "none", !.owner = NoIssue]
      /\ \A q \in Pids : q # p => proc'[q] = proc[q]
  BY <1>1 DEF GroupGone
<1>3. proc'[p].life = "none" /\ proc'[p].inc = proc[p].inc
  BY <1>1, <1>2 DEF Process
<1>4. ASSUME NEW q \in Pids PROVE ProcStep(proc[q], proc'[q])
  <2>1. CASE q = p
    BY <1>1, <1>3, <2>1 DEF ProcStep
  <2>2. CASE q # p
    BY <1>1, <1>2, <2>2 DEF ProcStep
  <2> QED BY <2>1, <2>2
<1> QED BY <1>3, <1>4

(* _reclaim_kill_confirm signals only the incarnation it was given.        *)
LEMMA KillStep ==
    ASSUME TypeOK, NEW p \in Pids \cup {NoPid}, NEW id \in 0..MaxInc, Backed(proc, p, id),
           KillConfirmed(p, id) \/ KillUnconfirmed(p)
    PROVE  /\ \A q \in Pids : ProcStep(proc[q], proc'[q])
           /\ foreign' = foreign
           /\ KillConfirmed(p, id) => Gone(p, id)'
<1>1. \A q \in Pids : ProcStep(proc[q], proc[q])
  BY RegistryAssumption DEF TypeOK, Process, ProcStep
<1>2. CASE UNCHANGED osVars
  <2>1. proc' = proc /\ foreign' = foreign
    BY <1>2 DEF osVars
  <2>2. ASSUME KillConfirmed(p, id) PROVE Gone(p, id)
    <3>1. CASE p = NoPid \/ proc[p].life = "none" \/ proc[p].inc # id
      BY <3>1 DEF Gone
    <3>2. CASE p \in Pids /\ proc[p].life = "leader" /\ KillGroup(p)
      <4>1. proc'[p].life = "none"
        BY <3>2, GroupGoneStep DEF KillGroup
      <4> QED BY <2>1, <3>2, <4>1
    <3> QED BY <2>2, <3>1, <3>2 DEF KillConfirmed
  <2>3. Gone(p, id) => Gone(p, id)'
    BY <2>1 DEF Gone
  <2> QED BY <1>1, <2>1, <2>2, <2>3
<1>3. CASE /\ p # NoPid /\ proc[p].life = "leader" /\ id # NoIdent /\ proc[p].inc = id
           /\ KillGroup(p)
  <2>1. p \in Pids /\ proc' = GroupGone(p)
    BY <1>3 DEF KillGroup
  <2>2. proc[p].owner # NoIssue
    BY <1>3 DEF Backed
  <2>3. foreign' = foreign
    BY <1>3, <2>2 DEF KillGroup, TypeOK
  <2>4. Gone(p, id)'
    BY <2>1, GroupGoneStep DEF Gone
  <2> QED BY <2>1, <2>3, <2>4, GroupGoneStep
<1> QED BY <1>2, <1>3 DEF KillConfirmed, KillUnconfirmed

-----------------------------------------------------------------------------
(* Fingerprints in the registry's rows *)

LEMMA RowsKept ==
    ASSUME NEW t \in Table, NEW ps, RowsBacked(t, ps), NEW n \in RunIds
    PROVE  /\ RowsBacked(ExpireStale(t), ps)
           /\ RowsBacked(ClearBackendPid(t, n), ps)
           /\ RowsBacked(CheckpointTurn(t, n), ps)
           /\ \A status : RowsBacked(CompleteRun(t, n, status), ps)
           /\ RowsBacked(FinalizeReclaimed(t, n), ps)
           /\ \A b, alive : RowsBacked(ReclaimDeadOwners(t, b, alive), ps)
           /\ RowsBacked(ElapseTable(t), ps)
           /\ \A i : RowsBacked(EditTable(t, i), ps)
<1>1. t \in [RunIds -> Row] /\ \A r \in RunIds : t[r] \in Row
  BY DEF Table
<1>2. RowsBacked(ExpireStale(t), ps)
  BY <1>1 DEF ExpireStale, RowsBacked, Row
<1>3. RowsBacked(ClearBackendPid(t, n), ps)
  BY <1>1 DEF ClearBackendPid, RowsBacked, Row, Backed
<1>4. RowsBacked(CheckpointTurn(t, n), ps)
  BY <1>1 DEF CheckpointTurn, RowsBacked, Row
<1>5. ASSUME NEW status PROVE RowsBacked(CompleteRun(t, n, status), ps)
  BY <1>1 DEF CompleteRun, RowsBacked, Row
<1>6. RowsBacked(FinalizeReclaimed(t, n), ps)
  BY <1>1 DEF FinalizeReclaimed, RowsBacked, Row, Backed
<1>7. ASSUME NEW b, NEW alive PROVE RowsBacked(ReclaimDeadOwners(t, b, alive), ps)
  BY <1>1 DEF ReclaimDeadOwners, RowsBacked, Row
<1>8. RowsBacked(ElapseTable(t), ps)
  BY <1>1 DEF ElapseTable, RowsBacked, Row
<1>9. ASSUME NEW i PROVE RowsBacked(EditTable(t, i), ps)
  BY <1>1 DEF EditTable, RowsBacked, Row
<1> QED BY <1>2, <1>3, <1>4, <1>5, <1>6, <1>7, <1>8, <1>9

(* A new row names no backend. *)
LEMMA RowsInserted ==
    ASSUME NEW t \in Table, NEW ps, RowsBacked(t, ps), NEW n \in RunIds,
           NEW b \in Boots, NEW i \in Issues
    PROVE  /\ RowsBacked(AcquireRun(t, n, b, i), ps)
           /\ \A src \in RunIds : RowsBacked(AcquireContinuation(t, n, b, i, src), ps)
<1>1. ExpireStale(t) \in Table /\ RowsBacked(ExpireStale(t), ps)
  BY ExpireStaleType, RowsKept
<1>2. NewRow(b, i) \in Row /\ NewRow(b, i).pid = NoPid
  BY NewRowType DEF NewRow, FreeRow
<1>3. RowsBacked(AcquireRun(t, n, b, i), ps)
  BY <1>1, <1>2 DEF AcquireRun, RowsBacked, Backed, Table
<1>4. ASSUME NEW src \in RunIds
      PROVE  RowsBacked(AcquireContinuation(t, n, b, i, src), ps)
  <2>1. [NewRow(b, i) EXCEPT !.turn = t[src].turn, !.fresh = TRUE, !.from = src].pid = NoPid
    BY <1>2 DEF Row
  <2> QED BY <1>1, <2>1 DEF AcquireContinuation, RowsBacked, Backed, Table
<1> QED BY <1>3, <1>4

(* A heartbeat records the fingerprint it is given. *)
LEMMA RowsBeaten ==
    ASSUME NEW t \in Table, NEW ps, RowsBacked(t, ps), NEW n \in RunIds,
           NEW pid, NEW id, Backed(ps, pid, id)
    PROVE  RowsBacked(Heartbeat(t, n, pid, id), ps)
<1>1. t \in [RunIds -> Row] /\ t[n] \in Row
  BY DEF Table
<1>2. /\ Beat(t[n], pid, id).pid = IF pid = NoPid THEN t[n].pid ELSE pid
      /\ Beat(t[n], pid, id).ident = IF pid = NoPid THEN t[n].ident ELSE id
  BY <1>1 DEF Beat, Row
<1> QED BY <1>1, <1>2 DEF Heartbeat, RowsBacked

-----------------------------------------------------------------------------
(* Fingerprints in the entries *)

LEMMA EntriesSet ==
    ASSUME TypeOK, NEW ps, EntriesBacked(entry, ps), NEW b \in Boots, NEW i \in Issues,
           NEW e, EntryBacked(ps, e), SetEntry(b, i, e)
    PROVE  EntriesBacked(entry', ps)
  BY DEF TypeOK, EntriesBacked, SetEntry

LEMMA EntryChanges ==
    ASSUME NEW e \in Entry, NEW ps, EntryBacked(ps, e)
    PROVE  /\ EntryBacked(ps, NoEntry) /\ \A r : EntryBacked(ps, NewEntry(r))
           /\ \A stops : EntryBacked(ps, LoseLease(e, stops))
           /\ \A r : EntryBacked(ps, [e EXCEPT !.run = r])
<1>1. EntryBacked(ps, NoEntry)
  BY DEF EntryBacked, Backed, NoEntry
<1>2. ASSUME NEW r PROVE EntryBacked(ps, NewEntry(r))
  BY DEF EntryBacked, Backed, NewEntry, NoEntry
<1>3. ASSUME NEW stops PROVE EntryBacked(ps, LoseLease(e, stops))
  BY DEF EntryBacked, LoseLease, Entry
<1>4. ASSUME NEW r PROVE EntryBacked(ps, [e EXCEPT !.run = r])
  BY DEF EntryBacked, Entry
<1> QED BY <1>1, <1>2, <1>3, <1>4

(* A heartbeat, of whatever outcome, moves fingerprints from the entry to  *)
(* the row only.                                                           *)
LEMMA HeartbeatBacked ==
    ASSUME TypeOK, RowsBacked(runs, proc), EntriesBacked(entry, proc),
           NEW b \in Boots, NEW i \in Issues, NEW e \in Entry, EntryBacked(proc, e),
           NEW stops \in BOOLEAN, HeartbeatRunLease(b, i, e, stops)
    PROVE  RowsBacked(runs', proc) /\ EntriesBacked(entry', proc)
<1>1. /\ runs \in Table /\ e.run \in 0..MaxRuns /\ Backed(proc, e.pid, e.ident)
      /\ EntryBacked(proc, LoseLease(e, stops))
      /\ \A r : EntryBacked(proc, [e EXCEPT !.run = r])
  BY EntryChanges DEF TypeOK, Entry, EntryBacked
<1>2. CASE /\ UNCHANGED regVars
           /\ SetEntry(b, i, e) \/ SetEntry(b, i, LoseLease(e, stops))
  <2>1. RowsBacked(runs', proc)
    BY <1>2 DEF regVars
  <2> QED BY <1>1, <1>2, <2>1, EntriesSet
<1>3. CASE /\ e.run # NoRun /\ SetEntry(b, i, e)
           /\ runs' = Heartbeat(runs, e.run, e.pid, e.ident)
  <2>1. RowsBacked(runs', proc)
    BY <1>1, <1>3, RunNumbers, RowsBeaten
  <2> QED BY <1>1, <1>3, <2>1, EntriesSet
<1>4. CASE runs' = ExpireStale(runs) /\ SetEntry(b, i, LoseLease(e, stops))
  <2>1. RowsBacked(runs', proc)
    <3>1. 1 \in RunIds
      BY RegistryAssumption DEF RunIds
    <3> QED BY <1>1, <1>4, <3>1, RowsKept
  <2> QED BY <1>1, <1>4, <2>1, EntriesSet
<1>5. CASE /\ nruns < MaxRuns /\ runs' = AcquireRun(runs, nruns + 1, b, i)
           /\ SetEntry(b, i, [e EXCEPT !.run = nruns + 1])
  <2>1. nruns + 1 \in RunIds
    BY <1>5, RunNumbers DEF TypeOK
  <2>2. RowsBacked(runs', proc)
    BY <1>1, <1>5, <2>1, RowsInserted
  <2> QED BY <1>1, <1>5, <2>2, EntriesSet
<1> QED BY <1>2, <1>3, <1>4, <1>5
        DEF HeartbeatRunLease, HeartbeatRaises, Reacquire

-----------------------------------------------------------------------------
(* Every step of a process is a ProcStep *)

LEMMA ProcsSame ==
    ASSUME TypeOK, UNCHANGED proc
    PROVE  \A q \in Pids : ProcStep(proc[q], proc'[q])
  BY RegistryAssumption DEF TypeOK, Process, ProcStep

(* A pid is given to a new incarnation. *)
LEMMA ProcStarts ==
    ASSUME TypeOK, NEW p \in Pids, NEW owner,
           proc' = [proc EXCEPT ![p] = [inc |-> proc[p].inc + 1, life |-> "leader",
                                        owner |-> owner]]
    PROVE  \A q \in Pids : ProcStep(proc[q], proc'[q])
<1>1. proc \in [Pids -> Process] /\ \A q \in Pids : proc[q].inc \in Nat
  BY RegistryAssumption DEF TypeOK, Process
<1>2. ASSUME NEW q \in Pids PROVE ProcStep(proc[q], proc'[q])
  <2>1. CASE q = p
    BY <1>1, <2>1 DEF ProcStep
  <2>2. CASE q # p
    BY <1>1, <2>2 DEF ProcStep
  <2> QED BY <2>1, <2>2
<1> QED BY <1>2

LEMMA ProcsStep ==
    ASSUME TypeOK, Fingerprints, [Next]_vars
    PROVE  \A q \in Pids : ProcStep(proc[q], proc'[q])
<1> DEFINE Goal == \A q \in Pids : ProcStep(proc[q], proc'[q])
<1>1. CASE UNCHANGED proc
  BY <1>1, ProcsSame
<1>2. ASSUME NEW b \in Boots, ReapKill(b) PROVE Goal
  <2>1. PICK s \in reapQ[b] : KillConfirmed(s.pid, s.ident) \/ KillUnconfirmed(s.pid)
    BY <1>2 DEF ReapKill
  <2>2. s.pid \in Pids \cup {NoPid} /\ s.ident \in 0..MaxInc /\ Backed(proc, s.pid, s.ident)
    BY DEF TypeOK, Snapshot, Fingerprints, QueuesBacked
  <2> QED BY <2>1, <2>2, KillStep
<1>3. ASSUME NEW b \in Boots, NEW i \in Issues, EjectKill(b, i) PROVE Goal
  <2> DEFINE e == entry[b][i]
  <2>1. e.run \in 0..MaxRuns /\ e.pid \in Pids \cup {NoPid}
    BY DEF TypeOK, Entry
  <2>2. CASE /\ e.run # NoRun /\ runs[e.run].pid = e.pid
             /\ KillConfirmed(e.pid, runs[e.run].ident) \/ KillUnconfirmed(e.pid)
    <3>1. e.run \in RunIds
      BY <2>1, <2>2, RunNumbers
    <3>2. runs[e.run].ident \in 0..MaxInc /\ Backed(proc, e.pid, runs[e.run].ident)
      BY <2>2, <3>1 DEF TypeOK, Table, Row, Fingerprints, RowsBacked
    <3> QED BY <2>1, <2>2, <3>2, KillStep
  <2>3. CASE e.pid # NoPid /\ KillGroup(e.pid)
    BY <2>1, <2>3, GroupGoneStep DEF KillGroup
  <2> QED BY <1>1, <1>3, <2>2, <2>3 DEF EjectKill, osVars
<1>4. ASSUME NEW b \in Boots, NEW i \in Issues, StopBackend(b, i) PROVE Goal
  <2>1. entry[b][i].pid \in Pids
    BY <1>4 DEF StopBackend, TypeOK, Entry
  <2> QED BY <1>1, <1>4, <2>1, GroupGoneStep DEF StopBackend
<1>5. ASSUME NEW b \in Boots, NEW i \in Issues, NEW p \in Pids, SpawnBackend(b, i, p) PROVE Goal
  BY <1>5, ProcStarts DEF SpawnBackend
<1>6. ASSUME NEW p \in Pids, PidReuse(p) PROVE Goal
  BY <1>6, ProcStarts DEF PidReuse
<1>7. ASSUME NEW p \in Pids, ProcessExit(p) PROVE Goal
  <2>1. CASE proc' = GroupGone(p)
    BY <2>1, GroupGoneStep
  <2>2. CASE /\ proc[p].life = "leader"
             /\ proc' = [proc EXCEPT ![p] = [proc[p] EXCEPT !.life = "orphans"]]
    <3>1. proc \in [Pids -> Process] /\ \A q \in Pids : proc[q].inc \in Nat
      BY RegistryAssumption DEF TypeOK, Process
    <3>2. /\ proc'[p].inc = proc[p].inc /\ proc'[p].owner = proc[p].owner
          /\ \A q \in Pids : q # p => proc'[q] = proc[q]
      BY <2>2, <3>1 DEF Process
    <3>3. ASSUME NEW q \in Pids PROVE ProcStep(proc[q], proc'[q])
      <4>1. CASE q = p
        BY <2>2, <3>1, <3>2, <4>1 DEF ProcStep
      <4>2. CASE q # p
        BY <3>1, <3>2, <4>2 DEF ProcStep
      <4> QED BY <4>1, <4>2
    <3> QED BY <3>3
  <2> QED BY <1>7, <2>1, <2>2 DEF ProcessExit
<1>8. ASSUME NEW b \in Boots, MaintenanceStep(b) PROVE Goal
  <2>1. ReapKill(b) \/ UNCHANGED proc
    BY <1>8 DEF MaintenanceStep, ReclaimClaim, ReapFinalize, ExpireLeases, EjectFinish, osVars
  <2> QED BY <1>1, <1>2, <2>1
<1>9. ASSUME NEW b \in Boots, NEW i \in Issues, WorkerStep(b, i) PROVE Goal
  <2>1. \/ EjectKill(b, i) \/ StopBackend(b, i) \/ (\E p \in Pids : SpawnBackend(b, i, p))
        \/ UNCHANGED proc
    BY <1>9 DEF WorkerStep, DispatchDiscover, DispatchAcquire, HeartbeatEntry, SyncBackendPid,
                StopFails, Checkpoint, WorkerExit, osVars
  <2> QED BY <1>1, <1>3, <1>4, <1>5, <2>1
<1>10. ASSUME NEW b \in Boots,
              StartService(b) \/ RequestStop(b) \/ StopCompletes(b) \/ Crash(b)
       PROVE  Goal
  BY <1>1, <1>10 DEF StartService, RequestStop, StopCompletes, Crash, osVars
<1>11. CASE Elapse \/ (\E i \in Issues : EditIssue(i)) \/ UNCHANGED vars
  BY <1>1, <1>11 DEF Elapse, EditIssue, osVars, vars
<1> QED BY <1>6, <1>7, <1>8, <1>9, <1>10, <1>11 DEF Next

-----------------------------------------------------------------------------
(* Every step keeps the fingerprints backed *)

(* What was backed before a step of the processes is backed after it. *)
LEMMA CarryRows ==
    ASSUME NEW ps \in [Pids -> Process], NEW qs \in [Pids -> Process],
           \A p \in Pids : ProcStep(ps[p], qs[p]),
           NEW t \in Table, RowsBacked(t, ps)
    PROVE  RowsBacked(t, qs)
<1>1. \A r \in RunIds : t[r].pid \in Pids \cup {NoPid} /\ t[r].ident \in 0..MaxInc
  BY DEF Table, Row
<1> QED BY <1>1, BackedStable DEF RowsBacked

LEMMA CarryEntries ==
    ASSUME NEW ps \in [Pids -> Process], NEW qs \in [Pids -> Process],
           \A p \in Pids : ProcStep(ps[p], qs[p]),
           NEW es \in [Boots -> [Issues -> Entry]], EntriesBacked(es, ps)
    PROVE  EntriesBacked(es, qs)
<1>1. \A b \in Boots, i \in Issues :
         /\ es[b][i].pid \in Pids \cup {NoPid} /\ es[b][i].ident \in 0..MaxInc
         /\ es[b][i].spawn \in Pids \cup {NoPid} /\ es[b][i].inc \in 0..MaxInc
  BY DEF Entry
<1> QED BY <1>1, BackedStable DEF EntriesBacked, EntryBacked

LEMMA CarryReaper ==
    ASSUME NEW ps \in [Pids -> Process], NEW qs \in [Pids -> Process],
           \A p \in Pids : ProcStep(ps[p], qs[p]),
           NEW q \in [Boots -> SUBSET Snapshot], QueuesBacked(q, ps),
           NEW d \in [Boots -> Snapshot \cup {NoSnapshot}], ReapedBacked(d, ps)
    PROVE  QueuesBacked(q, qs) /\ ReapedBacked(d, qs)
<1>1. \A s \in Snapshot : s.pid \in Pids \cup {NoPid} /\ s.ident \in 0..MaxInc
  BY DEF Snapshot
<1>2. ASSUME NEW b \in Boots, NEW s \in q[b] PROVE Backed(qs, s.pid, s.ident)
  BY <1>1, BackedStable DEF QueuesBacked
<1>3. ASSUME NEW b \in Boots, d[b] # NoSnapshot PROVE Backed(qs, d[b].pid, d[b].ident)
  BY <1>1, <1>3, BackedStable DEF ReapedBacked
<1> QED BY <1>2, <1>3 DEF QueuesBacked, ReapedBacked

(* So it is enough to look at the step through the old processes. *)
LEMMA CarryAll ==
    ASSUME TypeOK, TypeOK', Fingerprints, [Next]_vars,
           RowsBacked(runs', proc), EntriesBacked(entry', proc),
           QueuesBacked(reapQ', proc), ReapedBacked(reaped', proc)
    PROVE  Fingerprints'
<1>1. /\ proc \in [Pids -> Process] /\ proc' \in [Pids -> Process]
      /\ \A p \in Pids : ProcStep(proc[p], proc'[p])
  BY ProcsStep DEF TypeOK
<1>2. RowsBacked(runs', proc')
  BY <1>1, CarryRows DEF TypeOK
<1>3. EntriesBacked(entry', proc')
  BY <1>1, CarryEntries DEF TypeOK
<1>4. QueuesBacked(reapQ', proc') /\ ReapedBacked(reaped', proc')
  BY <1>1, CarryReaper DEF TypeOK
<1> QED BY <1>2, <1>3, <1>4 DEF Fingerprints, RowsBacked, EntriesBacked, EntryBacked,
                               QueuesBacked, ReapedBacked, Backed

(* Steps of the tick. *)
LEMMA MaintenanceBacked ==
    ASSUME TypeOK, TypeOK', Fingerprints, NEW b \in Boots, MaintenanceStep(b)
    PROVE  Fingerprints'
<1> USE DEF regVars, tickVars, osVars
<1>1. /\ runs \in Table /\ RowsBacked(runs, proc) /\ EntriesBacked(entry, proc)
      /\ QueuesBacked(reapQ, proc) /\ ReapedBacked(reaped, proc) /\ [Next]_vars
  BY DEF TypeOK, Fingerprints, Next
<1>2. CASE ReclaimClaim(b)
  <2>1. RowsBacked(runs', proc)
    <3>1. 1 \in RunIds
      BY RegistryAssumption DEF RunIds
    <3> QED BY <1>1, <1>2, <3>1, RowsKept DEF ReclaimClaim
  <2>2. \A r \in RunIds : Backed(proc, SnapshotOf(runs', r).pid, SnapshotOf(runs', r).ident)
    BY <2>1 DEF RowsBacked, SnapshotOf
  <2>3. QueuesBacked(reapQ', proc)
    <3>1. \A s \in reapQ'[b] : \E r \in RunIds : s = SnapshotOf(runs', r)
      BY <1>2 DEF ReclaimClaim, TypeOK
    <3>2. \A c \in Boots : c # b => reapQ'[c] = reapQ[c]
      BY <1>2 DEF ReclaimClaim, TypeOK
    <3> QED BY <1>1, <2>2, <3>1, <3>2 DEF QueuesBacked
  <2> QED BY <1>1, <1>2, <2>1, <2>3, CarryAll DEF ReclaimClaim
<1>3. CASE ReapKill(b)
  <2>1. PICK s \in reapQ[b] :
          /\ reapQ' = [reapQ EXCEPT ![b] = reapQ[b] \ {s}]
          /\ reaped' = [reaped EXCEPT ![b] = s] \/ UNCHANGED reaped
    BY <1>3 DEF ReapKill
  <2>2. QueuesBacked(reapQ', proc)
    BY <1>1, <2>1 DEF QueuesBacked, TypeOK
  <2>3. ReapedBacked(reaped', proc)
    BY <1>1, <2>1 DEF QueuesBacked, ReapedBacked, TypeOK
  <2> QED BY <1>1, <1>3, <2>2, <2>3, CarryAll DEF ReapKill
<1>4. CASE ReapFinalize(b)
  <2>1. reaped[b].run \in RunIds
    BY <1>4 DEF ReapFinalize, TypeOK, Snapshot
  <2>2. RowsBacked(runs', proc)
    BY <1>1, <1>4, <2>1, RowsKept DEF ReapFinalize
  <2>3. ReapedBacked(reaped', proc)
    BY <1>1, <1>4 DEF ReapFinalize, ReapedBacked, TypeOK
  <2> QED BY <1>1, <1>4, <2>2, <2>3, CarryAll DEF ReapFinalize
<1>5. CASE ExpireLeases(b)
  <2>1. RowsBacked(runs', proc)
    BY <1>1, <1>5, RowsKept DEF ExpireLeases
  <2> QED BY <1>1, <1>5, <2>1, CarryAll DEF ExpireLeases
<1>6. CASE EjectFinish(b)
  <2> DEFINE i == eject[b].issue
             e == entry[b][i]
             f == [e EXCEPT !.ejecting = FALSE, !.abandoned = TRUE,
                            !.unconfirmed = IF e.run = NoRun THEN @ ELSE ~eject[b].ok]
  <2>1. i \in Issues /\ eject[b].run \in 0..MaxRuns
    BY <1>6 DEF EjectFinish, EjectState, TypeOK
  <2>2. e \in Entry /\ e.run \in 0..MaxRuns /\ EntryBacked(proc, e)
    BY <1>1, <2>1 DEF TypeOK, Entry, EntriesBacked
  <2>3. EntryBacked(proc, f) /\ EntryBacked(proc, NoEntry)
    BY <2>2, EntryChanges DEF EntryBacked, Entry
  <2>4. SetEntry(b, i, e) \/ SetEntry(b, i, f) \/ SetEntry(b, i, NoEntry)
    BY <1>6 DEF EjectFinish
  <2> HIDE DEF f
  <2>5. EntriesBacked(entry', proc)
    BY <1>1, <2>1, <2>2, <2>3, <2>4, EntriesSet
  <2>6. RowsBacked(runs', proc)
    <3>1. UNCHANGED runs \/ (\E r \in RunIds : runs' = CompleteRun(runs, r, "done"))
      BY <1>6, <2>1, <2>2, RunNumbers DEF EjectFinish, FinishRunLease
    <3> QED BY <1>1, <3>1, RowsKept
  <2> QED BY <1>1, <1>6, <2>5, <2>6, CarryAll DEF EjectFinish
<1> QED BY <1>2, <1>3, <1>4, <1>5, <1>6 DEF MaintenanceStep

(* Steps of dispatch, of a worker and of its backend. *)
LEMMA WorkerBacked ==
    ASSUME TypeOK, TypeOK', Fingerprints, NEW b \in Boots, NEW i \in Issues, WorkerStep(b, i)
    PROVE  Fingerprints'
<1> USE DEF regVars, tickVars, osVars
<1> DEFINE e == entry[b][i]
<1>1. /\ runs \in Table /\ RowsBacked(runs, proc) /\ EntriesBacked(entry, proc)
      /\ QueuesBacked(reapQ, proc) /\ ReapedBacked(reaped, proc) /\ [Next]_vars
  BY DEF TypeOK, Fingerprints, Next
<1>2. /\ e \in Entry /\ EntryBacked(proc, e) /\ e.run \in 0..MaxRuns
      /\ e.pid \in Pids \cup {NoPid} /\ e.spawn \in Pids \cup {NoPid} /\ e.inc \in 0..MaxInc
  BY <1>1 DEF TypeOK, Entry, EntriesBacked
<1>3. CASE DispatchDiscover(b, i)
  BY <1>1, <1>3, CarryAll DEF DispatchDiscover
<1>4. CASE DispatchAcquire(b, i)
  <2>1. \/ UNCHANGED <<runs, entry>>
        \/ runs' = ExpireStale(runs) /\ UNCHANGED entry
        \/ /\ nruns < MaxRuns /\ SetEntry(b, i, NewEntry(nruns + 1))
           /\ \/ runs' = AcquireRun(runs, nruns + 1, b, i)
              \/ /\ hint[b].src # NoRun
                 /\ runs' = AcquireContinuation(runs, nruns + 1, b, i, hint[b].src)
        \/ UNCHANGED runs /\ SetEntry(b, i, NewEntry(NoRun))
    BY <1>4 DEF DispatchAcquire, DispatchRefuse, DispatchFresh, DispatchContinuation,
                DispatchLeaseless
  <2>2. RowsBacked(runs', proc)
    <3>1. 1 \in RunIds /\ (nruns < MaxRuns => nruns + 1 \in RunIds)
      BY RegistryAssumption, RunNumbers DEF RunIds, TypeOK
    <3>2. hint[b].src # NoRun => hint[b].src \in RunIds
      BY RunNumbers DEF TypeOK, Hint
    <3>3. RowsBacked(ExpireStale(runs), proc)
      BY <1>1, <3>1, RowsKept
    <3>4. ASSUME nruns < MaxRuns
          PROVE  /\ RowsBacked(AcquireRun(runs, nruns + 1, b, i), proc)
                 /\ hint[b].src # NoRun =>
                      RowsBacked(AcquireContinuation(runs, nruns + 1, b, i, hint[b].src), proc)
      BY <1>1, <3>1, <3>2, <3>4, RowsInserted
    <3> QED BY <1>1, <2>1, <3>3, <3>4
  <2>3. EntriesBacked(entry', proc)
    <3>1. \A r : EntryBacked(proc, NewEntry(r))
      BY <1>2, EntryChanges
    <3> QED BY <1>1, <2>1, <3>1, EntriesSet
  <2> QED BY <1>1, <1>4, <2>2, <2>3, CarryAll DEF DispatchAcquire
<1>5. ASSUME NEW stops \in BOOLEAN, HeartbeatEntry(b, i, stops) PROVE Fingerprints'
  <2>1. RowsBacked(runs', proc) /\ EntriesBacked(entry', proc)
    BY <1>1, <1>2, <1>5, HeartbeatBacked DEF HeartbeatEntry
  <2> QED BY <1>1, <1>5, <2>1, CarryAll DEF HeartbeatEntry
<1>6. ASSUME NEW p \in Pids, SpawnBackend(b, i, p) PROVE Fingerprints'
  <2>1. /\ proc \in [Pids -> Process] /\ proc' \in [Pids -> Process]
        /\ \A q \in Pids : ProcStep(proc[q], proc'[q])
    BY <1>1, ProcsStep DEF TypeOK
  <2>2. RowsBacked(runs, proc') /\ EntriesBacked(entry, proc')
        /\ QueuesBacked(reapQ, proc') /\ ReapedBacked(reaped, proc')
    BY <1>1, <2>1, CarryRows, CarryEntries, CarryReaper DEF TypeOK
  <2> DEFINE f == [e EXCEPT !.spawn = p, !.inc = proc[p].inc + 1]
  <2>3. EntryBacked(proc', f)
    <3>1. /\ proc'[p].inc = proc[p].inc + 1 /\ proc'[p].owner = i /\ i # NoIssue
          /\ proc[p].inc + 1 \in Nat
      BY <1>6, <2>1, RegistryAssumption DEF SpawnBackend, Process
    <3>2. f.spawn = p /\ f.inc = proc[p].inc + 1 /\ f.pid = NoPid
      BY <1>2, <1>6 DEF SpawnBackend, Entry
    <3> QED BY <3>1, <3>2 DEF EntryBacked, Backed
  <2>4. SetEntry(b, i, f) /\ UNCHANGED <<runs, reapQ, reaped>>
    BY <1>6 DEF SpawnBackend
  <2> HIDE DEF f
  <2>5. EntriesBacked(entry', proc')
    BY <2>2, <2>3, <2>4, EntriesSet
  <2> QED BY <2>2, <2>4, <2>5 DEF Fingerprints, RowsBacked, EntriesBacked, EntryBacked,
                                 QueuesBacked, ReapedBacked, Backed
<1>7. CASE SyncBackendPid(b, i)
  <2>1. PICK id \in {NoIdent} \cup (IF Gone(e.spawn, e.inc) THEN {} ELSE {e.inc}) :
          HeartbeatRunLease(b, i, [e EXCEPT !.pid = e.spawn, !.ident = id, !.spawn = NoPid], TRUE)
    BY <1>7 DEF SyncBackendPid
  <2> DEFINE f == [e EXCEPT !.pid = e.spawn, !.ident = id, !.spawn = NoPid]
  <2>2. f \in Entry /\ f.pid = e.spawn /\ f.ident = id /\ f.spawn = NoPid
    BY <1>2, RunNumbers DEF Entry, NoIdent
  <2>3. EntryBacked(proc, f)
    <3>1. Backed(proc, e.spawn, e.inc) /\ (id = NoIdent \/ id = e.inc)
      BY <1>2 DEF EntryBacked
    <3>2. e.spawn \in Pids => proc[e.spawn].inc \in Nat
      BY RegistryAssumption DEF TypeOK, Process
    <3>3. Backed(proc, e.spawn, id)
      BY <1>2, <3>1, <3>2 DEF Backed, NoIdent
    <3> QED BY <2>2, <3>3 DEF EntryBacked, Backed
  <2> HIDE DEF f
  <2>4. RowsBacked(runs', proc) /\ EntriesBacked(entry', proc)
    BY <1>1, <2>1, <2>2, <2>3, HeartbeatBacked DEF f
  <2> QED BY <1>1, <1>7, <2>4, CarryAll DEF SyncBackendPid
<1>8. CASE StopBackend(b, i)
  <2>1. RowsBacked(runs', proc)
    <3>1. UNCHANGED runs \/ (\E r \in RunIds : runs' = ClearBackendPid(runs, r))
      BY <1>2, <1>8, RunNumbers DEF StopBackend
    <3> QED BY <1>1, <3>1, RowsKept
  <2>2. EntryBacked(proc, [e EXCEPT !.pid = NoPid, !.ident = NoIdent, !.inc = 0])
    <3>1. e.spawn \in Pids => proc[e.spawn].inc \in Nat
      BY RegistryAssumption DEF TypeOK, Process
    <3> QED BY <1>2, <3>1 DEF EntryBacked, Backed, Entry, NoIdent
  <2>3. EntriesBacked(entry', proc)
    BY <1>1, <1>8, <2>2, EntriesSet DEF StopBackend
  <2> QED BY <1>1, <1>8, <2>1, <2>3, CarryAll DEF StopBackend
<1>9. CASE StopFails(b, i)
  <2>1. EntryBacked(proc, [e EXCEPT !.unconfirmed = TRUE])
    BY <1>2 DEF EntryBacked, Entry
  <2>2. EntriesBacked(entry', proc)
    BY <1>1, <1>9, <2>1, EntriesSet DEF StopFails
  <2> QED BY <1>1, <1>9, <2>2, CarryAll DEF StopFails
<1>10. CASE Checkpoint(b, i)
  <2>1. RowsBacked(runs', proc)
    BY <1>1, <1>2, <1>10, RunNumbers, RowsKept DEF Checkpoint
  <2> QED BY <1>1, <1>10, <2>1, CarryAll DEF Checkpoint
<1>11. CASE WorkerExit(b, i)
  <2>1. RowsBacked(runs', proc)
    <3>1. UNCHANGED runs \/ (\E r \in RunIds : runs' = CompleteRun(runs, r, ExitStatus(b)))
      BY <1>2, <1>11, RunNumbers DEF WorkerExit, FinishRunLease
    <3> QED BY <1>1, <3>1, RowsKept
  <2>2. EntriesBacked(entry', proc)
    BY <1>1, <1>2, <1>11, EntryChanges, EntriesSet DEF WorkerExit
  <2> QED BY <1>1, <1>11, <2>1, <2>2, CarryAll DEF WorkerExit
<1>12. CASE EjectKill(b, i)
  <2>1. EntryBacked(proc, [e EXCEPT !.ejecting = TRUE])
    BY <1>2 DEF EntryBacked, Entry
  <2>2. EntriesBacked(entry', proc)
    BY <1>1, <1>12, <2>1, EntriesSet DEF EjectKill
  <2> QED BY <1>1, <1>12, <2>2, CarryAll DEF EjectKill
<1> QED BY <1>3, <1>4, <1>5, <1>6, <1>7, <1>8, <1>9, <1>10, <1>11, <1>12 DEF WorkerStep

LEMMA FingerprintsStep ==
    ASSUME TypeOK, TypeOK', Fingerprints, [Next]_vars
    PROVE  Fingerprints'
<1> USE DEF regVars, tickVars, osVars
<1>1. /\ runs \in Table /\ RowsBacked(runs, proc) /\ EntriesBacked(entry, proc)
      /\ QueuesBacked(reapQ, proc) /\ ReapedBacked(reaped, proc)
  BY DEF TypeOK, Fingerprints
<1>2. ASSUME NEW b \in Boots, EntriesBacked(entry', proc),
             StartService(b) \/ RequestStop(b) \/ StopCompletes(b) \/ Crash(b)
      PROVE  Fingerprints'
  <2>1. QueuesBacked(reapQ', proc) /\ ReapedBacked(reaped', proc)
    BY <1>1, <1>2 DEF StartService, RequestStop, StopCompletes, Crash, ForgetTick,
                      QueuesBacked, ReapedBacked, TypeOK
  <2> QED BY <1>1, <1>2, <2>1, CarryAll DEF StartService, RequestStop, StopCompletes, Crash
<1>3. ASSUME NEW b \in Boots, StartService(b) PROVE Fingerprints'
  BY <1>1, <1>2, <1>3 DEF StartService
<1>4. ASSUME NEW b \in Boots, RequestStop(b) PROVE Fingerprints'
  <2>1. \A c \in Boots, i \in Issues :
           /\ entry'[c][i].pid = entry[c][i].pid /\ entry'[c][i].ident = entry[c][i].ident
           /\ entry'[c][i].spawn = entry[c][i].spawn /\ entry'[c][i].inc = entry[c][i].inc
    <3> SUFFICES ASSUME NEW c \in Boots, NEW i \in Issues
                 PROVE  /\ entry'[c][i].pid = entry[c][i].pid
                        /\ entry'[c][i].ident = entry[c][i].ident
                        /\ entry'[c][i].spawn = entry[c][i].spawn
                        /\ entry'[c][i].inc = entry[c][i].inc
      OBVIOUS
    <3>1. entry[c][i] \in Entry
      BY DEF TypeOK
    <3>2. entry'[c][i] = IF c = b /\ entry[c][i].on
                         THEN [entry[c][i] EXCEPT !.cancelled = TRUE, !.ejecting = FALSE]
                         ELSE entry[c][i]
      BY <1>4 DEF RequestStop, TypeOK
    <3> QED BY <3>1, <3>2 DEF Entry
  <2>2. EntriesBacked(entry', proc)
    BY <1>1, <2>1 DEF EntriesBacked, EntryBacked
  <2> QED BY <1>2, <1>4, <2>2
<1>5. ASSUME NEW b \in Boots, StopCompletes(b) \/ Crash(b) PROVE Fingerprints'
  <2>1. EntryBacked(proc, NoEntry)
    BY DEF EntryBacked, Backed, NoEntry
  <2>2. EntriesBacked(entry', proc)
    <3>1. \A c \in Boots, i \in Issues :
             entry'[c][i] = IF c = b THEN NoEntry ELSE entry[c][i]
      BY <1>5 DEF StopCompletes, Crash, TypeOK
    <3> QED BY <1>1, <2>1, <3>1 DEF EntriesBacked
  <2> QED BY <1>2, <1>5, <2>2
<1>6. ASSUME NEW p \in Pids, ProcessExit(p) \/ PidReuse(p) PROVE Fingerprints'
  BY <1>1, <1>6, CarryAll DEF ProcessExit, PidReuse
<1>7. CASE Elapse \/ \E i \in Issues : EditIssue(i)
  <2>1. 1 \in RunIds
    BY RegistryAssumption DEF RunIds
  <2>2. RowsBacked(runs', proc)
    BY <1>1, <1>7, <2>1, RowsKept DEF Elapse, EditIssue
  <2> QED BY <1>1, <1>7, <2>2, CarryAll DEF Elapse, EditIssue
<1>8. CASE UNCHANGED vars
  BY <1>1, <1>8, CarryAll DEF vars
<1> QED BY <1>3, <1>4, <1>5, <1>6, <1>7, <1>8, MaintenanceBacked, WorkerBacked DEF Next

LEMMA InitFingerprints == Init => Fingerprints
  BY DEF Init, Fingerprints, RowsBacked, EntriesBacked, EntryBacked, QueuesBacked,
         ReapedBacked, Backed, EmptyTable, FreeRow, NoEntry

(* Every pid and identity kept in a row, an entry or a reaper is backed. *)
THEOREM FingerprintsBacked == Spec => []Fingerprints
  BY TypeCorrect, InitFingerprints, FingerprintsStep, PTL DEF Spec

-----------------------------------------------------------------------------
(* Fences are released only over backends that are gone *)

LEMMA ReapedStep ==
    ASSUME TypeOK, TypeOK', Fingerprints, ReapedIsGone, [Next]_vars
    PROVE  ReapedIsGone'
<1> SUFFICES ASSUME NEW b \in Boots, reaped'[b] # NoSnapshot
             PROVE  Gone(reaped[b].pid, reaped[b].ident)'
  BY DEF ReapedIsGone
<1>1. \A q \in Pids : ProcStep(proc[q], proc'[q])
  BY ProcsStep
<1>2. CASE reaped'[b] = reaped[b]
  <2>1. /\ reaped[b].pid \in Pids \cup {NoPid} /\ reaped[b].ident \in 0..MaxInc
        /\ Backed(proc, reaped[b].pid, reaped[b].ident)
        /\ Gone(reaped[b].pid, reaped[b].ident)
    BY <1>2 DEF TypeOK, Snapshot, Fingerprints, ReapedBacked, ReapedIsGone
  <2> QED BY <1>1, <1>2, <2>1, GoneStable DEF Gone
<1>3. CASE reaped'[b] # reaped[b]
  <2>1. ReapKill(b)
    <3>1. ASSUME NEW c \in Boots, MaintenanceStep(c) PROVE ReapKill(b)
      BY <1>3, <3>1 DEF MaintenanceStep, ReclaimClaim, ReapKill, ReapFinalize, ExpireLeases,
                        EjectFinish, tickVars, TypeOK
    <3>2. ASSUME NEW c \in Boots, NEW i \in Issues, WorkerStep(c, i) PROVE FALSE
      BY <1>3, <3>2 DEF WorkerStep, DispatchDiscover, DispatchAcquire, HeartbeatEntry,
                        SpawnBackend, SyncBackendPid, StopBackend, StopFails, Checkpoint,
                        WorkerExit, EjectKill, tickVars
    <3>3. ASSUME NEW c \in Boots,
                 StartService(c) \/ RequestStop(c) \/ StopCompletes(c) \/ Crash(c)
          PROVE  FALSE
      BY <1>3, <3>3 DEF StartService, RequestStop, StopCompletes, Crash, ForgetTick,
                        tickVars, TypeOK
    <3>4. CASE \/ \E p \in Pids : ProcessExit(p) \/ PidReuse(p)
               \/ Elapse
               \/ \E i \in Issues : EditIssue(i)
               \/ UNCHANGED vars
      BY <1>3, <3>4 DEF ProcessExit, PidReuse, Elapse, EditIssue, tickVars, vars
    <3> QED BY <3>1, <3>2, <3>3, <3>4 DEF Next
  <2>2. PICK s \in reapQ[b] : KillConfirmed(s.pid, s.ident) /\ reaped'[b] = s
    BY <1>3, <2>1 DEF ReapKill, TypeOK
  <2>3. s.pid \in Pids \cup {NoPid} /\ s.ident \in 0..MaxInc /\ Backed(proc, s.pid, s.ident)
    BY DEF TypeOK, Snapshot, Fingerprints, QueuesBacked
  <2>4. Gone(s.pid, s.ident)'
    BY <2>2, <2>3, KillStep
  <2> QED BY <2>2, <2>4 DEF Gone
<1> QED BY <1>2, <1>3

(* From the confirmed kill to the transaction that releases the fence, the  *)
(* backend the reaper remembers is gone, although its pid may be reused by  *)
(* then (_reclaim_kill_confirm, an await, finalize_reclaimed_lease).        *)
THEOREM ReapedBackendIsGone == Spec => []ReapedIsGone
<1>1. Init => ReapedIsGone
  BY DEF Init, ReapedIsGone
<1> QED BY <1>1, TypeCorrect, FingerprintsBacked, ReapedStep, PTL DEF Spec

(* What a reaper remembers of a row that is still being reclaimed is what    *)
(* the row says: its old owner cannot change it any more.                   *)
Remembered(t, s) ==
    \/ Ended(t[s.run])
    \/ /\ t[s.run].status = "reclaiming"
       /\ t[s.run].pid = s.pid /\ t[s.run].ident = s.ident

Snapshots ==
    \A b \in Boots : /\ \A s \in reapQ[b] : Remembered(runs, s)
                     /\ reaped[b] # NoSnapshot => Remembered(runs, reaped[b])

LEMMA RememberedStable ==
    ASSUME TypeOK, Allocated, RegistryEffect, NEW s \in Snapshot, Remembered(runs, s)
    PROVE  Remembered(runs', s)
<1>1. s.run \in RunIds
  BY DEF Snapshot
<1>2. RowStep(runs[s.run], runs'[s.run])
  <2>1. CASE KeepRows
    BY <1>1, <2>1 DEF KeepRows
  <2>2. ASSUME NEW n \in RunIds, NEW i \in Issues, InsertRow(n, i)
        PROVE  RowStep(runs[s.run], runs'[s.run])
    <3>1. nruns \in Nat
      BY RegistryAssumption DEF TypeOK
    <3>2. runs[n].status = "none"
      BY <2>2, <3>1 DEF InsertRow, Allocated
    <3>3. s.run # n
      BY <3>2 DEF Remembered, Ended
    <3> QED BY <1>1, <2>2, <3>3 DEF InsertRow
  <2> QED BY <2>1, <2>2 DEF RegistryEffect
<1> QED BY <1>2 DEF Remembered, RowStep

LEMMA SnapshotsStep ==
    ASSUME TypeOK, TypeOK', Allocated, Snapshots, [Next]_vars
    PROVE  Snapshots'
<1>1. RegistryEffect
  BY RegistryStep
<1>2. ASSUME NEW b \in Boots, NEW s \in reapQ'[b] PROVE Remembered(runs', s)
  <2>1. CASE s \in reapQ[b]
    <3>1. s \in Snapshot /\ Remembered(runs, s)
      BY <2>1 DEF TypeOK, Snapshots
    <3> QED BY <1>1, <3>1, RememberedStable
  <2>2. CASE s \notin reapQ[b]
    <3>1. ReclaimClaim(b)
      <4>1. ASSUME NEW c \in Boots, MaintenanceStep(c) PROVE ReclaimClaim(b)
        BY <1>2, <2>2, <4>1 DEF MaintenanceStep, ReclaimClaim, ReapKill, ReapFinalize,
                                ExpireLeases, EjectFinish, tickVars, TypeOK
      <4>2. ASSUME NEW c \in Boots, NEW i \in Issues, WorkerStep(c, i) PROVE FALSE
        BY <1>2, <2>2, <4>2 DEF WorkerStep, DispatchDiscover, DispatchAcquire, HeartbeatEntry,
                          SpawnBackend, SyncBackendPid, StopBackend, StopFails, Checkpoint,
                          WorkerExit, EjectKill, tickVars
      <4>3. ASSUME NEW c \in Boots,
                   StartService(c) \/ RequestStop(c) \/ StopCompletes(c) \/ Crash(c)
            PROVE  FALSE
        BY <1>2, <2>2, <4>3 DEF StartService, RequestStop, StopCompletes, Crash, ForgetTick,
                                tickVars, TypeOK
      <4>4. CASE \/ \E p \in Pids : ProcessExit(p) \/ PidReuse(p)
                 \/ Elapse
                 \/ \E i \in Issues : EditIssue(i)
                 \/ UNCHANGED vars
        BY <1>2, <2>2, <4>4 DEF ProcessExit, PidReuse, Elapse, EditIssue, tickVars, vars
      <4> QED BY <4>1, <4>2, <4>3, <4>4 DEF Next
    <3>2. PICK r \in RunIds : runs'[r].status = "reclaiming" /\ s = SnapshotOf(runs', r)
      BY <1>2, <3>1 DEF ReclaimClaim, TypeOK
    <3> QED BY <3>2 DEF SnapshotOf, Remembered
  <2> QED BY <2>1, <2>2
<1>3. ASSUME NEW b \in Boots, reaped'[b] # NoSnapshot PROVE Remembered(runs', reaped'[b])
  <2>1. CASE reaped'[b] = reaped[b]
    <3>1. reaped[b] \in Snapshot /\ Remembered(runs, reaped[b])
      BY <1>3, <2>1 DEF TypeOK, Snapshots
    <3> QED BY <1>1, <2>1, <3>1, RememberedStable
  <2>2. CASE reaped'[b] # reaped[b]
    <3>1. reaped'[b] \in reapQ[b]
      <4>1. ASSUME NEW c \in Boots, MaintenanceStep(c) PROVE reaped'[b] \in reapQ[b]
        BY <1>3, <2>2, <4>1 DEF MaintenanceStep, ReclaimClaim, ReapKill, ReapFinalize,
                                ExpireLeases, EjectFinish, tickVars, TypeOK
      <4>2. ASSUME NEW c \in Boots, NEW i \in Issues, WorkerStep(c, i) PROVE FALSE
        BY <2>2, <4>2 DEF WorkerStep, DispatchDiscover, DispatchAcquire, HeartbeatEntry,
                          SpawnBackend, SyncBackendPid, StopBackend, StopFails, Checkpoint,
                          WorkerExit, EjectKill, tickVars
      <4>3. ASSUME NEW c \in Boots,
                   StartService(c) \/ RequestStop(c) \/ StopCompletes(c) \/ Crash(c)
            PROVE  FALSE
        BY <1>3, <2>2, <4>3 DEF StartService, RequestStop, StopCompletes, Crash, ForgetTick,
                                tickVars, TypeOK
      <4>4. CASE \/ \E p \in Pids : ProcessExit(p) \/ PidReuse(p)
                 \/ Elapse
                 \/ \E i \in Issues : EditIssue(i)
                 \/ UNCHANGED vars
        BY <2>2, <4>4 DEF ProcessExit, PidReuse, Elapse, EditIssue, tickVars, vars
      <4> QED BY <4>1, <4>2, <4>3, <4>4 DEF Next
    <3>2. reaped'[b] \in Snapshot /\ Remembered(runs, reaped'[b])
      BY <3>1 DEF TypeOK, Snapshots
    <3> QED BY <1>1, <3>2, RememberedStable
  <2> QED BY <2>1, <2>2
<1> QED BY <1>2, <1>3 DEF Snapshots

THEOREM SnapshotsAgree == Spec => []Snapshots
<1>1. Init => Snapshots
  BY DEF Init, Snapshots
<1> QED BY <1>1, TypeCorrect, RowsAllocated, SnapshotsStep, PTL DEF Spec

(* No transaction but finalize_reclaimed_lease turns a row that is being   *)
(* reclaimed into an orphaned one.                                         *)
LEMMA OthersDoNotOrphan ==
    ASSUME NEW t \in Table, NEW n \in RunIds, NEW r \in RunIds, t[r].status = "reclaiming"
    PROVE  /\ ExpireStale(t)[r].status # "orphaned"
           /\ \A pid, id : Heartbeat(t, n, pid, id)[r].status # "orphaned"
           /\ ClearBackendPid(t, n)[r].status # "orphaned"
           /\ CheckpointTurn(t, n)[r].status # "orphaned"
           /\ \A status \in {"done", "shutdown_interrupted"} :
                 CompleteRun(t, n, status)[r].status # "orphaned"
           /\ r # n => FinalizeReclaimed(t, n)[r].status # "orphaned"
           /\ \A b, alive : ReclaimDeadOwners(t, b, alive)[r].status # "orphaned"
           /\ ElapseTable(t)[r].status # "orphaned"
           /\ \A i : EditTable(t, i)[r].status # "orphaned"
           /\ \A b \in Boots, i \in Issues : AcquireRun(t, n, b, i)[r].status # "orphaned"
           /\ \A b \in Boots, i \in Issues, src \in RunIds :
                 AcquireContinuation(t, n, b, i, src)[r].status # "orphaned"
<1>1. t \in [RunIds -> Row] /\ t[r] \in Row /\ t[n] \in Row
  BY DEF Table
<1>2. ExpireStale(t)[r].status # "orphaned"
  BY <1>1 DEF ExpireStale, Row
<1>3. ASSUME NEW pid, NEW id PROVE Heartbeat(t, n, pid, id)[r].status # "orphaned"
  BY <1>1 DEF Heartbeat
<1>4. ClearBackendPid(t, n)[r].status # "orphaned"
  BY <1>1 DEF ClearBackendPid
<1>5. CheckpointTurn(t, n)[r].status # "orphaned"
  BY <1>1 DEF CheckpointTurn, Row
<1>6. ASSUME NEW status \in {"done", "shutdown_interrupted"}
      PROVE  CompleteRun(t, n, status)[r].status # "orphaned"
  BY <1>1 DEF CompleteRun, Row
<1>7. r # n => FinalizeReclaimed(t, n)[r].status # "orphaned"
  BY <1>1 DEF FinalizeReclaimed
<1>8. ASSUME NEW b, NEW alive PROVE ReclaimDeadOwners(t, b, alive)[r].status # "orphaned"
  BY <1>1 DEF ReclaimDeadOwners, Row
<1>9. ElapseTable(t)[r].status # "orphaned"
  BY <1>1 DEF ElapseTable, Row
<1>10. ASSUME NEW i PROVE EditTable(t, i)[r].status # "orphaned"
  BY <1>1 DEF EditTable, Row
<1>11. ExpireStale(t) \in [RunIds -> Row]
  BY ExpireStaleType DEF Table
<1>12. ASSUME NEW b \in Boots, NEW i \in Issues
       PROVE  AcquireRun(t, n, b, i)[r].status # "orphaned"
  BY <1>2, <1>11 DEF AcquireRun, NewRow, FreeRow
<1>13. ASSUME NEW b \in Boots, NEW i \in Issues, NEW src \in RunIds
       PROVE  AcquireContinuation(t, n, b, i, src)[r].status # "orphaned"
  BY <1>2, <1>11 DEF AcquireContinuation, NewRow, FreeRow
<1> QED BY <1>2, <1>3, <1>4, <1>5, <1>6, <1>7, <1>8, <1>9, <1>10, <1>12, <1>13

LEMMA OrphanedByReaper ==
    ASSUME TypeOK, NEW r \in RunIds, [Next]_vars,
           runs[r].status = "reclaiming", runs'[r].status = "orphaned"
    PROVE  \E b \in Boots : ReapFinalize(b) /\ reaped[b].run = r
<1> USE DEF regVars
<1>1. runs \in Table /\ 1 \in RunIds /\ runs' # runs
  BY RegistryAssumption DEF TypeOK, RunIds
<1>2. ASSUME NEW b \in Boots, MaintenanceStep(b)
      PROVE  ReapFinalize(b) /\ reaped[b].run = r
  <2>1. CASE ReclaimClaim(b)
    BY <1>1, <2>1, OthersDoNotOrphan DEF ReclaimClaim
  <2>2. CASE ReapKill(b)
    BY <1>1, <2>2 DEF ReapKill
  <2>3. CASE ReapFinalize(b)
    <3>1. reaped[b].run \in RunIds
      BY <2>3 DEF ReapFinalize, TypeOK, Snapshot
    <3> QED BY <1>1, <2>3, <3>1, OthersDoNotOrphan DEF ReapFinalize
  <2>4. CASE ExpireLeases(b)
    BY <1>1, <2>4, OthersDoNotOrphan DEF ExpireLeases
  <2>5. CASE EjectFinish(b)
    <3> DEFINE i == eject[b].issue
               run == IF entry[b][i].ejecting THEN entry[b][i].run ELSE eject[b].run
    <3>1. i \in Issues /\ run \in 0..MaxRuns
      BY <2>5 DEF EjectFinish, EjectState, TypeOK, Entry
    <3>2. FinishRunLease(run, ~eject[b].ok, "done")
      BY <2>5 DEF EjectFinish
    <3> HIDE DEF run
    <3>3. run \in RunIds /\ runs' = CompleteRun(runs, run, "done")
      BY <1>1, <3>1, <3>2, RunNumbers DEF FinishRunLease
    <3> QED BY <1>1, <3>3, OthersDoNotOrphan
  <2> QED BY <1>2, <2>1, <2>2, <2>3, <2>4, <2>5 DEF MaintenanceStep
<1>3. ASSUME NEW b \in Boots, NEW i \in Issues, WorkerStep(b, i) PROVE FALSE
  <2> DEFINE e == entry[b][i]
  <2>1. e \in Entry /\ e.run \in 0..MaxRuns /\ nruns \in 0..MaxRuns
        /\ (e.run # NoRun => e.run \in RunIds)
        /\ (nruns < MaxRuns => nruns + 1 \in RunIds)
    BY RunNumbers DEF TypeOK, Entry
  <2>2. ASSUME NEW f, f.run = e.run, NEW stops, HeartbeatRunLease(b, i, f, stops) PROVE FALSE
    <3>1. \/ UNCHANGED runs \/ runs' = ExpireStale(runs)
          \/ f.run # NoRun /\ runs' = Heartbeat(runs, f.run, f.pid, f.ident)
          \/ nruns < MaxRuns /\ runs' = AcquireRun(runs, nruns + 1, b, i)
      BY <2>2 DEF HeartbeatRunLease, HeartbeatRaises, Reacquire
    <3> QED BY <1>1, <2>1, <2>2, <3>1, OthersDoNotOrphan
  <2>3. CASE DispatchAcquire(b, i)
    <3>1. hint[b].src # NoRun => hint[b].src \in RunIds
      BY RunNumbers DEF TypeOK, Hint
    <3>2. \/ UNCHANGED runs \/ runs' = ExpireStale(runs)
          \/ nruns < MaxRuns /\ runs' = AcquireRun(runs, nruns + 1, b, i)
          \/ /\ nruns < MaxRuns /\ hint[b].src # NoRun
             /\ runs' = AcquireContinuation(runs, nruns + 1, b, i, hint[b].src)
      BY <2>3 DEF DispatchAcquire, DispatchRefuse, DispatchFresh, DispatchContinuation,
                  DispatchLeaseless
    <3> QED BY <1>1, <2>1, <3>1, <3>2, OthersDoNotOrphan
  <2>4. ASSUME NEW stops \in BOOLEAN, HeartbeatEntry(b, i, stops) PROVE FALSE
    BY <2>2, <2>4 DEF HeartbeatEntry
  <2>5. CASE SyncBackendPid(b, i)
    <3>1. PICK id : HeartbeatRunLease(b, i, [e EXCEPT !.pid = e.spawn, !.ident = id,
                                                      !.spawn = NoPid], TRUE)
      BY <2>5 DEF SyncBackendPid
    <3>2. [e EXCEPT !.pid = e.spawn, !.ident = id, !.spawn = NoPid].run = e.run
      BY <2>1 DEF Entry
    <3> QED BY <2>2, <3>1, <3>2
  <2>6. CASE StopBackend(b, i)
    BY <1>1, <2>1, <2>6, OthersDoNotOrphan DEF StopBackend
  <2>7. CASE Checkpoint(b, i)
    BY <1>1, <2>1, <2>7, OthersDoNotOrphan DEF Checkpoint
  <2>8. CASE WorkerExit(b, i)
    <3>1. e.run \in RunIds /\ runs' = CompleteRun(runs, e.run, ExitStatus(b))
      BY <1>1, <2>1, <2>8 DEF WorkerExit, FinishRunLease
    <3> QED BY <1>1, <3>1, OthersDoNotOrphan DEF ExitStatus
  <2>9. CASE \/ DispatchDiscover(b, i) \/ StopFails(b, i) \/ EjectKill(b, i)
             \/ \E p \in Pids : SpawnBackend(b, i, p)
    BY <1>1, <2>9 DEF DispatchDiscover, StopFails, EjectKill, SpawnBackend
  <2> QED BY <1>3, <2>3, <2>4, <2>5, <2>6, <2>7, <2>8, <2>9 DEF WorkerStep
<1>4. ASSUME NEW b \in Boots,
             StartService(b) \/ RequestStop(b) \/ StopCompletes(b) \/ Crash(b)
      PROVE  FALSE
  BY <1>1, <1>4 DEF StartService, RequestStop, StopCompletes, Crash
<1>5. CASE Elapse \/ \E i \in Issues : EditIssue(i)
  BY <1>1, <1>5, OthersDoNotOrphan DEF Elapse, EditIssue
<1>6. CASE (\E p \in Pids : ProcessExit(p) \/ PidReuse(p)) \/ UNCHANGED vars
  BY <1>1, <1>6 DEF ProcessExit, PidReuse, vars
<1> QED BY <1>2, <1>3, <1>4, <1>5, <1>6 DEF Next

(* A reclaimed row is released only once the backend it names, not merely  *)
(* the one the reaper killed, is gone: between the kill and the release    *)
(* the row's old owner may be alive, but it can no longer change the row.  *)
THEOREM ReleasedFenceIsSafe == Spec => FinalizedBackendGone
<1> DEFINE Step == \A r \in RunIds :
                      runs[r].status = "reclaiming" /\ runs'[r].status = "orphaned" =>
                          Gone(runs[r].pid, runs[r].ident)
<1>1. TypeOK /\ ReapedIsGone /\ Snapshots /\ [Next]_vars => [Step]_vars
  <2> SUFFICES ASSUME TypeOK, ReapedIsGone, Snapshots, [Next]_vars, NEW r \in RunIds,
                      runs[r].status = "reclaiming", runs'[r].status = "orphaned"
               PROVE  Gone(runs[r].pid, runs[r].ident)
    OBVIOUS
  <2>1. PICK b \in Boots : ReapFinalize(b) /\ reaped[b].run = r
    BY OrphanedByReaper
  <2>2. reaped[b] # NoSnapshot
    BY <2>1 DEF ReapFinalize
  <2>3. Gone(reaped[b].pid, reaped[b].ident)
    BY <2>2 DEF ReapedIsGone
  <2>4. Remembered(runs, reaped[b])
    BY <2>2 DEF Snapshots
  <2>5. runs[r].pid = reaped[b].pid /\ runs[r].ident = reaped[b].ident
    BY <2>1, <2>4 DEF Remembered, Ended
  <2> QED BY <2>3, <2>5
<1> QED BY <1>1, TypeCorrect, ReapedBackendIsGone, SnapshotsAgree, PTL
        DEF Spec, FinalizedBackendGone

-----------------------------------------------------------------------------
(* No process of a stranger is signalled *)

LEMMA LeasedSet ==
    ASSUME TypeOK, Leased, NEW b \in Boots, NEW i \in Issues, NEW e, HasRun(e),
           SetEntry(b, i, e)
    PROVE  Leased'
<1>1. \A c \in Boots, j \in Issues :
         entry'[c][j] = IF c = b /\ j = i THEN e ELSE entry[c][j]
  BY DEF TypeOK, SetEntry
<1> QED BY <1>1 DEF Leased, HasRun

LEMMA LeasedSame ==
    ASSUME Leased, UNCHANGED entry
    PROVE  Leased'
  BY DEF Leased, HasRun

LEMMA HeartbeatLeased ==
    ASSUME TypeOK, Leased, NEW b \in Boots, NEW i \in Issues, NEW e \in Entry, HasRun(e),
           NEW stops \in BOOLEAN, HeartbeatRunLease(b, i, e, stops)
    PROVE  Leased'
<1>1. /\ HasRun(LoseLease(e, stops))
      /\ HasRun([e EXCEPT !.run = nruns + 1])
  <2>1. nruns + 1 # NoRun
    BY RegistryAssumption DEF TypeOK, NoRun
  <2> QED BY <2>1 DEF HasRun, LoseLease, Entry
<1>2. \/ SetEntry(b, i, e) \/ SetEntry(b, i, LoseLease(e, stops))
      \/ SetEntry(b, i, [e EXCEPT !.run = nruns + 1])
  BY DEF HeartbeatRunLease, HeartbeatRaises, Reacquire
<1> QED BY <1>1, <1>2, LeasedSet

(* With crash continuation, or while the registry answers, no worker is    *)
(* started without a lease (_try_acquire_run_lease fails closed).          *)
LEMMA LeasedStep ==
    ASSUME CrashContinuation \/ ~Faults, TypeOK, Leased, [Next]_vars
    PROVE  Leased'
<1>1. HasRun(NoEntry) /\ \A r : r # NoRun => HasRun(NewEntry(r))
  BY DEF HasRun, NoEntry, NewEntry
<1>2. nruns + 1 # NoRun
  BY RegistryAssumption DEF TypeOK, NoRun
<1>3. ASSUME NEW b \in Boots, MaintenanceStep(b) PROVE Leased'
  <2>1. CASE EjectFinish(b)
    <3> DEFINE i == eject[b].issue
               e == entry[b][i]
               f == [e EXCEPT !.ejecting = FALSE, !.abandoned = TRUE,
                              !.unconfirmed = IF e.run = NoRun THEN @ ELSE ~eject[b].ok]
    <3>1. i \in Issues
      BY <2>1 DEF EjectFinish, EjectState, TypeOK
    <3>2. e \in Entry /\ HasRun(e)
      BY <3>1 DEF TypeOK, Leased
    <3>3. HasRun(f)
      BY <3>2 DEF HasRun, Entry
    <3>4. SetEntry(b, i, e) \/ SetEntry(b, i, f) \/ SetEntry(b, i, NoEntry)
      BY <2>1 DEF EjectFinish
    <3> HIDE DEF f
    <3> QED BY <1>1, <3>1, <3>2, <3>3, <3>4, LeasedSet
  <2> QED BY <1>3, <2>1, LeasedSame
          DEF MaintenanceStep, ReclaimClaim, ReapKill, ReapFinalize, ExpireLeases
<1>4. ASSUME NEW b \in Boots, NEW i \in Issues, WorkerStep(b, i) PROVE Leased'
  <2> DEFINE e == entry[b][i]
  <2>1. e \in Entry /\ HasRun(e)
    BY DEF TypeOK, Leased
  <2>2. CASE DispatchAcquire(b, i)
    <3>1. UNCHANGED entry \/ SetEntry(b, i, NewEntry(nruns + 1))
      BY <2>2, LeaseAssumption
      DEF DispatchAcquire, DispatchRefuse, DispatchFresh, DispatchContinuation,
          DispatchLeaseless
    <3> QED BY <1>1, <1>2, <3>1, LeasedSet, LeasedSame
  <2>3. ASSUME NEW stops \in BOOLEAN, HeartbeatEntry(b, i, stops) PROVE Leased'
    BY <2>1, <2>3, HeartbeatLeased DEF HeartbeatEntry
  <2>4. CASE SyncBackendPid(b, i)
    <3>1. PICK id \in {NoIdent} \cup (IF Gone(e.spawn, e.inc) THEN {} ELSE {e.inc}) :
            HeartbeatRunLease(b, i, [e EXCEPT !.pid = e.spawn, !.ident = id,
                                              !.spawn = NoPid], TRUE)
      BY <2>4 DEF SyncBackendPid
    <3> DEFINE f == [e EXCEPT !.pid = e.spawn, !.ident = id, !.spawn = NoPid]
    <3>2. f \in Entry /\ HasRun(f)
      BY <2>1, RunNumbers DEF Entry, NoIdent, HasRun
    <3> HIDE DEF f
    <3> QED BY <3>1, <3>2, HeartbeatLeased DEF f
  <2>5. ASSUME NEW p \in Pids, SpawnBackend(b, i, p) PROVE Leased'
    <3>1. HasRun([e EXCEPT !.spawn = p, !.inc = proc[p].inc + 1])
      BY <2>1 DEF HasRun, Entry
    <3> QED BY <2>5, <3>1, LeasedSet DEF SpawnBackend
  <2>6. CASE StopBackend(b, i)
    <3>1. HasRun([e EXCEPT !.pid = NoPid, !.ident = NoIdent, !.inc = 0])
      BY <2>1 DEF HasRun, Entry
    <3> QED BY <2>6, <3>1, LeasedSet DEF StopBackend
  <2>7. CASE StopFails(b, i)
    <3>1. HasRun([e EXCEPT !.unconfirmed = TRUE])
      BY <2>1 DEF HasRun, Entry
    <3> QED BY <2>7, <3>1, LeasedSet DEF StopFails
  <2>8. CASE EjectKill(b, i)
    <3>1. HasRun([e EXCEPT !.ejecting = TRUE])
      BY <2>1 DEF HasRun, Entry
    <3> QED BY <2>8, <3>1, LeasedSet DEF EjectKill
  <2>9. CASE WorkerExit(b, i)
    BY <1>1, <2>9, LeasedSet DEF WorkerExit
  <2>10. CASE DispatchDiscover(b, i) \/ Checkpoint(b, i)
    BY <2>10, LeasedSame DEF DispatchDiscover, Checkpoint
  <2> QED BY <1>4, <2>2, <2>3, <2>4, <2>5, <2>6, <2>7, <2>8, <2>9, <2>10 DEF WorkerStep
<1>5. ASSUME NEW b \in Boots, StopCompletes(b) \/ Crash(b) PROVE Leased'
  <2>1. \A c \in Boots, i \in Issues :
           entry'[c][i] = IF c = b THEN NoEntry ELSE entry[c][i]
    BY <1>5 DEF StopCompletes, Crash, TypeOK
  <2> QED BY <1>1, <2>1 DEF Leased, HasRun
<1>6. ASSUME NEW b \in Boots, RequestStop(b) PROVE Leased'
  <2> SUFFICES ASSUME NEW c \in Boots, NEW i \in Issues PROVE HasRun(entry'[c][i])
    BY DEF Leased, HasRun
  <2>1. entry[c][i] \in Entry /\ HasRun(entry[c][i])
    BY DEF TypeOK, Leased
  <2>2. entry'[c][i] = IF c = b /\ entry[c][i].on
                       THEN [entry[c][i] EXCEPT !.cancelled = TRUE, !.ejecting = FALSE]
                       ELSE entry[c][i]
    BY <1>6 DEF RequestStop, TypeOK
  <2> QED BY <2>1, <2>2 DEF HasRun, Entry
<1>7. CASE UNCHANGED entry
  BY <1>7, LeasedSame
<1>8. CASE \/ \E b \in Boots : StartService(b)
           \/ \E p \in Pids : ProcessExit(p) \/ PidReuse(p)
           \/ Elapse
           \/ \E i \in Issues : EditIssue(i)
           \/ UNCHANGED vars
  BY <1>7, <1>8 DEF StartService, ProcessExit, PidReuse, Elapse, EditIssue, vars
<1> QED BY <1>3, <1>4, <1>5, <1>6, <1>8 DEF Next

LEMMA ForeignStep ==
    ASSUME TypeOK, Fingerprints, Leased, [Next]_vars
    PROVE  foreign' = foreign
<1> USE DEF osVars
<1>1. ASSUME NEW b \in Boots, MaintenanceStep(b) PROVE foreign' = foreign
  <2>1. CASE ReapKill(b)
    <3>1. PICK s \in reapQ[b] : KillConfirmed(s.pid, s.ident) \/ KillUnconfirmed(s.pid)
      BY <2>1 DEF ReapKill
    <3>2. s.pid \in Pids \cup {NoPid} /\ s.ident \in 0..MaxInc /\ Backed(proc, s.pid, s.ident)
      BY DEF TypeOK, Snapshot, Fingerprints, QueuesBacked
    <3> QED BY <3>1, <3>2, KillStep
  <2> QED BY <1>1, <2>1
          DEF MaintenanceStep, ReclaimClaim, ReapFinalize, ExpireLeases, EjectFinish
<1>2. ASSUME NEW b \in Boots, NEW i \in Issues, WorkerStep(b, i) PROVE foreign' = foreign
  <2>1. CASE EjectKill(b, i)
    <3> DEFINE e == entry[b][i]
    <3>1. e.run \in 0..MaxRuns /\ e.pid \in Pids \cup {NoPid} /\ e.run # NoRun
      BY <2>1 DEF EjectKill, TypeOK, Entry, Leased, HasRun
    <3>2. CASE /\ runs[e.run].pid = e.pid
               /\ KillConfirmed(e.pid, runs[e.run].ident) \/ KillUnconfirmed(e.pid)
      <4>1. e.run \in RunIds
        BY <3>1, RunNumbers
      <4>2. runs[e.run].ident \in 0..MaxInc /\ Backed(proc, e.pid, runs[e.run].ident)
        BY <3>2, <4>1 DEF TypeOK, Table, Row, Fingerprints, RowsBacked
      <4> QED BY <3>1, <3>2, <4>2, KillStep
    <3> QED BY <2>1, <3>1, <3>2 DEF EjectKill
  <2> QED BY <1>2, <2>1
          DEF WorkerStep, DispatchDiscover, DispatchAcquire, HeartbeatEntry, SpawnBackend,
              SyncBackendPid, StopBackend, StopFails, Checkpoint, WorkerExit
<1>3. ASSUME NEW b \in Boots,
             StartService(b) \/ RequestStop(b) \/ StopCompletes(b) \/ Crash(b)
      PROVE  foreign' = foreign
  BY <1>3 DEF StartService, RequestStop, StopCompletes, Crash
<1>4. CASE \/ \E p \in Pids : ProcessExit(p) \/ PidReuse(p)
           \/ Elapse
           \/ \E i \in Issues : EditIssue(i)
           \/ UNCHANGED vars
  BY <1>4 DEF ProcessExit, PidReuse, Elapse, EditIssue, vars
<1> QED BY <1>1, <1>2, <1>3, <1>4 DEF Next

(* The reaper and force-eject never signal a process Symphony did not      *)
(* start, whatever pids the operating system reuses, as long as no worker  *)
(* runs without a lease: with crash continuation, which is the default, or *)
(* while the registry does not raise.  (The fail-open path kills by pid     *)
(* alone, and is what the hypothesis leaves out.)                          *)
THEOREM NoStrangerIsKilled ==
    ASSUME CrashContinuation \/ ~Faults
    PROVE  Spec => []NoForeignKill
<1>1. Init => Leased /\ NoForeignKill
  BY DEF Init, Leased, HasRun, NoEntry, NoForeignKill
<1>2. TypeOK /\ Leased /\ [Next]_vars => Leased'
  BY LeasedStep
<1>3. TypeOK /\ Fingerprints /\ Leased /\ NoForeignKill /\ [Next]_vars => NoForeignKill'
  BY ForeignStep DEF NoForeignKill
<1> QED BY <1>1, <1>2, <1>3, TypeCorrect, FingerprintsBacked, PTL DEF Spec

-----------------------------------------------------------------------------
(* A release worker keeps its run *)

(* A release ticket gets a new run of instance b only when b has no worker *)
(* on it: a heartbeat that finds the lease gone does not take another one,  *)
(* and a dispatch of a release ticket is one transaction.                  *)
THEOREM ReleaseWorkerKeepsRun == Spec => ReleaseRunStartsWithWorker
<1>1. TypeOK /\ Allocated /\ [Next]_vars => [NoSecondRun]_vars
  <2> SUFFICES ASSUME TypeOK, Allocated, [Next]_vars, NEW b \in Boots, NEW i \in ReleaseIssues,
                      entry[b][i].on, NEW r \in RunIds, runs'[r].issue = i,
                      runs'[r].owner = b, runs[r].issue # i
               PROVE  FALSE
    BY DEF NoSecondRun
  <2>1. RegistryEffect /\ i \in Issues /\ nruns \in Nat /\ runs \in Table
    BY RegistryStep, LeaseAssumption, RegistryAssumption DEF TypeOK
  <2>2. r = nruns + 1 /\ nruns' = nruns + 1
    BY <2>1 DEF RegistryEffect, KeepRows, InsertRow, RowStep
  <2>3. ASSUME NEW c \in Boots, NEW j \in Issues, NEW src,
               \/ runs' = AcquireRun(runs, nruns + 1, c, j)
               \/ runs' = AcquireContinuation(runs, nruns + 1, c, j, src)
        PROVE  c = b /\ j = i
    <3>1. ExpireStale(runs) \in [RunIds -> Row]
      BY <2>1, ExpireStaleType DEF Table
    <3>2. runs'[r].owner = c /\ runs'[r].issue = j
      BY <2>2, <2>3, <3>1 DEF AcquireRun, AcquireContinuation, NewRow, FreeRow
    <3> QED BY <3>2
  <2>4. ASSUME NEW c \in Boots, NEW j \in Issues, NEW f, NEW stops,
               HeartbeatRunLease(c, j, f, stops)
        PROVE  FALSE
    <3>1. MayReacquire(j, f) /\ runs' = AcquireRun(runs, nruns + 1, c, j)
      BY <2>1, <2>2, <2>4 DEF HeartbeatRunLease, HeartbeatRaises, Reacquire, regVars
    <3> QED BY <2>3, <3>1 DEF MayReacquire
  <2>5. ASSUME NEW c \in Boots, NEW j \in Issues, DispatchAcquire(c, j) PROVE FALSE
    <3>1. \/ runs' = AcquireRun(runs, nruns + 1, c, j)
          \/ runs' = AcquireContinuation(runs, nruns + 1, c, j, hint[c].src)
      BY <2>1, <2>2, <2>5 DEF DispatchAcquire, DispatchRefuse, DispatchFresh,
                              DispatchContinuation, DispatchLeaseless, regVars
    <3>2. c = b /\ j = i
      BY <2>3, <3>1
    <3> QED BY <2>5, <3>2 DEF DispatchAcquire, Discovers
  <2>6. ASSUME NEW c \in Boots, NEW j \in Issues, WorkerStep(c, j) PROVE FALSE
    <3>1. \/ DispatchAcquire(c, j) \/ (\E stops \in BOOLEAN : HeartbeatEntry(c, j, stops))
          \/ SyncBackendPid(c, j)
      <4>1. nruns' # nruns
        BY <2>1, <2>2
      <4>2. DispatchDiscover(c, j) => UNCHANGED nruns
        BY DEF DispatchDiscover, regVars
      <4>3. ASSUME NEW p \in Pids, SpawnBackend(c, j, p) PROVE UNCHANGED nruns
        BY <4>3 DEF SpawnBackend, regVars
      <4>4. StopBackend(c, j) \/ StopFails(c, j) => UNCHANGED nruns
        BY DEF StopBackend, StopFails, regVars
      <4>5. Checkpoint(c, j) \/ WorkerExit(c, j) \/ EjectKill(c, j) => UNCHANGED nruns
        BY DEF Checkpoint, WorkerExit, EjectKill, regVars
      <4> QED BY <2>6, <4>1, <4>2, <4>3, <4>4, <4>5 DEF WorkerStep
    <3> QED BY <2>4, <2>5, <3>1 DEF HeartbeatEntry, SyncBackendPid
  <2>7. ASSUME NEW c \in Boots, MaintenanceStep(c) PROVE FALSE
    BY <2>1, <2>2, <2>7 DEF MaintenanceStep, ReclaimClaim, ReapKill, ReapFinalize,
                            ExpireLeases, EjectFinish, regVars
  <2>8. ASSUME NEW c \in Boots,
               StartService(c) \/ RequestStop(c) \/ StopCompletes(c) \/ Crash(c)
        PROVE  FALSE
    BY <2>1, <2>2, <2>8 DEF StartService, RequestStop, StopCompletes, Crash, regVars
  <2>9. CASE \/ \E p \in Pids : ProcessExit(p) \/ PidReuse(p)
             \/ Elapse
             \/ \E j \in Issues : EditIssue(j)
             \/ UNCHANGED vars
    BY <2>1, <2>2, <2>9 DEF ProcessExit, PidReuse, Elapse, EditIssue, regVars, vars
  <2> QED BY <2>6, <2>7, <2>8, <2>9 DEF Next
<1> QED BY <1>1, TypeCorrect, RowsAllocated, PTL DEF Spec, ReleaseRunStartsWithWorker
=============================================================================
