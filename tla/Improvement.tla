------------------------------ MODULE Improvement ------------------------------
(***************************************************************************)
(* The continuous-improvement heartbeat of orchestrators that share one     *)
(* workflow directory.  A due heartbeat takes a lease file, proves a        *)
(* baseline (in a temporary worktree when the checkout is on another        *)
(* branch), runs the checks, triages the stuck ticket, gives an agent one   *)
(* turn, files what it found as tickets and stamps each mode that had a     *)
(* result.  The whole run has a time limit; the lease has one of its own.   *)
(***************************************************************************)
EXTENDS Naturals, FiniteSets

CONSTANTS Orchs, MaxHeartbeats,   \* orchestrators; ci.max_turns
          MaxCuts,           \* runs cut off by the time limit, a stop or a crash
          MaxIncidents       \* leases outlived, cadence floors elapsed, turn
                             \* counters reset, tickets moved, all together

ASSUME ImprovementAssumption == MaxHeartbeats \in Nat

VARIABLES pc, due, got, found, turns,    \* per orchestrator
          wt, orphaned,     \* temporary worktrees; the ones nobody will remove
          lease,            \* the lease file: none, or whose it is, written, stale
          holding,
          recent,           \* modes whose stamp on disk is within their interval
          onBoard,          \* tickets by key: none, active, parked or closed
          src, linked,      \* the stuck ticket; it waits for the fix ticket
          twice, shared,    \* ghosts: a key was filed twice; two runs overlapped
          cuts, incidents

improvementVars == <<pc, due, got, found, turns, wt, orphaned, lease, holding, recent,
                     onBoard, src, linked, twice, shared, cuts, incidents>>

HeartbeatModes == {"readiness", "blocked_fixes", "agent"}
Keys == {"check", "fix", "idea"}
NoLease == [by |-> "nobody", written |-> TRUE, stale |-> FALSE]
Budgets == <<cuts, incidents>>
FiledVars == <<onBoard, src, linked, twice>>
FileLease == <<lease, holding, shared>>
Trees == <<wt, orphaned>>

ImprovementTypeOK ==
  /\ pc \in [Orchs -> {"idle", "lease", "write", "retry", "load", "baseline", "prove",
                       "checks", "register", "cleanup", "cutclean", "triage", "agent",
                       "file", "end", "cutend"}]
  /\ due \in [Orchs -> SUBSET HeartbeatModes] /\ got \in [Orchs -> SUBSET HeartbeatModes]
  /\ found \in [Orchs -> SUBSET Keys] /\ turns \in [Orchs -> Nat]
  /\ wt \subseteq Orchs /\ orphaned \subseteq Orchs /\ holding \subseteq Orchs
  /\ recent \subseteq HeartbeatModes
  /\ onBoard \in [Keys -> {"none", "active", "parked", "closed"}]

InitImprovement ==
  /\ pc = [o \in Orchs |-> "idle"]
  /\ due = [o \in Orchs |-> {}] /\ got = [o \in Orchs |-> {}] /\ found = [o \in Orchs |-> {}]
  /\ turns = [o \in Orchs |-> 0] /\ wt = {} /\ orphaned = {}
  /\ lease = NoLease /\ holding = {} /\ recent = {}
  /\ onBoard = [k \in Keys |-> "none"] /\ src = "Blocked" /\ linked = FALSE
  /\ twice = FALSE /\ shared = FALSE
  /\ cuts = 0 /\ incidents = 0

Incident == incidents < MaxIncidents /\ incidents' = incidents + 1

Proceed(o, p) == pc' = [pc EXCEPT ![o] = p]

-----------------------------------------------------------------------------
(* Scheduling, on every tick once the interval has passed (time is left out: *)
(* the interval may end at any point).                                       *)

\* One run at a time, within the turn budget.
MaySchedule(o) == pc[o] = "idle" /\ turns[o] < MaxHeartbeats

\* A busy board, or no mode past its floor, postpones the run.
Schedule(o) ==
  /\ MaySchedule(o) /\ recent # HeartbeatModes
  /\ Proceed(o, "lease")
  /\ UNCHANGED <<due, got, found, turns, Trees, FileLease, recent, FiledVars, Budgets>>

ResetTurns(o) ==
  /\ Incident
  /\ turns' = [turns EXCEPT ![o] = 0]
  /\ UNCHANGED <<pc, due, got, found, Trees, FileLease, recent, FiledVars, cuts>>

-----------------------------------------------------------------------------
(* The lease file: created exclusively, then written; one that is stale or   *)
(* cannot be read is removed and created again.                              *)

TakeLease(o) ==
  /\ pc[o] \in {"lease", "retry"} /\ lease = NoLease
  /\ lease' = [by |-> o, written |-> FALSE, stale |-> FALSE]
  /\ Proceed(o, "write")
  /\ UNCHANGED <<due, got, found, turns, Trees, holding, shared, recent, FiledVars, Budgets>>

WriteLease(o) ==
  /\ pc[o] = "write" /\ Proceed(o, "load")
  /\ lease' = IF lease.by = o THEN [lease EXCEPT !.written = TRUE] ELSE lease
  /\ holding' = holding \cup {o} /\ shared' = (shared \/ holding # {})
  /\ UNCHANGED <<due, got, found, turns, Trees, recent, FiledVars, Budgets>>

Abandoned == lease.stale \/ ~lease.written

StealLease(o) ==
  /\ pc[o] = "lease" /\ lease # NoLease /\ Abandoned
  /\ lease' = NoLease /\ Proceed(o, "retry")
  /\ UNCHANGED <<due, got, found, turns, Trees, holding, shared, recent, FiledVars, Budgets>>

\* Someone else runs the heartbeat: wait for the next interval.
LeaseHeld(o) == Proceed(o, "idle") /\ holding' = holding

Postpone(o) ==
  /\ pc[o] \in {"lease", "retry"} /\ lease # NoLease /\ (pc[o] = "lease" => ~Abandoned)
  /\ LeaseHeld(o)
  /\ UNCHANGED <<due, got, found, turns, Trees, lease, shared, recent, FiledVars, Budgets>>

\* refresh() has no caller: a run may outlive its lease.
OutliveLease ==
  /\ lease # NoLease /\ lease.written /\ ~lease.stale
  /\ Incident
  /\ lease' = [lease EXCEPT !.stale = TRUE]
  /\ UNCHANGED <<pc, due, got, found, turns, Trees, holding, shared, recent, FiledVars, cuts>>

-----------------------------------------------------------------------------
(* A run.                                                                    *)

LoadState(o) ==
  /\ pc[o] = "load" /\ due' = [due EXCEPT ![o] = HeartbeatModes \ recent]
  /\ Proceed(o, IF "readiness" \in recent THEN "triage" ELSE "baseline")
  /\ UNCHANGED <<got, found, turns, Trees, FileLease, recent, FiledVars, Budgets>>

\* The checkout is the target and clean, is not provable, or needs a worktree.
PrepareBaseline(o) ==
  /\ pc[o] = "baseline"
  /\ \E p \in {"checks", "triage", "prove"} :
       Proceed(o, p) /\ wt' = IF p = "prove" THEN wt \cup {o} ELSE wt
  /\ UNCHANGED <<due, got, found, turns, orphaned, FileLease, recent, FiledVars, Budgets>>

ProveBaseline(o) ==
  /\ pc[o] = "prove" /\ \E p \in {"checks", "cleanup"} : Proceed(o, p)
  /\ UNCHANGED <<due, got, found, turns, Trees, FileLease, recent, FiledVars, Budgets>>

\* The mode has a result when its checks passed or failed; a missing or slow
\* command proves nothing.
RunChecks(o) ==
  /\ pc[o] = "checks" /\ Proceed(o, "register")
  /\ \E r \in {"passed", "failed", "not_proven"} :
       /\ got' = [got EXCEPT ![o] = IF r = "not_proven" THEN @ ELSE @ \cup {"readiness"}]
       /\ found' = [found EXCEPT ![o] = IF r = "failed" /\ onBoard["check"] # "active"
                                         THEN @ \cup {"check"} ELSE @]
  /\ UNCHANGED <<due, turns, Trees, FileLease, recent, FiledVars, Budgets>>

\* Files the keys that were not on the board when it was read.
Filed(keys) ==
  /\ onBoard' = [k \in Keys |-> IF k \in keys THEN "active" ELSE onBoard[k]]
  /\ twice' = (twice \/ \E k \in keys : onBoard[k] = "active")

RegisterFindings(o) ==
  /\ pc[o] = "register" /\ Filed(found[o] \cap {"check"}) /\ Proceed(o, "cleanup")
  /\ found' = [found EXCEPT ![o] = {}]
  /\ UNCHANGED <<due, got, turns, Trees, FileLease, recent, src, linked, Budgets>>

CleanupBaseline(o) ==
  /\ pc[o] \in {"cleanup", "cutclean"}
  /\ wt' = wt \ {o}
  /\ Proceed(o, IF pc[o] = "cleanup" THEN "triage" ELSE "cutend")
  /\ UNCHANGED <<due, got, found, turns, orphaned, FileLease, recent, FiledVars, Budgets>>

FixOpen == linked /\ onBoard["fix"] \in {"active", "parked"}

\* First the source whose fix is closed goes back, then a stuck source without
\* an open fix gets a proposal, unless the same proposal is still open.
Triage(o) ==
  /\ pc[o] = "triage"
  /\ IF "blocked_fixes" \notin due[o] THEN UNCHANGED <<src, got, found>>
     ELSE /\ src' = IF src = "Blocked" /\ linked /\ onBoard["fix"] = "closed"
                    THEN "Active" ELSE src
          /\ got' = [got EXCEPT ![o] = @ \cup {"blocked_fixes"}]
          /\ found' = [found EXCEPT ![o] = IF src' = "Blocked" /\ ~FixOpen THEN {"fix"} ELSE {}]
  /\ Proceed(o, IF "agent" \in due[o] THEN "agent" ELSE "file")
  /\ UNCHANGED <<due, turns, Trees, FileLease, recent, onBoard, linked, twice, Budgets>>

\* A turn that fails or writes outside its contract proposes nothing, and its
\* mode has no result.
TurnRefused == UNCHANGED <<got, found>>

TurnProposes(o) ==
  /\ got' = [got EXCEPT ![o] = @ \cup {"agent"}]
  /\ \E ideas \in SUBSET {"idea"} : found' = [found EXCEPT ![o] = @ \cup ideas]

AgentTurn(o) ==
  /\ pc[o] = "agent" /\ Proceed(o, "file")
  /\ TurnRefused \/ TurnProposes(o)
  /\ UNCHANGED <<due, turns, Trees, FileLease, recent, FiledVars, Budgets>>

\* What is proposed and not on the open board.
New(o) == {k \in found[o] : onBoard[k] \notin {"active", "parked"}}

LinkBlocker(keys) == linked' = (linked \/ "fix" \in keys)

\* Proposals are filed, the fix linked to its source, and each mode that had a
\* result stamped, all without another await.  The stamps are written over
\* the state read at the start, so those of a run in between are lost.
FileAndStamp(o) ==
  /\ pc[o] = "file" /\ Proceed(o, "end")
  /\ Filed(New(o)) /\ LinkBlocker(New(o))
  /\ recent' = (recent \ due[o]) \cup got[o]
  /\ UNCHANGED <<due, got, found, turns, Trees, FileLease, src, Budgets>>

\* A run that completes, in whatever way, consumes a turn; a stop does not.
EndHeartbeat(o) ==
  /\ pc[o] \in {"end", "cutend"}
  /\ \E consumed \in BOOLEAN :
       /\ consumed \/ pc[o] = "cutend"
       /\ turns' = IF consumed THEN [turns EXCEPT ![o] = @ + 1] ELSE turns
  /\ Proceed(o, "idle") /\ holding' = holding \ {o}
  /\ lease' = IF lease.by = o THEN NoLease ELSE lease
  /\ due' = [due EXCEPT ![o] = {}] /\ got' = [got EXCEPT ![o] = {}]
  /\ found' = [found EXCEPT ![o] = {}]
  /\ UNCHANGED <<Trees, shared, recent, FiledVars, Budgets>>

MutantAfterCut(o) == "cutend"

\* From the checks on, the worktree is removed on the way out.
AfterCut(o) == IF pc[o] = "checks" THEN "cutclean" ELSE "cutend"

\* The run's time is up, or the orchestrator stops, at one of its awaits.
CutHeartbeat(o) ==
  /\ pc[o] \in {"baseline", "prove", "checks", "agent"}
  /\ cuts < MaxCuts /\ cuts' = cuts + 1
  /\ Proceed(o, AfterCut(o))
  /\ orphaned' = IF pc[o] = "prove" THEN orphaned \cup {o} ELSE orphaned
  /\ UNCHANGED <<due, got, found, turns, wt, FileLease, recent, FiledVars, incidents>>

\* The process dies and is started again; the lease file stays.
OrchestratorDies(o) ==
  /\ pc[o] # "idle" /\ cuts < MaxCuts /\ cuts' = cuts + 1
  /\ Proceed(o, "idle")
  /\ turns' = [turns EXCEPT ![o] = 0] /\ holding' = holding \ {o}
  /\ due' = [due EXCEPT ![o] = {}] /\ got' = [got EXCEPT ![o] = {}]
  /\ found' = [found EXCEPT ![o] = {}] /\ orphaned' = orphaned \cup (wt \cap {o})
  /\ UNCHANGED <<wt, lease, shared, recent, FiledVars, incidents>>

-----------------------------------------------------------------------------
(* Time passes for the stamps; workers and operators move the tickets.       *)

FloorElapses ==
  /\ recent # {} /\ Incident /\ recent' = {}
  /\ UNCHANGED <<pc, due, got, found, turns, Trees, FileLease, FiledVars, cuts>>

TicketMoves ==
  /\ Incident
  /\ \/ \E k \in Keys : /\ onBoard[k] = "active" /\ UNCHANGED src
                        /\ \E s \in {"parked", "closed"} : onBoard' = [onBoard EXCEPT ![k] = s]
     \/ src = "Active" /\ src' = "Blocked" /\ UNCHANGED onBoard
  /\ UNCHANGED <<pc, due, got, found, turns, Trees, FileLease, recent, linked, twice, cuts>>

-----------------------------------------------------------------------------
HeartbeatStep(o) ==
  \/ Schedule(o) \/ ResetTurns(o)
  \/ TakeLease(o) \/ WriteLease(o) \/ StealLease(o) \/ Postpone(o)
  \/ LoadState(o) \/ PrepareBaseline(o) \/ ProveBaseline(o) \/ RunChecks(o)
  \/ RegisterFindings(o) \/ CleanupBaseline(o) \/ Triage(o) \/ AgentTurn(o)
  \/ FileAndStamp(o) \/ EndHeartbeat(o) \/ CutHeartbeat(o) \/ OrchestratorDies(o)

NextImprovement ==
  (\E o \in Orchs : HeartbeatStep(o)) \/ OutliveLease \/ FloorElapses \/ TicketMoves

ImprovementSpec == InitImprovement /\ [][NextImprovement]_improvementVars

-----------------------------------------------------------------------------
(* "When turns_used >= max_turns, the scheduler stops scheduling new runs"   *)
(* (rubric.md:249-251): a run that a reset overtakes counts once, and no     *)
(* counter passes its limit.                                                 *)
TurnsStayWithinCap == \A o \in Orchs : turns[o] <= MaxHeartbeats

(* "creates a temporary detached worktree ..., runs checks there, and        *)
(* removes it before finishing" (rubric.md:175-177), unless the run was cut  *)
(* off while it was still proving the baseline, or its process died.         *)
WorktreeRemoved == \A o \in Orchs : pc[o] = "idle" /\ o \in wt => o \in orphaned

(* "Concurrent heartbeat runs against the same baseline would double-report  *)
(* findings" (rubric.md:238-239): as long as the lease kept runs apart, no   *)
(* finding or proposal is filed while its ticket is still at work.           *)
NotReportedTwice == twice => shared

(* "a process must acquire the lease before starting a heartbeat run and     *)
(* release it when the run finishes" (rubric.md:242-244): two runs are never *)
(* under way at once.                                                        *)
OneHeartbeat == Cardinality(holding) <= 1

================================================================================
