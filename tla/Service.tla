-------------------------------- MODULE Service --------------------------------
(***************************************************************************)
(* The command line's service operations on one workflow: start, stop and  *)
(* restart, as separate processes that share a lock file, a record file    *)
(* and the orchestrators they spawn; the hub and the project registry call *)
(* the same operations.                                                    *)
(***************************************************************************)
EXTENDS Naturals, FiniteSets

CONSTANTS Commands,   \* one-shot command processes
          Pids,       \* pids of spawned orchestrators; a pid is not reused
          MaxKills    \* bound: commands killed half way

ASSUME ServiceAssumption == "none" \notin Pids /\ MaxKills \in Nat

VARIABLES lockFile,   \* lock file: who created it, and the pid written in it
          record,     \* pid in the service record
          proc,       \* state of every orchestrator
          backends,   \* orchestrators that left an agent process running
          port,       \* orchestrator that listens on the workflow's port
          cmd,        \* program point of every command
          overlap,    \* history: two commands ran at the same time
          kills

serviceVars == <<lockFile, record, proc, backends, port, cmd, overlap, kills>>

NoOne == "none"
Past == "past"       \* a command that was killed before these
NoFile == [by |-> NoOne, owner |-> NoOne]
os == <<proc, backends, port>>
Kinds == {"start", "replace", "stop", "force", "restart", "force_restart", "open"}

ServiceTypeOK ==
  /\ lockFile \in [by : Commands \cup {Past, NoOne}, owner : Commands \cup {Past, NoOne}]
  /\ record \in Pids \cup {NoOne} /\ port \in Pids \cup {NoOne}
  /\ proc \in [Pids -> {"unused", "booting", "up", "dead"}]
  /\ backends \subseteq Pids

\* Nothing was started yet, or an earlier start left its record, with an
\* orchestrator that still runs or died and left its agents; a command that
\* was killed may have left the lock file.
InitService ==
  /\ lockFile \in {NoFile, [by |-> Past, owner |-> Past]}
  /\ \E p \in Pids, was \in {"unused", "up", "dead"} :
       /\ proc = [q \in Pids |-> IF q = p THEN was ELSE "unused"]
       /\ record = IF was = "unused" THEN NoOne ELSE p
       /\ port = IF was = "up" THEN p ELSE NoOne
       /\ backends = IF was = "unused" THEN {} ELSE {p}
  /\ cmd = [c \in Commands |-> [pc |-> "new", kind |-> NoOne, pid |-> NoOne]]
  /\ overlap = FALSE /\ kills = 0

AtPoint(c, pc) == cmd[c].pc = pc
Advance(c, pc) == cmd' = [cmd EXCEPT ![c].pc = pc]
Underway(c) == cmd[c].pc \notin {"new", "done", "killed"}
Alive(p) == p # NoOne /\ proc[p] \in {"booting", "up"}
Forced(c) == cmd[c].kind \in {"force", "replace", "stale", "force_restart"}
Restarts(c) == cmd[c].kind \in {"restart", "force_restart"}
Nested(c) == cmd[c].kind \in {"replace", "stale"}     \* a stop within a start
LockHeld(c) ==
  \/ cmd[c].pc \in {"owner", "status", "doctor", "spawn", "stable", "save", "unlock"}
  \/ Nested(c) /\ cmd[c].pc \in {"stop", "backends", "clear"}

-----------------------------------------------------------------------------
(* Commands.                                                                *)

\* ProjectRegistry.status: a reachable endpoint counts without a record.
Reachable == port # NoOne
StatusRunning == Alive(record) \/ Reachable

\* A stop loads the record without the lock.  The hub's "open" starts only
\* what does not report running.
Invoke(c, kind) ==
  /\ AtPoint(c, "new")
  /\ overlap' = (overlap \/ \E d \in Commands : Underway(d))
  /\ cmd' = [cmd EXCEPT ![c] =
       [kind |-> IF kind = "open" THEN "start" ELSE kind,
        pid  |-> IF kind \in {"start", "replace", "open"} THEN NoOne ELSE record,
        pc   |-> CASE kind \in {"start", "replace"} -> "lock"
                   [] kind = "open" -> IF StatusRunning THEN "done" ELSE "lock"
                   [] OTHER -> IF record = NoOne
                               THEN IF kind \in {"stop", "force"} THEN "done" ELSE "lock"
                               ELSE "stop"]]
  /\ UNCHANGED <<lockFile, record, os, kills>>

\* The lock file is created exclusively, and empty.
CreateLock(c) ==
  /\ AtPoint(c, "lock")
  /\ IF lockFile = NoFile
     THEN lockFile' = [by |-> c, owner |-> NoOne] /\ Advance(c, "owner")
     ELSE UNCHANGED lockFile /\ Advance(c, "inspect")
  /\ UNCHANGED <<record, os, overlap, kills>>

\* A file without a pid counts as stale.
InspectLock(c) ==
  /\ AtPoint(c, "inspect")
  /\ IF lockFile.owner \in Commands /\ Underway(lockFile.owner)
     THEN Advance(c, "done") ELSE Advance(c, "reclaim")
  /\ UNCHANGED <<lockFile, record, os, overlap, kills>>

UnlinkStale(c) ==
  /\ AtPoint(c, "reclaim")
  /\ lockFile' = NoFile
  /\ Advance(c, "recreate")
  /\ UNCHANGED <<record, os, overlap, kills>>

RecreateLock(c) ==
  /\ AtPoint(c, "recreate")
  /\ IF lockFile = NoFile
     THEN lockFile' = [by |-> c, owner |-> NoOne] /\ Advance(c, "owner")
     ELSE UNCHANGED lockFile /\ Advance(c, "done")
  /\ UNCHANGED <<record, os, overlap, kills>>

\* The pid goes into the file this command created, linked or not.
WriteOwner(c) ==
  /\ AtPoint(c, "owner")
  /\ lockFile' = IF lockFile.by = c THEN [lockFile EXCEPT !.owner = c] ELSE lockFile
  /\ Advance(c, "status")
  /\ UNCHANGED <<record, os, overlap, kills>>

\* service_status and the first part of _start_locked.
CheckStatus(c) ==
  /\ AtPoint(c, "status")
  /\ cmd' = [cmd EXCEPT ![c] =
       IF record = NoOne THEN [@ EXCEPT !.pc = "doctor"]
       ELSE IF Alive(record) \/ port = record
       THEN IF @.kind = "replace" THEN [@ EXCEPT !.pc = "stop", !.pid = record]
            ELSE [@ EXCEPT !.pc = "unlock"]
       ELSE [kind |-> "stale", pid |-> record, pc |-> "stop"]]
  /\ UNCHANGED <<lockFile, record, os, overlap, kills>>

\* The doctor refuses a port somebody listens on.
Doctor(c) ==
  /\ AtPoint(c, "doctor")
  /\ Advance(c, IF port = NoOne THEN "spawn" ELSE "unlock")
  /\ UNCHANGED <<lockFile, record, os, overlap, kills>>

Spawn(c) ==
  /\ AtPoint(c, "spawn")
  /\ \E p \in Pids :
       /\ proc[p] = "unused"
       /\ proc' = [proc EXCEPT ![p] = "booting"]
       /\ cmd' = [cmd EXCEPT ![c].pid = p, ![c].pc = "stable"]
  /\ UNCHANGED <<lockFile, record, backends, port, overlap, kills>>

\* Alive at the end of the stability window, or exited within it.
Stable(c) ==
  /\ AtPoint(c, "stable")
  /\ Advance(c, IF Alive(cmd[c].pid) THEN "save" ELSE "unlock")
  /\ UNCHANGED <<lockFile, record, os, overlap, kills>>

SaveRecord(c) ==
  /\ AtPoint(c, "save")
  /\ record' = cmd[c].pid
  /\ Advance(c, "unlock")
  /\ UNCHANGED <<lockFile, os, overlap, kills>>

Kill(p) ==
  /\ proc' = [proc EXCEPT ![p] = "dead"]
  /\ port' = IF port = p THEN NoOne ELSE port

MutantSaveFails(c) ==
  /\ AtPoint(c, "save")
  /\ Advance(c, "unlock")
  /\ UNCHANGED <<lockFile, record, os, overlap, kills>>

\* A record that cannot be written takes the orchestrator down again.
SaveFails(c) ==
  /\ AtPoint(c, "save")
  /\ Kill(cmd[c].pid)
  /\ Advance(c, "unlock")
  /\ UNCHANGED <<lockFile, record, backends, overlap, kills>>

\* The lock file is unlinked, whoever created the one that is there now.
Unlock(c) ==
  /\ AtPoint(c, "unlock")
  /\ lockFile' = NoFile
  /\ Advance(c, "done")
  /\ UNCHANGED <<record, os, overlap, kills>>

-----------------------------------------------------------------------------
(* _stop.                                                                   *)

\* After SIGTERM the orchestrator is gone, or it still runs at the timeout;
\* a forced stop then kills it.
StopOrchestrator(c) ==
  LET p == cmd[c].pid IN
  /\ AtPoint(c, "stop")
  /\ \/ /\ ~Alive(p) \/ Forced(c)
        /\ IF Alive(p) THEN Kill(p) ELSE UNCHANGED <<proc, port>>
        /\ Advance(c, "backends")
        /\ UNCHANGED backends
     \/ \* a graceful exit stops its agents itself
        /\ Alive(p) /\ Kill(p)
        /\ backends' = backends \ {p}
        /\ Advance(c, "backends")
     \/ \* still running: the record is kept
        /\ Alive(p) /\ ~Forced(c)
        /\ Advance(c, "done")
        /\ UNCHANGED <<proc, port, backends>>
  /\ UNCHANGED <<lockFile, record, overlap, kills>>

\* A forced stop kills the agent processes the registry or a workspace path
\* still name, and keeps the record when one survives.
StopBackends(c) ==
  /\ AtPoint(c, "backends")
  /\ \/ /\ backends' = IF Forced(c) THEN backends \ {cmd[c].pid} ELSE backends
        /\ Advance(c, "clear")
     \/ /\ Forced(c) /\ cmd[c].pid \in backends
        /\ Advance(c, IF Nested(c) THEN "unlock" ELSE "done")
        /\ UNCHANGED backends
  /\ UNCHANGED <<lockFile, record, proc, port, overlap, kills>>

\* clear_record unlinks whatever record is there.
ClearRecord(c) ==
  /\ AtPoint(c, "clear")
  /\ record' = NoOne
  /\ Advance(c, CASE Nested(c) -> "doctor"
               [] Restarts(c) -> "lock"
               [] OTHER -> "done")
  /\ UNCHANGED <<lockFile, os, overlap, kills>>

-----------------------------------------------------------------------------
(* The orchestrators, and commands that are killed.                         *)

\* An orchestrator that cannot listen exits.
Boot(p) ==
  /\ proc[p] = "booting"
  /\ IF port = NoOne
     THEN port' = p /\ proc' = [proc EXCEPT ![p] = "up"]
     ELSE UNCHANGED port /\ proc' = [proc EXCEPT ![p] = "dead"]
  /\ UNCHANGED <<lockFile, record, backends, cmd, overlap, kills>>

StartAgent(p) ==
  /\ proc[p] = "up" /\ p \notin backends
  /\ backends' = backends \cup {p}
  /\ UNCHANGED <<lockFile, record, proc, port, cmd, overlap, kills>>

Die(p) ==
  /\ Alive(p) /\ Kill(p)
  /\ UNCHANGED <<lockFile, record, backends, cmd, overlap, kills>>

KillCommand(c) ==
  /\ Underway(c) /\ kills < MaxKills
  /\ Advance(c, "killed")
  /\ kills' = kills + 1
  /\ UNCHANGED <<lockFile, record, os, overlap>>

CommandStep(c) ==
  \/ \E kind \in Kinds : Invoke(c, kind)
  \/ CreateLock(c) \/ InspectLock(c) \/ UnlinkStale(c) \/ RecreateLock(c) \/ WriteOwner(c)
  \/ CheckStatus(c) \/ Doctor(c) \/ Spawn(c) \/ Stable(c) \/ SaveRecord(c) \/ SaveFails(c)
  \/ Unlock(c) \/ StopOrchestrator(c) \/ StopBackends(c) \/ ClearRecord(c) \/ KillCommand(c)

NextService ==
  \/ \E c \in Commands : CommandStep(c)
  \/ \E p \in Pids : Boot(p) \/ StartAgent(p) \/ Die(p)

ServiceSpec == InitService /\ [][NextService]_serviceVars

-----------------------------------------------------------------------------
(* With commands one at a time and none of them killed, an orchestrator that *)
(* is alive is the one the record names, so that stop and status find it     *)
(* (service.py _start_locked, _stop).                                        *)
ServiceIsManaged ==
  ~overlap /\ kills = 0 /\ (\A c \in Commands : ~Underway(c)) =>
    \A p \in Pids : Alive(p) => record = p

(* A stop clears the record only when the orchestrator it found there is     *)
(* gone, a forced one only when the agents it left behind are gone too       *)
(* (service.py _stop, _terminate_active_backend_processes).                  *)
StopIsComplete ==
  \A c \in Commands : AtPoint(c, "clear") =>
    ~Alive(cmd[c].pid) /\ (Forced(c) => cmd[c].pid \notin backends)

(* "Raised when another service operation already owns the workflow lock"    *)
(* (service.py:121), and "if it exists but its owner pid is dead, reclaim    *)
(* once" (service.py:199): no two commands are past the lock.                *)
LockExcludes ==
  \A c, d \in Commands : LockHeld(c) /\ LockHeld(d) => c = d

===============================================================================
