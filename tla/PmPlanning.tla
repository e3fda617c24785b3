---------------------------- MODULE PmPlanning ----------------------------
(***************************************************************************)
(* Planning operations (pm/planning.py, pm/routes.py): a request starts a  *)
(* planning agent for a proposal and records the answer; other requests    *)
(* cancel it.  The agent's client is driven by a task of its own, which    *)
(* outlives a request that goes away.  The task, the request, the requests *)
(* that cancel it and the reader of the agent's output all stop the agent, *)
(* one at a time, and the system may not confirm that its process group is *)
(* gone.                                                                   *)
(***************************************************************************)
EXTENDS Naturals

CONSTANTS
  Ops,         \* operation ids
  Cancels,     \* requests that cancel
  MaxFaults    \* bound: requests cut off, stops by the reader, restarts

\* A cancelling request is not one of the client's other holders.
ASSUME PlanningAssumption ==
  /\ MaxFaults \in Nat
  /\ Cancels \cap {"free", "task", "route", "reader"} = {}

VARIABLES
  row,         \* pm_operations: state of each operation
  ids,         \* pm_planning_reserved_ids: state of the operation's ids
  entry,       \* active_planning: [in, err: cleanup_error is set, finished]
  cancelling,  \* cancelling_planning
  client,      \* PmPlanningClient of each operation
  route,       \* the request that makes the proposal: [pc, attempt]
  req,         \* the requests that cancel: [pc, op, over, again]
  stray,       \* stops the reader has asked for
  faults

vars == <<row, ids, entry, cancelling, client, route, req, stray, faults>>

Over == {"completed", "failed", "cancelled"}
NoEntry == [in |-> FALSE, err |-> FALSE, finished |-> FALSE]
NoRequest == [pc |-> "off", attempt |-> 0]
NoCancel(o) == [pc |-> "off", op |-> o, over |-> FALSE, again |-> FALSE]

\* alive: the agent's process group; held: self.process is set; unsure:
\* _cleanup_uncertain; task: how far the proposal's task is; lock: who stops.
NewClient ==
  [alive |-> FALSE, held |-> FALSE, unsure |-> FALSE, cancel |-> FALSE,
   task |-> "none", result |-> "ok", lock |-> "free"]

Init ==
  /\ row = [o \in Ops |-> "none"] /\ ids = [o \in Ops |-> "none"]
  /\ entry = [o \in Ops |-> NoEntry] /\ cancelling = {}
  /\ client = [o \in Ops |-> NewClient]
  /\ route = [o \in Ops |-> NoRequest]
  /\ \E o \in Ops : req = [k \in Cancels |-> NoCancel(o)]
  /\ stray = {} /\ faults = 0

Client ==
  [alive : BOOLEAN, held : BOOLEAN, unsure : BOOLEAN, cancel : BOOLEAN,
   task : {"none", "admit", "spawn", "talk", "unwind", "stop", "done"},
   result : {"ok", "error", "unclean"},
   lock : Cancels \cup {"free", "task", "route", "reader"}]
Entry == [in : BOOLEAN, err : BOOLEAN, finished : BOOLEAN]
Route == [pc : {"off", "propose", "ids", "unwind", "unwound", "stop"}, attempt : 0..2]
Request ==
  [pc : {"off", "wait", "halt", "stop", "finish"}, op : Ops, over : BOOLEAN, again : BOOLEAN]

TypeOK ==
  /\ row \in [Ops -> {"none", "pending"} \cup Over]
  /\ ids \in [Ops -> {"none", "RESERVED", "RETIRED"}]
  /\ entry \in [Ops -> Entry] /\ client \in [Ops -> Client] /\ route \in [Ops -> Route]
  /\ req \in [Cancels -> Request]
  /\ cancelling \subseteq Ops /\ stray \subseteq Ops /\ faults \in 0..MaxFaults

-----------------------------------------------------------------------------
(* The client.                                                             *)

Fault == faults < MaxFaults /\ faults' = faults + 1
Running(o) == client[o].task \notin {"none", "done"}
CleanupUncertain(o) == client[o].unsure \/ (client[o].cancel /\ Running(o))
Do(o, c) == client' = [client EXCEPT ![o] = c]
TaskOnly == UNCHANGED <<row, ids, entry, cancelling, route, req, faults>>

\* start: not for a cancelled client, or beside a process it still holds.
MayLaunch(c) == ~c.cancel /\ ~c.held

\* admit_codex: the installed agent is probed, and may be refused.
Admit(o) ==
  LET c == client[o] IN
  /\ c.task = "admit"
  /\ \/ MayLaunch(c) /\ Do(o, [c EXCEPT !.task = "spawn", !.alive = TRUE])
     \/ Do(o, [c EXCEPT !.task = "stop", !.result = "error"])
  /\ TaskOnly /\ UNCHANGED stray

\* _start_runtime: the process exists before the client holds it.
Spawned(o) ==
  LET c == client[o] IN
  /\ c.task = "spawn"
  /\ \/ Do(o, [c EXCEPT !.held = TRUE, !.task = IF c.cancel THEN "unwind" ELSE "talk"])
     \/ Do(o, [c EXCEPT !.alive = FALSE, !.task = "unwind"])
  /\ TaskOnly /\ UNCHANGED stray

\* The turn ends with a well-formed answer.
Answered(o) ==
  LET c == client[o] IN
  /\ c.task = "talk" /\ c.alive /\ Do(o, [c EXCEPT !.task = "stop"])
  /\ TaskOnly /\ UNCHANGED stray

\* A request of the start-up or of the turn fails: by an error, the deadline,
\* a limit, a cancelled or stopped client, the death of the agent.
TalkFails(o) ==
  LET c == client[o] IN
  /\ c.task = "talk"
  /\ \E t \in {"unwind", "stop"}, a \in {c.alive, FALSE} :
       Do(o, [c EXCEPT !.task = t, !.result = "error", !.alive = a])
  /\ TaskOnly /\ UNCHANGED stray

\* The reader asks for a stop: an unreadable line, a request, a limit.
ReaderStops(o) ==
  /\ client[o].task = "talk" /\ client[o].alive /\ o \notin stray
  /\ Fault /\ stray' = stray \cup {o}
  /\ UNCHANGED <<row, ids, entry, cancelling, client, route, req>>

\* stop: only the proposal's own task may take a client without a process
\* for a stopped one while the task runs; it may be launching one.
MayStop(o, who) == who = "task" \/ client[o].held \/ ~Running(o)

Lock(o, who) ==
  /\ client[o].lock = "free" /\ MayStop(o, who)
  /\ Do(o, [client[o] EXCEPT !.lock = who])
NotYet(o, who) ==
  /\ client[o].lock = "free" /\ ~MayStop(o, who)
  /\ Do(o, [client[o] EXCEPT !.unsure = TRUE])

\* _stop_owned_process: the group is confirmed gone and the process let go,
\* or it is kept and its cleanup uncertain.
Stopped(c) ==
  [c EXCEPT !.alive = @ /\ ~c.held, !.held = FALSE, !.unsure = FALSE, !.lock = "free"]
Unstopped(c) == [c EXCEPT !.unsure = TRUE, !.lock = "free"]

TaskStops(o) ==
  /\ client[o].task \in {"unwind", "stop"} /\ Lock(o, "task")
  /\ TaskOnly /\ UNCHANGED stray

\* A start that failed stops first; every proposal stops last.
TaskStopped(o) ==
  LET c == client[o]
      next == IF c.task = "unwind" THEN "stop" ELSE "done"
  IN  /\ c.lock = "task"
      /\ \/ Do(o, [Stopped(c) EXCEPT !.task = next,
                     !.result = IF c.task = "unwind" THEN "error" ELSE @])
         \/ c.held /\ Do(o, [Unstopped(c) EXCEPT !.task = next, !.result = "unclean"])
      /\ TaskOnly /\ UNCHANGED stray

StrayStop(o) ==
  /\ o \in stray /\ stray' = stray \ {o} /\ NotYet(o, "reader") /\ TaskOnly

StrayStops(o) ==
  /\ o \in stray /\ Lock(o, "reader") /\ TaskOnly /\ UNCHANGED stray

StrayStopped(o) ==
  /\ client[o].lock = "reader" /\ stray' = stray \ {o}
  /\ Do(o, Stopped(client[o])) \/ (client[o].held /\ Do(o, Unstopped(client[o])))
  /\ TaskOnly

-----------------------------------------------------------------------------
(* planning_action: the request that makes a proposal.                     *)

Retire(o) == ids' = [ids EXCEPT ![o] = IF @ = "RESERVED" THEN "RETIRED" ELSE @]
\* finish_pm_operation: a terminal state is never replaced.
FinishRow(o, state) ==
  row' = [row EXCEPT ![o] = IF @ \in Over THEN @ ELSE state]
GoRoute(o, pc) == route' = [route EXCEPT ![o].pc = pc]
RouteOnly == UNCHANGED <<req, stray>>

\* A prior agent that is not confirmed stopped keeps new ones from starting.
Refused(o) ==
  \E p \in Ops \ {o} : entry[p].in /\ (entry[p].err \/ CleanupUncertain(p))

\* create_pm_operation: an operation that was begun before has its row.
CreateRow(o) == row[o] = "none" /\ row' = [row EXCEPT ![o] = "pending"]

Begin(o) ==
  /\ ~Refused(o) /\ CreateRow(o)
  /\ entry' = [entry EXCEPT ![o] = [NoEntry EXCEPT !.in = TRUE]]
  /\ Do(o, [NewClient EXCEPT !.task = "admit"])
  /\ route' = [route EXCEPT ![o] = [pc |-> "propose", attempt |-> 1]]
  /\ RouteOnly /\ UNCHANGED <<ids, cancelling, faults>>

\* The branch for an exception: an operation being cancelled is left to the
\* request that cancels it.
Fails(o) ==
  /\ Retire(o) /\ GoRoute(o, "stop") /\ UNCHANGED cancelling
  /\ IF o \in cancelling THEN UNCHANGED row ELSE FinishRow(o, "failed")

\* The proposal is in; a malformed one is asked for once more.
ProposeReturns(o) ==
  LET c == client[o] IN
  /\ route[o].pc = "propose" /\ c.task = "done"
  /\ IF c.result = "ok" /\ o \notin cancelling
     THEN \/ /\ Do(o, [c EXCEPT !.task = "none"]) /\ GoRoute(o, "ids")
             /\ UNCHANGED <<row, ids, cancelling>>
          \/ /\ route[o].attempt = 1
             /\ Do(o, [c EXCEPT !.task = "admit"])
             /\ route' = [route EXCEPT ![o].attempt = 2]
             /\ UNCHANGED <<row, ids, cancelling>>
          \/ Do(o, [c EXCEPT !.task = "none"]) /\ Fails(o)
     ELSE Do(o, [c EXCEPT !.task = "none"]) /\ Fails(o)
  /\ RouteOnly /\ UNCHANGED <<entry, faults>>

\* The identities are reserved and the operation completed, unless a cancel
\* came in while the tasks were read.
ReserveIds(o) ==
  /\ route[o].pc = "ids"
  /\ \/ o \notin cancelling /\ GoRoute(o, "stop") /\ FinishRow(o, "completed")
        /\ \E s \in {"none", "RESERVED"} : ids' = [ids EXCEPT ![o] = s]
        /\ UNCHANGED cancelling
     \/ Fails(o)
  /\ RouteOnly /\ UNCHANGED <<entry, client, faults>>

\* The request is cut off while the proposal or the tasks are awaited; the
\* proposal is then cancelled, and its task awaited.
CutOff(o) ==
  /\ Fault
  /\ \/ /\ route[o].pc = "propose" /\ GoRoute(o, "unwind")
        /\ Do(o, [client[o] EXCEPT !.cancel = TRUE]) /\ UNCHANGED <<row, ids>>
     \/ /\ route[o].pc = "ids" /\ GoRoute(o, "stop")
        /\ Retire(o) /\ FinishRow(o, "cancelled") /\ UNCHANGED client
  /\ RouteOnly /\ UNCHANGED <<entry, cancelling>>

\* cancel_proposal of the request itself.
Unwind(o) ==
  LET c == client[o] IN
  /\ route[o].pc = "unwind"
  /\ \/ /\ c.task = "done" /\ c.result # "unclean" /\ GoRoute(o, "unwound")
        /\ UNCHANGED <<row, ids, cancelling, client>>
     \/ /\ c.task = "done" /\ c.result = "unclean"
        /\ Do(o, [c EXCEPT !.task = "none"]) /\ Fails(o)
     \/ /\ c.task # "done" /\ Do(o, [c EXCEPT !.unsure = TRUE])
        /\ cancelling' = cancelling \cup {o} /\ Retire(o) /\ GoRoute(o, "stop")
        /\ UNCHANGED row
  /\ RouteOnly /\ UNCHANGED <<entry, faults>>

RouteStops(o) ==
  /\ route[o].pc \in {"unwound", "stop"} /\ Lock(o, "route")
  /\ RouteOnly /\ UNCHANGED <<row, ids, entry, cancelling, route, faults>>

Unwound(o) ==
  LET c == client[o] IN
  /\ route[o].pc = "unwound" /\ c.lock = "route"
  /\ \/ /\ Do(o, [Stopped(c) EXCEPT !.task = "none"])
        /\ Retire(o) /\ FinishRow(o, "cancelled") /\ GoRoute(o, "stop")
        /\ UNCHANGED cancelling
     \/ /\ c.held /\ Do(o, [Unstopped(c) EXCEPT !.task = "none"])
        /\ Fails(o)
  /\ RouteOnly /\ UNCHANGED <<entry, faults>>

\* Mutant: the entry goes although the stop failed.
MutantFinished(o, err) ==
  /\ entry' = [entry EXCEPT ![o] =
       [in |-> @.in /\ o \in cancelling, err |-> err, finished |-> TRUE]]
  /\ route' = [route EXCEPT ![o] = NoRequest]

\* The request leaves its entry to be found while its agent is not confirmed
\* stopped, and while it is being cancelled.
Finished(o, err) ==
  /\ entry' = [entry EXCEPT ![o] =
       [in |-> @.in /\ (err \/ o \in cancelling), err |-> err, finished |-> TRUE]]
  /\ route' = [route EXCEPT ![o] = NoRequest]

RouteEnds(o) ==
  LET c == client[o] IN
  /\ route[o].pc = "stop"
  /\ \/ NotYet(o, "route") /\ Finished(o, TRUE) /\ UNCHANGED faults
     \/ /\ c.lock = "route"
        /\ \/ Do(o, Stopped(c)) /\ Finished(o, c.cancel /\ Running(o))
           \/ c.held /\ Do(o, Unstopped(c)) /\ Finished(o, TRUE)
        /\ UNCHANGED faults
     \/ /\ Fault /\ Finished(o, TRUE)
        /\ Do(o, [c EXCEPT !.lock = IF @ = "route" THEN "free" ELSE @])
  /\ RouteOnly /\ UNCHANGED <<row, ids, cancelling>>

-----------------------------------------------------------------------------
(* cancel_operation.                                                       *)

GoCancel(k, pc) == req' = [req EXCEPT ![k].pc = pc]
CancelOnly == UNCHANGED <<route, stray, faults>>

\* An operation that nobody works on is ended at once.
CancelBegin(k, o) ==
  /\ req[k].pc = "off" /\ row[o] # "none"
  /\ IF ~entry[o].in
     THEN /\ Retire(o) /\ FinishRow(o, "cancelled")
          /\ UNCHANGED <<cancelling, client, req>>
     ELSE /\ UNCHANGED <<row, ids>>
          /\ cancelling' = IF row[o] \in Over THEN cancelling ELSE cancelling \cup {o}
          /\ IF row[o] \in Over /\ ~Running(o)
             THEN UNCHANGED client /\ req' = [req EXCEPT ![k] =
                    [pc |-> "halt", op |-> o, over |-> TRUE, again |-> FALSE]]
             ELSE /\ Do(o, [client[o] EXCEPT !.cancel = TRUE])
                  /\ req' = [req EXCEPT ![k] =
                       [pc |-> IF client[o].task = "none" THEN "stop" ELSE "wait",
                        op |-> o, over |-> row[o] \in Over, again |-> entry[o].finished]]
  /\ CancelOnly /\ UNCHANGED entry

\* The answer is planning_cleanup_failed; the entry stays.
CancelFails(k) ==
  /\ entry' = [entry EXCEPT ![req[k].op].err = TRUE] /\ GoCancel(k, "off")
  /\ UNCHANGED <<row, ids, cancelling>>

CancelSucceeds(k) ==
  LET o == req[k].op IN
  /\ entry' = [entry EXCEPT ![o].in = FALSE, ![o].err = FALSE]
  /\ cancelling' = cancelling \ {o} /\ GoCancel(k, "off")
  /\ IF req[k].over THEN UNCHANGED <<row, ids>> ELSE FinishRow(o, "cancelled") /\ Retire(o)

\* The proposal's task has ended, or the deadline passes first.
CancelWaits(k) ==
  LET o == req[k].op IN
  /\ req[k].pc = "wait"
  /\ \/ /\ ~Running(o) /\ client[o].result # "unclean"
        /\ GoCancel(k, "stop") /\ UNCHANGED <<row, ids, entry, cancelling, client>>
     \/ ~Running(o) /\ client[o].result = "unclean" /\ CancelFails(k) /\ UNCHANGED client
     \/ Running(o) /\ Do(o, [client[o] EXCEPT !.unsure = TRUE]) /\ CancelFails(k)
  /\ CancelOnly

CancelStops(k) ==
  LET o == req[k].op IN
  /\ req[k].pc \in {"halt", "stop"}
  /\ \/ Lock(o, k) /\ UNCHANGED <<row, ids, entry, cancelling, req>>
     \/ NotYet(o, k) /\ CancelFails(k)
  /\ CancelOnly

\* An earlier cleanup error is forgotten when the request had ended before.
CancelStopped(k) ==
  LET o == req[k].op
      err == entry[o].err /\ ~req[k].again
  IN  /\ client[o].lock = k
      /\ \/ client[o].held /\ Do(o, Unstopped(client[o])) /\ CancelFails(k)
         \/ /\ Do(o, Stopped(client[o]))
            /\ \/ req[k].pc = "halt" /\ CancelSucceeds(k)
               \/ /\ req[k].pc = "stop" /\ ~entry[o].finished
                  /\ entry' = [entry EXCEPT ![o].err = err]
                  /\ GoCancel(k, "finish") /\ UNCHANGED <<row, ids, cancelling>>
               \/ req[k].pc = "stop" /\ entry[o].finished /\ err /\ CancelFails(k)
               \/ req[k].pc = "stop" /\ entry[o].finished /\ ~err /\ CancelSucceeds(k)
      /\ CancelOnly

\* The proposal's request has finished, or the deadline passes first.
CancelEnds(k) ==
  LET o == req[k].op IN
  /\ req[k].pc = "finish"
  /\ \/ entry[o].finished /\ ~entry[o].err /\ CancelSucceeds(k)
     \/ (~entry[o].finished \/ entry[o].err) /\ CancelFails(k)
  /\ CancelOnly /\ UNCHANGED client

-----------------------------------------------------------------------------
\* The host ends, and its agents with their pipes; identities may have been
\* reserved for an operation that was not completed.
Restart ==
  /\ Fault
  /\ \E R \in SUBSET {o \in Ops : route[o].pc = "ids" /\ o \notin cancelling} :
       ids' = [o \in Ops |-> IF o \in R THEN "RESERVED" ELSE ids[o]]
  /\ entry' = [o \in Ops |-> NoEntry] /\ cancelling' = {}
  /\ client' = [o \in Ops |-> NewClient] /\ route' = [o \in Ops |-> NoRequest]
  /\ \E o \in Ops : req' = [k \in Cancels |-> NoCancel(o)]
  /\ stray' = {}
  /\ UNCHANGED row

Next ==
  \/ \E o \in Ops :
       \/ Admit(o) \/ Spawned(o) \/ Answered(o) \/ TalkFails(o) \/ ReaderStops(o)
       \/ TaskStops(o) \/ TaskStopped(o) \/ StrayStop(o) \/ StrayStops(o) \/ StrayStopped(o)
       \/ Begin(o) \/ ProposeReturns(o) \/ ReserveIds(o) \/ CutOff(o) \/ Unwind(o)
       \/ RouteStops(o) \/ Unwound(o) \/ RouteEnds(o)
  \/ \E k \in Cancels :
       \/ \E o \in Ops : CancelBegin(k, o)
       \/ CancelWaits(k) \/ CancelStops(k) \/ CancelStopped(k) \/ CancelEnds(k)
  \/ Restart

Spec == Init /\ [][Next]_vars
-----------------------------------------------------------------------------
(***************************************************************************)
(* No planning agent is started beside one the host has lost hold of: when *)
(* an operation begins, every agent that is still alive belongs to an      *)
(* active entry, where a request can cancel it, and to a request that has  *)
(* not returned ("a prior planning process group is not confirmed          *)
(* stopped": planning_action, cancel_operation, PmPlanningClient.stop).    *)
(***************************************************************************)
AgentsAccounted ==
  [][\A o, p \in Ops :
       row[o] = "none" /\ row'[o] = "pending" /\ p # o /\ client[p].alive =>
         entry[p].in /\ route[p].pc # "off"]_vars

=============================================================================
