------------------------------- MODULE AgentTurn --------------------------------
(***************************************************************************)
(* A per-turn agent backend: every turn spawns `bash -lc <cli>` in a       *)
(* process group of its own, hands it the prompt, follows its stream and   *)
(* tears the group down, while stop() may be called at any moment.         *)
(* Tearing down is terminate_process_tree, which may fail to confirm that  *)
(* the group is gone.                                                      *)
(***************************************************************************)
EXTENDS Naturals, FiniteSets

CONSTANTS Procs,            \* 1..n, used in this order
          MalformedLimit,   \* consecutive unreadable lines that end a stream
          MaxFaults,        \* probes that find out nothing, signals that do not end a group
          MaxStops, MaxCancels

ASSUME AgentAssumption == Procs \subseteq Nat \ {0}

VARIABLES kind,     \* how the CLI is read: claude, pi, bulk, or argv: bulk, its prompt on the command line
          launching,   \* the process asyncio is creating, which nobody holds yet
          cut,      \* processes whose creation was cut off
          closed, active, unconfirmed,       \* the backend object
          resume,   \* session recovery: none, expected or confirmed
          group,    \* live members of every process group
          reaped,   \* groups whose leader's exit status is known
          turn, stream,
          last,     \* the agent's last message: none, this turn's or an older one's
          result, stop, ladder,
          prompted, spent

agentVars == <<kind, launching, cut, closed, active, unconfirmed, resume, group, reaped, turn, stream, last,
               result, stop, ladder, prompted, spent>>

Callers == {"turn", "stop"}
Members == {"leader", "child"}
None == 0
Clis == {"claude", "pi", "bulk", "argv"}
Bulk == kind \in {"bulk", "argv"}
OnCommandLine == kind = "argv"
Fresh == [end |-> "none", bad |-> 0, corrupt |-> FALSE]

AgentTypeOK ==
  /\ kind \in Clis /\ launching \in Procs \cup {None} /\ cut \subseteq Procs
  /\ closed \in BOOLEAN /\ active \in Procs \cup {None} /\ unconfirmed \in BOOLEAN
  /\ resume \in {"none", "expected", "confirmed"}
  /\ group \in [Procs -> SUBSET Members] /\ reaped \subseteq Procs
  /\ turn \in {"idle", "spawn", "launch", "publish", "launch_failed", "closed_reap", "started",
               "stream", "timed_out", "linger", "settled", "final"}
  /\ stream \in [end : {"none", "ok", "error"}, bad : 0..MalformedLimit,
                 corrupt : BOOLEAN]
  /\ last \in {"none", "own", "old"} /\ result \in {"none", "completed", "failed"}
  /\ stop \in {"idle", "running", "ok", "failed"}
  /\ ladder \in [Callers -> {"idle", "probe", "term", "check", "kill", "recheck", "gone", "unsure"}]

InitAgent ==
  /\ kind \in Clis /\ launching = None /\ cut = {}
  /\ closed = FALSE /\ active = None /\ unconfirmed = FALSE
  /\ resume \in {"none", "expected"}
  /\ group = [p \in Procs |-> {}] /\ reaped = {}
  /\ turn = "idle" /\ stream = Fresh /\ last = "none" /\ result = "none"
  /\ stop = "idle" /\ ladder = [c \in Callers |-> "idle"]
  /\ prompted = {}
  /\ spent = [faults |-> 0, stops |-> 0, cancels |-> 0]

Process == <<group, reaped>>
Spend(k) == spent' = [spent EXCEPT ![k] = @ + 1]

\* The process a caller is working on: the one it found when it began.
Target == IF active # None THEN active
          ELSE CHOOSE p \in reaped : \A q \in reaped : q <= p
Used(p) == group[p] # {} \/ p \in reaped

-----------------------------------------------------------------------------
(* The operating system.                                                    *)

Fork(p) ==
  /\ "leader" \in group[p]
  /\ group' = [group EXCEPT ![p] = @ \cup {"child"}]
  /\ UNCHANGED <<kind, launching, cut, closed, active, unconfirmed, resume, reaped, turn, stream, last, result, stop, ladder, prompted, spent>>

Exit(p, m) ==
  /\ m \in group[p]
  /\ group' = [group EXCEPT ![p] = @ \ {m}]
  /\ UNCHANGED <<kind, launching, cut, closed, active, unconfirmed, resume, reaped, turn, stream, last, result, stop, ladder, prompted, spent>>

\* The event loop learns of the leader's exit.
Reap(p) ==
  /\ p \notin reaped /\ "leader" \notin group[p] /\ p \in {active, launching}
  /\ reaped' = reaped \cup {p}
  /\ UNCHANGED <<kind, launching, cut, closed, active, unconfirmed, resume, group, turn, stream, last, result, stop, ladder, prompted, spent>>

-----------------------------------------------------------------------------
(* terminate_process_tree.                                                  *)

Settle(c, v) == ladder' = [ladder EXCEPT ![c] = v]
Quiet == UNCHANGED <<kind, launching, cut, closed, active, unconfirmed, resume, turn, stream, last, result, stop, prompted>>

\* A group is seen alive, gone, or not at all.
Probe(p, v) ==
  \/ v = "gone" /\ group[p] = {} /\ UNCHANGED spent
  \/ v = "there" /\ group[p] # {} /\ UNCHANGED spent
  \/ v = "blind" /\ spent.faults < MaxFaults /\ Spend("faults")

\* Gone is believed with an exit status; a group that outlives its reaped
\* leader is not signalled, because its number may be somebody else's.
FirstVerdict(p, v) ==
  CASE v = "gone" -> IF p \in reaped THEN "gone" ELSE "unsure"
    [] v = "blind" -> IF p \in reaped THEN "unsure" ELSE "term"
    [] OTHER -> IF p \in reaped THEN "unsure" ELSE "term"

FirstProbe(c) ==
  /\ ladder[c] = "probe"
  /\ \E v \in {"gone", "there", "blind"} :
       Probe(Target, v) /\ Settle(c, FirstVerdict(Target, v))
  /\ UNCHANGED Process /\ Quiet

\* A signal may leave some members running; afterwards the leader is waited for.
Signal(c, from, to) ==
  /\ ladder[c] = from /\ Settle(c, to)
  /\ \E left \in SUBSET group[Target] :
       /\ left # {} => spent.faults < MaxFaults
       /\ spent' = [spent EXCEPT !.faults = IF left # {} THEN @ + 1 ELSE @]
       /\ group' = [group EXCEPT ![Target] = left]
       /\ reaped' = IF "leader" \in left THEN reaped ELSE reaped \cup {Target}
  /\ Quiet

CheckProbe(c) ==
  /\ ladder[c] = "check"
  /\ \E v \in {"gone", "there", "blind"} : Probe(Target, v) /\
       Settle(c, IF v = "there" THEN "kill" ELSE IF v = "blind" \/ Target \notin reaped THEN "unsure" ELSE "gone")
  /\ UNCHANGED Process /\ Quiet

LastProbe(c) ==
  /\ ladder[c] = "recheck"
  /\ \E v \in {"gone", "there", "blind"} : Probe(Target, v) /\
       Settle(c, IF v = "gone" /\ Target \in reaped THEN "gone" ELSE "unsure")
  /\ UNCHANGED Process /\ Quiet

Terminate(c) ==
  \/ FirstProbe(c) \/ Signal(c, "term", "check") \/ CheckProbe(c)
  \/ Signal(c, "kill", "recheck") \/ LastProbe(c)

Begin(c) == ladder' = [ladder EXCEPT ![c] = "probe"]
Clear(c) == ladder' = [ladder EXCEPT ![c] = "idle"]

-----------------------------------------------------------------------------
(* A turn.                                                                  *)

MayRun == ~closed /\ active = None

\* pi and the bulk readers forget what an earlier turn said; claude keeps it.
Cleared == IF kind = "claude" /\ last # "none" THEN "old" ELSE "none"

\* A recovered session is asked for again until one is confirmed.
RunTurn ==
  /\ turn = "idle" /\ MayRun /\ \E p \in Procs : ~Used(p)
  /\ turn' = "spawn" /\ stream' = Fresh /\ last' = Cleared /\ result' = "none"
  /\ UNCHANGED <<kind, launching, cut, closed, active, unconfirmed, resume, group, reaped, stop, ladder, prompted, spent>>

\* The child runs from here on, whatever the await of its creation is still
\* waiting for; on its command line it has the prompt already.
Spawn ==
  /\ turn = "spawn"
  /\ LET p == CHOOSE q \in Procs : ~Used(q) /\ \A o \in Procs : o < q => Used(o) IN
     /\ group' = [group EXCEPT ![p] = {"leader"}]
     /\ launching' = p
     /\ prompted' = IF OnCommandLine THEN prompted \cup {p} ELSE prompted
  /\ turn' = "launch"
  /\ UNCHANGED <<kind, cut, closed, active, unconfirmed, resume, reaped, stream, last, result, stop, ladder, spent>>

\* create_subprocess_exec returns, and the backend holds the process.
Own ==
  /\ turn = "launch"
  /\ turn' = "publish" /\ active' = launching /\ launching' = None
  /\ UNCHANGED <<kind, cut, closed, unconfirmed, resume, group, reaped, stream, last, result, stop, ladder, prompted, spent>>

\* The worker is cancelled in that await, or there is nothing to execute: asyncio
\* kills and awaits the leader, and what the leader forked stays unknown.
LaunchCut ==
  /\ turn \in {"spawn", "launch"} /\ spent.cancels < MaxCancels /\ Spend("cancels")
  /\ turn' = "idle" /\ result' = "failed" /\ launching' = None
  /\ IF turn = "spawn" THEN UNCHANGED <<cut, group, reaped>>
     ELSE /\ group' = [group EXCEPT ![launching] = @ \ {"leader"}]
          /\ reaped' = reaped \cup {launching} /\ cut' = cut \cup {launching}
  /\ UNCHANGED <<kind, closed, active, unconfirmed, resume, stream, last, stop, ladder, prompted>>

MutantAfterLaunch == "started"

\* stop() may have closed the backend while the launch was being published.
AfterLaunch == IF closed THEN "closed_reap" ELSE "started"

Publish ==
  /\ turn = "publish"
  /\ turn' = AfterLaunch
  /\ IF turn' = "closed_reap" THEN Begin("turn") ELSE UNCHANGED ladder
  /\ UNCHANGED <<kind, launching, cut, closed, active, unconfirmed, resume, group, reaped, stream, last, result, stop, prompted, spent>>

\* Publication fails or is cancelled: the process goes before the error does.
LaunchFails ==
  /\ turn = "publish" /\ spent.cancels < MaxCancels /\ Spend("cancels")
  /\ turn' = "launch_failed" /\ Begin("turn")
  /\ UNCHANGED <<kind, launching, cut, closed, active, unconfirmed, resume, group, reaped, stream, last, result, stop, prompted>>

LaunchCleaned ==
  /\ turn \in {"launch_failed", "closed_reap"} /\ ladder["turn"] \in {"gone", "unsure"}
  /\ turn' = "idle" /\ result' = "failed" /\ Clear("turn")
  /\ active' = IF ladder["turn"] = "gone" THEN None ELSE active
  /\ unconfirmed' = (unconfirmed \/ (ladder["turn"] = "unsure" /\ turn = "launch_failed"))
  /\ UNCHANGED <<kind, launching, cut, closed, resume, group, reaped, stream, last, stop, prompted, spent>>

\* turn_started is emitted, then the prompt is written, unless the command line
\* had it; a dead pipe is an error.
Prompt ==
  /\ turn = "started"
  /\ IF OnCommandLine THEN turn' = "stream" /\ UNCHANGED <<prompted, ladder, result>>
     ELSE IF active # None /\ "leader" \in group[active]
     THEN turn' = "stream" /\ prompted' = prompted \cup {active} /\ UNCHANGED <<ladder, result>>
     ELSE turn' = "final" /\ result' = "failed" /\ Begin("turn") /\ UNCHANGED prompted
  /\ UNCHANGED <<kind, launching, cut, closed, active, unconfirmed, resume, group, reaped, stream, last, stop, spent>>

Reading == turn = "stream" /\ ~stream.corrupt

Line(s) ==
  /\ Reading /\ stream' = s
  /\ UNCHANGED <<kind, launching, cut, closed, active, unconfirmed, group, reaped, turn, result, stop, ladder, prompted, spent>>

Malformed ==
  /\ Line([stream EXCEPT !.bad = @ + 1, !.corrupt = stream.bad + 1 = MalformedLimit])
  /\ ~Bulk /\ UNCHANGED <<resume, last>>

Text == Line([stream EXCEPT !.bad = 0]) /\ last' = "own" /\ UNCHANGED resume
End(e) == ~Bulk /\ Line([stream EXCEPT !.end = e, !.bad = 0]) /\ UNCHANGED <<resume, last>>

\* The session the CLI names must be the one that was asked for.
ObserveSession(same) ==
  /\ Reading /\ resume # "none"
  /\ IF same THEN resume' = "confirmed" /\ UNCHANGED <<turn, result, ladder>>
     ELSE turn' = "final" /\ result' = "failed" /\ Begin("turn") /\ UNCHANGED resume
  /\ UNCHANGED <<kind, launching, cut, closed, active, unconfirmed, group, reaped, stream, last, stop, prompted, spent>>

\* End of stdout, or a stream given up as unreadable.
StreamEnds ==
  /\ turn = "stream" /\ turn' = "linger"
  /\ UNCHANGED <<kind, launching, cut, closed, active, unconfirmed, resume, group, reaped, stream, last, result, stop, ladder, prompted, spent>>

\* The child is given a moment to exit, then the group is taken down.
Linger ==
  /\ turn = "linger" /\ ladder["turn"] = "idle"
  /\ IF Target \in reaped THEN turn' = "settled" /\ UNCHANGED ladder
     ELSE Begin("turn") /\ UNCHANGED turn
  /\ UNCHANGED <<kind, launching, cut, closed, active, unconfirmed, resume, group, reaped, stream, last, result, stop, prompted, spent>>

Lingered ==
  /\ turn = "linger" /\ ladder["turn"] \in {"gone", "unsure"}
  /\ IF ladder["turn"] = "gone" THEN turn' = "settled" /\ Clear("turn") /\ UNCHANGED result
     ELSE turn' = "final" /\ result' = "failed" /\ Begin("turn")
  /\ UNCHANGED <<kind, launching, cut, closed, active, unconfirmed, resume, group, reaped, stream, last, stop, prompted, spent>>

TurnTimeout ==
  /\ turn = "stream" /\ spent.cancels < MaxCancels /\ Spend("cancels")
  /\ turn' = "timed_out" /\ Begin("turn")
  /\ UNCHANGED <<kind, launching, cut, closed, active, unconfirmed, resume, group, reaped, stream, last, result, stop, prompted>>

TimedOut ==
  /\ turn = "timed_out" /\ ladder["turn"] \in {"gone", "unsure"}
  /\ turn' = "final" /\ result' = "failed" /\ Begin("turn")
  /\ UNCHANGED <<kind, launching, cut, closed, active, unconfirmed, resume, group, reaped, stream, last, stop, prompted, spent>>

\* Each CLI has its own idea of a finished turn.
ClaudeFinished == stream.end = "ok"
PiFinished(rc) == stream.end # "error" /\ rc = 0 /\ (stream.end = "ok" \/ last # "none")
BulkFinished(rc) == rc = 0 /\ last # "none"

Succeeds(rc) ==
  /\ ~stream.corrupt
  /\ kind = "claude" => ClaudeFinished
  /\ kind = "pi" => PiFinished(rc)
  /\ Bulk => BulkFinished(rc)

Confirmed == resume # "expected"

\* The turn is judged, and its group torn down whatever the verdict.
CompleteTurn ==
  /\ turn = "settled"
  /\ \E rc \in {0, 1} :
       LET won == Succeeds(rc) /\ Confirmed IN
       /\ result' = IF won THEN "completed" ELSE "failed"
       /\ resume' = IF won THEN "none" ELSE resume
  /\ turn' = "final" /\ Begin("turn")
  /\ UNCHANGED <<kind, launching, cut, closed, active, unconfirmed, group, reaped, stream, last, stop, prompted, spent>>

\* The worker task is cancelled in the middle of a turn.
CancelTurn ==
  /\ turn \in {"started", "stream", "linger", "timed_out", "settled"}
  /\ spent.cancels < MaxCancels /\ Spend("cancels")
  /\ turn' = "final" /\ result' = "failed" /\ Begin("turn")
  /\ UNCHANGED <<kind, launching, cut, closed, active, unconfirmed, resume, group, reaped, stream, last, stop, prompted>>

\* The process is forgotten only when its group is known to be gone.
Keep(c) == IF ladder[c] = "gone" THEN None ELSE active

EndTurn ==
  /\ turn = "final" /\ ladder["turn"] \in {"gone", "unsure"}
  /\ turn' = "idle" /\ active' = Keep("turn") /\ unconfirmed' = (ladder["turn"] = "unsure")
  /\ Clear("turn")
  /\ result' = IF ladder["turn"] = "unsure" THEN "failed" ELSE result
  /\ UNCHANGED <<kind, launching, cut, closed, resume, group, reaped, stream, last, stop, prompted, spent>>

-----------------------------------------------------------------------------
(* stop().                                                                  *)

Stop ==
  /\ stop # "running" /\ spent.stops < MaxStops /\ Spend("stops")
  /\ closed' = TRUE
  /\ IF active = None THEN stop' = "ok" /\ UNCHANGED ladder
     ELSE stop' = "running" /\ Begin("stop")
  /\ UNCHANGED <<kind, launching, cut, active, unconfirmed, resume, group, reaped, turn, stream, last, result, prompted>>

StopReturns ==
  /\ stop = "running" /\ ladder["stop"] \in {"gone", "unsure"}
  /\ stop' = IF ladder["stop"] = "gone" THEN "ok" ELSE "failed"
  /\ active' = Keep("stop") /\ unconfirmed' = (ladder["stop"] = "unsure")
  /\ Clear("stop")
  /\ UNCHANGED <<kind, launching, cut, closed, resume, group, reaped, turn, stream, last, result, prompted, spent>>

-----------------------------------------------------------------------------
TurnStep ==
  \/ RunTurn \/ Spawn \/ Own \/ LaunchCut \/ Publish \/ LaunchFails \/ LaunchCleaned \/ Prompt
  \/ Malformed \/ Text \/ End("ok") \/ End("error") \/ ObserveSession(TRUE) \/ ObserveSession(FALSE)
  \/ StreamEnds \/ Linger \/ Lingered \/ TurnTimeout \/ TimedOut \/ CompleteTurn
  \/ CancelTurn \/ EndTurn

NextAgent ==
  \/ TurnStep \/ Stop \/ StopReturns
  \/ \E c \in Callers : Terminate(c)
  \/ \E p \in Procs : Fork(p) \/ Exit(p, "leader") \/ Exit(p, "child") \/ Reap(p)

AgentSpec == InitAgent /\ [][NextAgent]_agentVars

-----------------------------------------------------------------------------
(* A backend never forgets a process that may still be running: whatever the *)
(* turn and stop() do to each other, a live group is the one the backend     *)
(* holds or is about to be given, so no agent is left working unknown to     *)
(* everybody, unless the very await that creates it is cut off               *)
(* (per_turn.py run_turn, _spawn, stop; _shell.py terminate_process_tree).   *)
NoForgottenAgent == \A p \in Procs \ cut : group[p] # {} => p \in {active, launching}

\* Where run_turn has a process that it does not drive.
Undriven == {"publish", "launch_failed", "closed_reap", "idle"}

(* stop() looks at the process the backend holds, and a process that is      *)
(* being created is not held ("Ownership was retained before that await;     *)
(* reap and bail", per_turn.py:288): once stop() has returned, no turn is    *)
(* driven and nothing is prompted any more.  What may run then with a prompt *)
(* had it on its command line from its creation, and run_turn is still to    *)
(* take it down or, having failed to, holds it for the next stop().          *)
StopHolds ==
  stop = "ok" => \A p \in prompted \ cut :
    group[p] # {} => OnCommandLine /\ (p = launching \/ (p = active /\ turn \in Undriven))

(* "Ownership was retained before that await" (per_turn.py:288): not before  *)
(* the await of the creation itself (_spawn_posix), so that a prompt on the  *)
(* command line is at work after a stop() that found nothing to stop.        *)
StopLeavesNothing == stop = "ok" => \A p \in prompted : group[p] = {}

(* A turn is reported completed only on this turn's own evidence: its        *)
(* terminal event or its text, from the session that was asked for           *)
(* (pi.py _complete_stream_turn, per_turn.py _require_resume_confirmation).  *)
CompletedOnEvidence ==
  turn = "settled" /\ result' = "completed" =>
    (stream.end = "ok" \/ last = "own") /\ resume # "expected"

===============================================================================
