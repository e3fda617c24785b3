-------------------------------- MODULE AgentRpc --------------------------------
(***************************************************************************)
(* The long-lived agents, spoken to in JSON-RPC over stdio: an ACP agent,  *)
(* which a turn that is given up takes down and the next one relaunches,   *)
(* and the Codex app server, which stays up.  A turn waits for an answer   *)
(* (and, with Codex, for a notification) that a reader task delivers from  *)
(* the agent's output.                                                     *)
(***************************************************************************)
EXTENDS Naturals, Sequences

CONSTANTS MaxTurns, MaxLaunches, MaxTimeouts, MaxBreaks,
          MaxOutput,        \* frames the agent has written and nobody has read
          BadLineLimit      \* consecutive unreadable lines that end a stream

VARIABLES protocol,         \* acp or codex
          caps,             \* what an ACP agent can resume: resume, load or none
          shut, unsure, replaying,
          alive,            \* the agent process is running
          held,             \* the backend holds a process object
          reader,           \* the reader task: none, reading or done
          corrupt, streak,
          out,              \* frames on their way from the agent to the reader
          owed,             \* what the agent has still to answer
          stage, n,         \* the turn's program point and number
          nextId, requests, \* requests waiting for an answer
          waiter,           \* Codex: how far the completion waiter is
          text, by,         \* turns the collected text and the completion belong to
          late,             \* a request on this process timed out
          launches, timeouts, faults

rpcVars == <<protocol, caps, shut, unsure, replaying, alive, held, reader, corrupt, streak,
             out, owed, stage, n, nextId, requests, waiter, text, by, late, launches,
             timeouts, faults>>

Frames == [t : {"update", "done"}, of : 0..MaxTurns] \cup [t : {"resp"}, id : Nat]
          \cup {[t |-> "bad"]}

RpcTypeOK ==
  /\ protocol \in {"acp", "codex"} /\ caps \in {"resume", "load", "none"}
  /\ \A i \in DOMAIN out : out[i] \in Frames
  /\ reader \in {"none", "reading", "done"} /\ streak \in 0..BadLineLimit
  /\ stage \in {"idle", "new", "load", "prompt", "wait", "complete", "abort", "stopped"}
  /\ requests \subseteq 1..nextId /\ waiter \in {"none", "armed", "set", "failed"}
  /\ text \subseteq 0..MaxTurns /\ by \in 0..MaxTurns

\* A worker has started its agent and opened a session.
InitRpc ==
  /\ protocol \in {"acp", "codex"} /\ caps \in {"resume", "load", "none"}
  /\ (protocol = "codex" => caps = "none")
  /\ shut = FALSE /\ unsure = FALSE /\ replaying = FALSE
  /\ alive = TRUE /\ held = TRUE /\ reader = "reading" /\ corrupt = FALSE /\ streak = 0
  /\ out = <<>> /\ owed = {}
  /\ stage = "idle" /\ n = 0 /\ nextId = 0 /\ requests = {} /\ waiter = "none"
  /\ text = {} /\ by = 0 /\ late = FALSE
  /\ launches = 1 /\ timeouts = 0 /\ faults = 0

Client == <<stage, n, nextId, requests, waiter, text, by>>
Wires == <<alive, out, owed>>
Object == <<shut, unsure, held, launches>>
Stream == <<reader, corrupt, streak>>

-----------------------------------------------------------------------------
(* The agent.                                                               *)

Say(f) == alive /\ Len(out) < MaxOutput /\ out' = Append(out, f)
AgentOnly == UNCHANGED <<protocol, caps, shut, unsure, replaying, alive, held,
                         Stream, Client, late, launches, timeouts>>

\* While it works on a turn the agent reports; while it loads a session it
\* replays the turns of before.
Update ==
  /\ \E o \in owed : o.what # "setup" /\ Say([t |-> "update", of |-> o.of])
  /\ UNCHANGED <<owed, faults>> /\ AgentOnly

Answer ==
  /\ \E o \in owed :
       /\ o.id # 0 /\ Say([t |-> "resp", id |-> o.id])
       /\ owed' = (owed \ {o}) \cup (IF protocol = "codex" THEN {[o EXCEPT !.id = 0]} ELSE {})
  /\ UNCHANGED faults /\ AgentOnly

\* Codex answers turn/start at once and notifies when the turn has ended.
NotifyDone ==
  /\ \E o \in owed : o.id = 0 /\ Say([t |-> "done", of |-> o.of]) /\ owed' = owed \ {o}
  /\ UNCHANGED faults /\ AgentOnly

Garbage ==
  /\ faults < MaxBreaks /\ faults' = faults + 1 /\ Say([t |-> "bad"])
  /\ UNCHANGED owed /\ AgentOnly

AgentDies ==
  /\ alive /\ faults < MaxBreaks /\ faults' = faults + 1
  /\ alive' = FALSE /\ owed' = {}
  /\ UNCHANGED <<protocol, caps, shut, unsure, replaying, held, Stream, out, Client, late, launches, timeouts>>

-----------------------------------------------------------------------------
(* The reader task.                                                         *)

Head1 == out[1]
ReadOne == reader = "reading" /\ out # <<>> /\ out' = Tail(out)

\* Frames of a replayed session are old turns.
Mine == ~replaying

ReadUpdate ==
  /\ protocol = "acp" /\ ReadOne /\ Head1.t = "update"
  /\ text' = IF Mine THEN text \cup {Head1.of} ELSE text
  /\ streak' = 0
  /\ UNCHANGED <<protocol, caps, Object, replaying, alive, owed, reader, corrupt, stage, n, nextId, requests, waiter, by, late, timeouts, faults>>

\* Codex keeps the message of the last item that was completed.
ReadItem ==
  /\ protocol = "codex" /\ ReadOne /\ Head1.t = "update"
  /\ text' = {Head1.of} /\ streak' = 0
  /\ UNCHANGED <<protocol, caps, Object, replaying, alive, owed, reader, corrupt, stage, n, nextId, requests, waiter, by, late, timeouts, faults>>

ReadResponse ==
  /\ ReadOne /\ Head1.t = "resp" /\ streak' = 0
  /\ requests' = requests \ {Head1.id}
  /\ stage' = IF Head1.id \notin requests THEN stage
             ELSE CASE stage = "load" -> "prompt" [] stage = "new" -> "prompt"
                    [] stage = "wait" /\ protocol = "acp" -> "complete" [] OTHER -> stage
  /\ by' = IF stage' = "complete" THEN n ELSE by
  /\ replaying' = (replaying /\ stage' = stage)
  /\ UNCHANGED <<protocol, caps, Object, alive, owed, reader, corrupt, n, nextId, waiter, text, late, timeouts, faults>>

\* Codex: a completion goes to whoever waits for one.
ReadDone ==
  /\ ReadOne /\ Head1.t = "done" /\ streak' = 0
  /\ IF waiter = "armed" THEN waiter' = "set" /\ by' = Head1.of ELSE UNCHANGED <<waiter, by>>
  /\ UNCHANGED <<protocol, caps, Object, replaying, alive, owed, reader, corrupt, stage, n, nextId, requests, text, late, timeouts, faults>>

\* What is left waiting when the output ends fails at once.
FailWaiter == IF waiter = "armed" THEN "failed" ELSE waiter

ReaderEnds(broken) ==
  /\ reader' = "done" /\ corrupt' = broken
  /\ requests' = {} /\ waiter' = FailWaiter
  /\ stage' = CASE stage = "wait" /\ requests # {} -> "idle"
               [] stage \in {"load", "new"} -> IF stage = "load" THEN "new" ELSE "idle"
               [] OTHER -> stage
  /\ replaying' = FALSE
  /\ shut' = (shut \/ (broken /\ protocol = "codex"))
  /\ alive' = (alive /\ ~(broken /\ protocol = "codex"))
  /\ owed' = IF alive' THEN owed ELSE {}

ReadGarbage ==
  /\ ReadOne /\ Head1.t = "bad"
  /\ streak' = streak + 1
  /\ IF streak' = BadLineLimit THEN ReaderEnds(TRUE)
     ELSE UNCHANGED <<reader, corrupt, requests, waiter, stage, replaying, shut, alive, owed>>
  /\ UNCHANGED <<protocol, caps, unsure, held, launches, n, nextId, text, by, late, timeouts, faults>>

ReadEof ==
  /\ reader = "reading" /\ out = <<>> /\ ~alive
  /\ ReaderEnds(FALSE) /\ UNCHANGED <<out, streak>>
  /\ UNCHANGED <<protocol, caps, unsure, held, launches, n, nextId, text, by, late, timeouts, faults>>

-----------------------------------------------------------------------------
(* Turns.                                                                   *)

ProcessAlive == held /\ alive /\ reader = "reading"
Request(of, what) ==
  /\ nextId' = nextId + 1 /\ requests' = requests \cup {nextId + 1}
  /\ owed' = IF alive THEN owed \cup {[id |-> nextId + 1, of |-> of, what |-> what]} ELSE owed

MayAsk == ~shut /\ ~unsure

\* An ACP turn on a dead agent relaunches it first; a Codex turn just asks.
AskTurn ==
  /\ stage = "idle" /\ MayAsk /\ n < MaxTurns
  /\ protocol = "codex" \/ ProcessAlive
  /\ stage' = "prompt"
  /\ UNCHANGED <<protocol, caps, Object, replaying, Wires, Stream, n, nextId, requests, waiter, text, by, late, timeouts, faults>>

\* The old group must be gone; then a new agent, and the old session if the
\* agent can resume one.
Restart ==
  /\ protocol = "acp" /\ stage = "idle" /\ MayAsk /\ ~ProcessAlive
  /\ n < MaxTurns /\ launches < MaxLaunches /\ launches' = launches + 1
  /\ alive' = TRUE /\ held' = TRUE /\ out' = <<>> /\ reader' = "reading"
  /\ corrupt' = FALSE /\ streak' = 0 /\ late' = FALSE
  /\ stage' = IF caps = "none" THEN "new" ELSE "load"
  /\ replaying' = (caps = "load")
  /\ nextId' = nextId + 1 /\ requests' = {nextId + 1}
  /\ owed' = {[id |-> nextId + 1, of |-> 0,
                what |-> IF caps = "load" THEN "replay" ELSE "setup"]}
  /\ UNCHANGED <<protocol, caps, shut, unsure, n, waiter, text, by, timeouts, faults>>

RestartBlocked ==
  /\ protocol = "acp" /\ stage = "idle" /\ MayAsk /\ ~ProcessAlive /\ held /\ n < MaxTurns
  /\ faults < MaxBreaks /\ faults' = faults + 1
  /\ unsure' = TRUE
  /\ UNCHANGED <<protocol, caps, shut, held, launches, replaying, Wires, Stream, Client, late, timeouts>>

\* A session that cannot be resumed in time gives way to a new one.
LoadTimesOut ==
  /\ stage = "load" /\ timeouts < MaxTimeouts /\ timeouts' = timeouts + 1
  /\ replaying' = FALSE /\ late' = TRUE
  /\ nextId' = nextId + 1 /\ requests' = {nextId + 1}
  /\ owed' = owed \cup {[id |-> nextId + 1, of |-> 0, what |-> "setup"]}
  /\ stage' = "new"
  /\ UNCHANGED <<protocol, caps, shut, unsure, held, launches, alive, out, Stream, n, waiter, text, by, faults>>

AskNewSession ==
  /\ stage = "new" /\ requests = {}
  /\ Request(0, "setup")
  /\ UNCHANGED <<protocol, caps, Object, replaying, alive, out, Stream, stage, n, waiter, text, by, late, timeouts, faults>>

NewTimesOut ==
  /\ stage = "new" /\ requests # {} /\ (timeouts < MaxTimeouts \/ reader = "done")
  /\ timeouts' = IF reader = "done" THEN timeouts ELSE timeouts + 1
  /\ stage' = "idle" /\ requests' = {} /\ late' = TRUE
  /\ UNCHANGED <<protocol, caps, Object, replaying, Wires, Stream, n, nextId, waiter, text, by, faults>>

MutantClearText == text

\* The text of an ACP turn starts empty before the prompt is sent; Codex keeps
\* the last message it saw until the next one.
ClearText == IF protocol = "acp" THEN {} ELSE text

SendPrompt ==
  /\ stage = "prompt"
  /\ IF shut \/ ~held \/ (~alive /\ reader = "done")
     THEN stage' = "idle" /\ UNCHANGED <<n, nextId, requests, owed, waiter, text, by>>
     ELSE /\ n' = n + 1 /\ stage' = "wait" /\ Request(n + 1, "prompt")
          /\ text' = ClearText /\ by' = 0
          /\ waiter' = IF protocol = "codex" THEN "armed" ELSE "none"
  /\ UNCHANGED <<protocol, caps, Object, replaying, alive, out, Stream, late, timeouts, faults>>

\* Codex: the turn is over when the waiter is, whichever comes first.
Completed ==
  /\ stage = "wait" /\ protocol = "codex" /\ requests = {} /\ waiter = "set"
  /\ stage' = "complete" /\ waiter' = "none"
  /\ UNCHANGED <<protocol, caps, Object, replaying, Wires, Stream, n, nextId, requests, text, by, late, timeouts, faults>>

WaiterFails ==
  /\ stage = "wait" /\ waiter = "failed" /\ stage' = "idle" /\ waiter' = "none"
  /\ UNCHANGED <<protocol, caps, Object, replaying, Wires, Stream, n, nextId, requests, text, by, late, timeouts, faults>>

TurnReturns ==
  /\ stage = "complete" /\ stage' = "idle"
  /\ UNCHANGED <<protocol, caps, Object, replaying, Wires, Stream, n, nextId, requests, waiter, text, by, late, timeouts, faults>>

\* The turn's time is up, or its task is cancelled: ACP gives the agent up,
\* Codex leaves it running.
TurnTimesOut ==
  /\ stage = "wait" /\ timeouts < MaxTimeouts /\ timeouts' = timeouts + 1
  /\ stage' = IF protocol = "acp" THEN "abort" ELSE "idle"
  /\ requests' = {} /\ waiter' = "none" /\ late' = TRUE
  /\ UNCHANGED <<protocol, caps, Object, replaying, Wires, Stream, n, nextId, text, by, faults>>

\* The group is terminated either way; unconfirmed cleanup blocks more turns.
Abandon(sure) ==
  /\ unsure' = (unsure \/ ~sure)
  /\ held' = (held /\ ~sure) /\ alive' = (alive /\ ~sure)
  /\ out' = IF sure THEN <<>> ELSE out
  /\ owed' = IF sure THEN {} ELSE owed
  /\ reader' = IF sure THEN "none" ELSE reader

AbortTurn ==
  /\ stage = "abort" /\ stage' = "idle"
  /\ \E sure \in BOOLEAN :
       /\ sure \/ faults < MaxBreaks
       /\ faults' = IF sure THEN faults ELSE faults + 1
       /\ Abandon(sure)
  /\ UNCHANGED <<protocol, caps, shut, launches, replaying, corrupt, streak, n, nextId, requests, waiter, text, by, late, timeouts>>

\* stop() closes the backend, takes the group down and ends the reader.
StopBackend ==
  /\ ~shut /\ shut' = TRUE
  /\ \E sure \in BOOLEAN :
       /\ sure \/ faults < MaxBreaks
       /\ faults' = IF sure THEN faults ELSE faults + 1
       /\ unsure' = (unsure \/ (held /\ ~sure))
       /\ held' = (held /\ ~sure) /\ alive' = (alive /\ ~sure)
       /\ owed' = IF sure THEN {} ELSE owed
  /\ reader' = "done" /\ out' = <<>>
  /\ requests' = {} /\ waiter' = FailWaiter
  /\ stage' = IF stage \in {"load", "new"} \/ (stage = "wait" /\ (protocol = "acp" \/ requests # {})) THEN "idle" ELSE stage
  /\ replaying' = FALSE
  /\ UNCHANGED <<protocol, caps, launches, corrupt, streak, n, nextId, text, by, late, timeouts>>

-----------------------------------------------------------------------------
NextRpc ==
  \/ Update \/ Answer \/ NotifyDone \/ Garbage \/ AgentDies
  \/ ReadUpdate \/ ReadItem \/ ReadResponse \/ ReadDone \/ ReadGarbage \/ ReadEof
  \/ AskTurn \/ Restart \/ RestartBlocked \/ LoadTimesOut \/ AskNewSession \/ NewTimesOut
  \/ SendPrompt \/ Completed \/ WaiterFails \/ TurnReturns \/ TurnTimesOut \/ AbortTurn
  \/ StopBackend

RpcSpec == InitRpc /\ [][NextRpc]_rpcVars

-----------------------------------------------------------------------------
(* A turn that was sent to a reader that has ended does not wait for its     *)
(* whole timeout: "Fail it promptly with the real cause" (codex.py:758-760). *)
EofFailsTurn == stage = "wait" /\ reader = "done" => waiter # "armed" \/ requests # {}

(* What a turn reports, its completion and the text an ACP turn collects, is *)
(* its own, as long as no earlier request to the same process was given up   *)
(* unanswered (acp.py _dispatch, codex.py _handle_notification).             *)
TurnIsOwn ==
  stage = "complete" /\ ~late => by = n /\ (protocol = "acp" => text \subseteq {n})

(* "session/load replays history ... those frames are old turns and must not *)
(* reach the current turn" (acp.py:132-133).                                 *)
ReplayStaysOut == protocol = "acp" /\ stage \in {"wait", "complete"} => 0 \notin text

(* "the group is terminated either way so no agent keeps working after       *)
(* Symphony gave up on the turn. Unconfirmed cleanup blocks further turns."  *)
(* (acp.py:416-418): no ACP turn starts while the agent of an earlier one    *)
(* that was given up may still be at work on it.                             *)
GivenUpIsGone ==
  protocol = "acp" /\ stage \in {"prompt", "wait"} =>
    \A o \in owed : o.what = "prompt" => stage = "wait" /\ o.of = n

===============================================================================
