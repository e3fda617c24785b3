------------------------------ MODULE ChatSessions ------------------------------
(***************************************************************************)
(* The chat manager: sessions that requests start, reattach, stop and      *)
(* switch between Q&A and edit mode while turns run as tasks of their own. *)
(* A step is what runs between two awaits of the event loop.               *)
(***************************************************************************)
EXTENDS Naturals, FiniteSets

CONSTANTS Ids,          \* session ids
          Objs,         \* session objects; two may carry one id
          Requests,     \* concurrent HTTP requests
          Turns,        \* turn tasks
          MaxSessions, MaxRequests

VARIABLES live,     \* _sessions: the object serving an id
          index,    \* ids recorded in index.json
          obj,      \* every session object
          turn,     \* every turn task
          request,      \* program point of every request
          closed,   \* the manager was shut down
          made

chatVars == <<live, index, obj, turn, request, closed, made>>

None == "none"
Modes == {"qa", "edit"}

\* A lock is held by a request or a turn, and by which of the two can be told.
ASSUME ChatAssumption ==
  /\ Requests \cap Turns = {}
  /\ None \notin Ids \cup Objs \cup Requests \cup Turns

NoObj == [id |-> None, mode |-> "qa", backend |-> None, lifecycle |-> None,
          turnLock |-> None, task |-> None]

ChatTypeOK ==
  /\ live \in [Ids -> Objs \cup {None}] /\ index \subseteq Ids
  /\ obj \in [Objs -> [id : Ids \cup {None}, mode : Modes,
                       backend : Modes \cup {None, "stopped"},
                       lifecycle : Requests \cup {None},
                       turnLock : Requests \cup Turns \cup {None},
                       task : Turns \cup {None}]]
  /\ turn \in [Turns -> [st : {"new", "queued", "running", "cancelled", "done"},
                         obj : Objs \cup {None}, mode : Modes, seq : 0..MaxRequests]]

InitChat ==
  /\ live = [i \in Ids |-> None] /\ index = {}
  /\ obj = [o \in Objs |-> NoObj]
  /\ turn = [t \in Turns |-> [st |-> "new", obj |-> None, mode |-> "qa", seq |-> 0]]
  /\ request = [r \in Requests |-> [pc |-> "idle", id |-> None, obj |-> None, mode |-> "qa"]]
  /\ closed = FALSE /\ made = 0

At(r, pc) == request[r].pc = pc
Goto(r, pc) == request' = [request EXCEPT ![r].pc = pc]
Idle(r) == At(r, "idle") /\ made < MaxRequests
Full == Cardinality({i \in Ids : live[i] # None}) >= MaxSessions
Fresh(o) == obj[o].id = None /\ \A r \in Requests : request[r].obj # o
Mine(r) == obj[request[r].obj]
LiveIds == {i \in Ids : live[i] # None}

\* _save_index: every live session is written over what the file holds.
SaveIndex == index' = index \cup LiveIds

\* _forget_live drops the id, whichever object it serves.
Forget(o) == live' = [live EXCEPT ![obj[o].id] = None]

-----------------------------------------------------------------------------
(* Start and reattach.                                                      *)

\* The limit is checked and the session inserted without an await between.
StartSession(r, id, o, mode) ==
  /\ Idle(r) /\ ~closed /\ ~Full
  /\ id \notin index /\ live[id] = None /\ Fresh(o)
  /\ \A q \in Requests : request[q].id # id
  /\ obj' = [obj EXCEPT ![o] = [NoObj EXCEPT !.id = id, !.mode = mode, !.lifecycle = r]]
  /\ live' = [live EXCEPT ![id] = o]
  /\ request' = [request EXCEPT ![r] = [pc |-> "build", id |-> id, obj |-> o, mode |-> mode]]
  /\ made' = made + 1
  /\ UNCHANGED <<index, turn, closed>>

\* Reattaching reads the index and the transcript in threads: two awaits
\* between the checks and the insertion.
Reattach(r, id) ==
  /\ Idle(r) /\ ~closed /\ live[id] = None /\ ~Full /\ id \in index
  /\ request' = [request EXCEPT ![r] = [pc |-> "entry", id |-> id, obj |-> None, mode |-> "qa"]]
  /\ made' = made + 1
  /\ UNCHANGED <<live, index, obj, turn, closed>>

ReadEntry(r) ==
  /\ At(r, "entry")
  /\ Goto(r, IF closed \/ request[r].id \notin index THEN "idle" ELSE "transcript")
  /\ UNCHANGED <<live, index, obj, turn, closed, made>>

\* A reattached session is in Q&A mode and the agent starts anew.
ReadTranscript(r, o) ==
  /\ At(r, "transcript") /\ Fresh(o)
  /\ obj' = [obj EXCEPT ![o] = [NoObj EXCEPT !.id = request[r].id, !.lifecycle = r]]
  /\ live' = [live EXCEPT ![request[r].id] = o]
  /\ request' = [request EXCEPT ![r].pc = "build", ![r].obj = o]
  /\ UNCHANGED <<index, turn, closed, made>>

\* _build_backend: the agent is up in the session's mode, or the session is
\* forgotten.
Built(r) ==
  /\ At(r, "build")
  /\ obj' = [obj EXCEPT ![request[r].obj].backend = Mine(r).mode,
                        ![request[r].obj].lifecycle = None]
  /\ SaveIndex
  /\ Goto(r, "idle")
  /\ UNCHANGED <<live, turn, closed, made>>

BuildFails(r) ==
  /\ At(r, "build")
  /\ obj' = [obj EXCEPT ![request[r].obj].lifecycle = None]
  /\ Forget(request[r].obj)
  /\ Goto(r, "idle")
  /\ UNCHANGED <<index, turn, closed, made>>

-----------------------------------------------------------------------------
(* Messages and turns.                                                      *)

\* The turn lock is looked at here and taken by the task when it first runs.
SendMessage(r, id, t) ==
  /\ Idle(r) /\ live[id] # None /\ turn[t].st = "new"
  /\ LET o == live[id] IN
     /\ obj[o].backend # None /\ obj[o].turnLock = None
     /\ turn' = [turn EXCEPT ![t] = [st |-> "queued", obj |-> o, mode |-> obj[o].mode,
                                  seq |-> made]]
     /\ obj' = [obj EXCEPT ![o].task = t]
  /\ made' = made + 1
  /\ UNCHANGED <<live, index, request, closed>>

\* Tasks start, and the lock serves its waiters, in the order they came.
First(t) ==
  \A u \in Turns : turn[u].st = "queued" /\ turn[u].obj = turn[t].obj => turn[t].seq <= turn[u].seq

TurnStart(t) ==
  LET o == turn[t].obj IN
  /\ turn[t].st = "queued" /\ obj[o].turnLock = None /\ First(t)
  /\ obj' = [obj EXCEPT ![o].turnLock = t]
  /\ turn' = [turn EXCEPT ![t].st = IF obj[o].backend \in Modes THEN "running" ELSE "cancelled"]
  /\ UNCHANGED <<live, index, request, closed, made>>

\* Completed, failed, refused by a stopped backend, or cancelled.
TurnEnds(t) ==
  LET o == turn[t].obj IN
  /\ turn[t].st \in {"running", "cancelled"}
  /\ turn' = [turn EXCEPT ![t].st = "done"]
  /\ obj' = [obj EXCEPT ![o].turnLock = IF @ = t THEN None ELSE @]
  /\ SaveIndex
  /\ UNCHANGED <<live, request, closed, made>>

-----------------------------------------------------------------------------
(* Mode changes.                                                            *)

TurnPending(o) == obj[o].task # None /\ turn[obj[o].task].st # "done"

MutantMaySwitch(o) == obj[o].turnLock = None

\* No turn may run or be about to run.
MaySwitch(o) == obj[o].turnLock = None /\ ~TurnPending(o)

SetMode(r, id, mode) ==
  /\ Idle(r) /\ live[id] # None
  /\ LET o == live[id] IN
     /\ obj[o].lifecycle = None /\ MaySwitch(o) /\ obj[o].mode # mode
     /\ obj' = [obj EXCEPT ![o].lifecycle = r, ![o].turnLock = r]
     /\ request' = [request EXCEPT ![r] = [pc |-> "old_stop", id |-> id, obj |-> o, mode |-> mode]]
  /\ made' = made + 1
  /\ UNCHANGED <<live, index, turn, closed>>

OldBackendStopped(r) ==
  /\ At(r, "old_stop")
  /\ obj' = [obj EXCEPT ![request[r].obj].mode = request[r].mode, ![request[r].obj].backend = None]
  /\ Goto(r, "rebuild")
  /\ UNCHANGED <<live, index, turn, closed, made>>

Rebuilt(r) ==
  /\ At(r, "rebuild")
  /\ obj' = [obj EXCEPT ![request[r].obj].backend = Mine(r).mode,
                        ![request[r].obj].turnLock = None, ![request[r].obj].lifecycle = None]
  /\ SaveIndex
  /\ Goto(r, "idle")
  /\ UNCHANGED <<live, turn, closed, made>>

RebuildFails(r) ==
  /\ At(r, "rebuild")
  /\ obj' = [obj EXCEPT ![request[r].obj].turnLock = None, ![request[r].obj].lifecycle = None]
  /\ SaveIndex
  /\ Forget(request[r].obj)
  /\ Goto(r, "idle")
  /\ UNCHANGED <<turn, closed, made>>

-----------------------------------------------------------------------------
(* Stop.                                                                    *)

\* Under the lifecycle lock the session must still be the live one; its last
\* turn task is cancelled and awaited.
StopSession(r, id) ==
  /\ Idle(r) /\ live[id] # None
  /\ LET o == live[id] IN
     /\ obj[o].lifecycle = None
     /\ obj' = [obj EXCEPT ![o].lifecycle = r]
     /\ turn' = IF TurnPending(o) THEN [turn EXCEPT ![obj[o].task].st = "cancelled"] ELSE turn
     /\ request' = [request EXCEPT ![r] = [pc |-> "cancelled", id |-> id, obj |-> o, mode |-> "qa"]]
  /\ made' = made + 1
  /\ UNCHANGED <<live, index, closed>>

AwaitTurn(r) ==
  /\ At(r, "cancelled") /\ ~TurnPending(request[r].obj)
  /\ obj' = [obj EXCEPT ![request[r].obj].task = None]
  /\ Goto(r, "stop_backend")
  /\ UNCHANGED <<live, index, turn, closed, made>>

\* A stopped backend ends the turn that runs on it and refuses new ones.
StopBackend(r) ==
  /\ At(r, "stop_backend")
  /\ obj' = [obj EXCEPT ![request[r].obj].backend = "stopped"]
  /\ turn' = [t \in Turns |-> IF turn[t].obj = request[r].obj /\ turn[t].st = "running"
                              THEN [turn[t] EXCEPT !.st = "cancelled"] ELSE turn[t]]
  /\ SaveIndex
  /\ Goto(r, "flush")
  /\ UNCHANGED <<live, closed, made>>

\* The transcript is flushed in a thread; then the session is forgotten, and
\* with it, when asked for, its index entry.
ForgetSession(r) ==
  /\ At(r, "flush")
  /\ obj' = [obj EXCEPT ![request[r].obj].lifecycle = None]
  /\ Forget(request[r].obj)
  /\ index' \in {index, index \ {request[r].id}}
  /\ Goto(r, "idle")
  /\ UNCHANGED <<turn, closed, made>>

\* Shutdown refuses new sessions and stops the live ones through StopSession.
Close ==
  /\ ~closed /\ closed' = TRUE
  /\ UNCHANGED <<live, index, obj, turn, request, made>>

-----------------------------------------------------------------------------
RequestStep(r) ==
  \/ \E id \in Ids, o \in Objs, m \in Modes : StartSession(r, id, o, m)
  \/ \E id \in Ids : Reattach(r, id) \/ StopSession(r, id)
  \/ \E id \in Ids, m \in Modes : SetMode(r, id, m)
  \/ \E id \in Ids, t \in Turns : SendMessage(r, id, t)
  \/ \E o \in Objs : ReadTranscript(r, o)
  \/ ReadEntry(r) \/ Built(r) \/ BuildFails(r) \/ OldBackendStopped(r) \/ Rebuilt(r)
  \/ RebuildFails(r) \/ AwaitTurn(r) \/ StopBackend(r) \/ ForgetSession(r)

NextChat ==
  \/ \E r \in Requests : RequestStep(r)
  \/ \E t \in Turns : TurnStart(t) \/ TurnEnds(t)
  \/ Close

ChatSpec == InitChat /\ [][NextChat]_chatVars

-----------------------------------------------------------------------------
(* A turn only ever runs on an agent built for the mode the message was sent *)
(* in, and that is the session's mode while it runs: an edit turn never runs *)
(* in a session the operator switched to Q&A (chat set_mode, send_message).  *)
TurnRunsInMode ==
  \A t \in Turns : turn[t].st = "running" =>
    obj[turn[t].obj].backend = turn[t].mode /\ obj[turn[t].obj].mode = turn[t].mode

(* A session that was stopped leaves no turn running (chat stop_session).   *)
StoppedIsQuiet ==
  \A r \in Requests, t \in Turns :
    At(r, "flush") /\ turn[t].st = "running" => turn[t].obj # request[r].obj

(* "Up to MAX_SESSIONS operator chat sessions" (chat/__init__.py:642).       *)
WithinLimit == Cardinality(LiveIds) <= MaxSessions

===============================================================================
