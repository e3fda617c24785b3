---------------------------- MODULE ClientProofs ----------------------------
(***************************************************************************)
(* Proofs about what operators ask of the service.                         *)
(*                                                                         *)
(* PmPlanning: an agent that is alive belongs to an active entry that      *)
(* blocks new operations, whatever requests are cut off and whatever stops *)
(* are not confirmed.                                                      *)
(*                                                                         *)
(* ChatSessions: a turn runs on an agent built for the mode its message    *)
(* was sent in, whatever requests start, switch, stop and reattach         *)
(* sessions around it.  A mode change looks at the lock of the turns and   *)
(* at the last turn task only; that no earlier task still waits is what    *)
(* LastInLine says, and it holds of sessions nobody is stopping.           *)
(*                                                                         *)
(* Service: with commands one at a time and none of them killed, an        *)
(* orchestrator that is alive is the one the record names.  OneByOne says  *)
(* which command may have one that is not recorded yet.                    *)
(*                                                                         *)
(* ProjectSetup: what a failed setup leaves of its target is what it found *)
(* there.  Made says at each step what the setup has made of it so far.    *)
(*                                                                         *)
(* ChatActions: requests that approve an intent share one filing.  A card  *)
(* being filed is running, so that no clearing of cards touches it, and    *)
(* all tickets of a card but one are owed to artifacts not written.        *)
(***************************************************************************)
EXTENDS PmPlanning, ChatSessions, Service, ProjectSetup, ChatActions, TLAPS

\* The client and the request that made it.  An agent the client does not
\* hold is being launched; a task that goes on without its request has been
\* cancelled; an agent without a request has left an error in its entry.
OpSound(c, e, r, s) ==
  /\ c.alive /\ ~c.held => c.task = "spawn"
  /\ c.task = "spawn" => ~c.held
  /\ c.alive => e.in /\ (r.pc = "off" => e.err)
  /\ r.pc \in {"propose", "ids", "unwind", "unwound"} => s = "pending" /\ e.in
  /\ r.pc # "off" => ~e.finished
  /\ c.task \notin {"none", "done"} /\ r.pc # "propose" => c.cancel
  /\ r.pc = "unwound" => c.task = "done"
  /\ c.lock = "task" => c.task \in {"unwind", "stop"}
  /\ c.lock = "route" => r.pc \in {"stop", "unwound"} /\ c.task # "spawn"

\* A request that cancels, and the client of its operation.
ReqSound(q, c, s) ==
  /\ q.pc # "off" => s # "none"
  /\ q.pc = "halt" => s \in Over /\ c.task \in {"none", "done"}
  /\ q.pc \in {"wait", "stop", "finish"} => c.cancel
  /\ q.pc = "finish" => ~c.alive /\ c.task # "spawn"

\* A cancelling request that stops the agent is about that agent, and no
\* launch is under way beside it.
LockSound(k, q, o, c) ==
  c.lock = k => q.op = o /\ q.pc \in {"halt", "stop"} /\ c.task # "spawn"

IInv ==
  /\ TypeOK
  /\ \A o \in Ops : OpSound(client[o], entry[o], route[o], row[o])
  /\ \A k \in Cancels : ReqSound(req[k], client[req[k].op], row[req[k].op])
  /\ \A k \in Cancels, o \in Ops : LockSound(k, req[k], o, client[o])

-----------------------------------------------------------------------------
(* Facts about a step that is about one operation.                         *)

(* The parts the invariant does not relate: ids, flags, counters.          *)
Rest ==
  /\ ids \in [Ops -> {"none", "RESERVED", "RETIRED"}]
  /\ cancelling \subseteq Ops /\ stray \subseteq Ops /\ faults \in 0..MaxFaults

(* A step that gives one operation a new client, entry, request and row,   *)
(* and changes only cancels of that operation, keeps the invariant when    *)
(* what it gives is sound.                                                 *)
LEMMA OpStep ==
  ASSUME IInv, NEW o \in Ops, Rest',
         NEW c \in Client, NEW e \in Entry, NEW r \in Route,
         NEW s \in {"none", "pending"} \cup Over,
         client' = [client EXCEPT ![o] = c], entry' = [entry EXCEPT ![o] = e],
         route' = [route EXCEPT ![o] = r], row' = [row EXCEPT ![o] = s],
         req' \in [Cancels -> Request],
         OpSound(c, e, r, s),
         \A k \in Cancels : req'[k].op # o => req'[k] = req[k],
         \A k \in Cancels : req'[k].op = o => ReqSound(req'[k], c, s),
         \A k \in Cancels : LockSound(k, req'[k], o, c),
         \A k \in Cancels : req'[k] = req[k] \/ \A p \in Ops \ {o} : client[p].lock # k
  PROVE  IInv'
<1>1. /\ client' \in [Ops -> Client] /\ entry' \in [Ops -> Entry]
      /\ route' \in [Ops -> Route] /\ row' \in [Ops -> {"none", "pending"} \cup Over]
  BY DEF IInv, TypeOK
<1>2. TypeOK'
  BY <1>1 DEF TypeOK, Rest
<1>3. /\ client'[o] = c /\ entry'[o] = e /\ route'[o] = r /\ row'[o] = s
      /\ \A p \in Ops \ {o} : /\ client'[p] = client[p] /\ entry'[p] = entry[p]
                              /\ route'[p] = route[p] /\ row'[p] = row[p]
  BY DEF IInv, TypeOK
<1>4. \A p \in Ops : OpSound(client'[p], entry'[p], route'[p], row'[p])
  BY <1>3 DEF IInv
<1>5. ASSUME NEW k \in Cancels
      PROVE  ReqSound(req'[k], client'[req'[k].op], row'[req'[k].op])
  <2>1. req'[k].op \in Ops
    BY DEF Request
  <2>2. CASE req'[k].op = o
    BY <1>3, <2>2
  <2>3. CASE req'[k].op # o
    BY <1>3, <2>1, <2>3 DEF IInv
  <2> QED BY <2>2, <2>3
<1>6. ASSUME NEW k \in Cancels, NEW p \in Ops
      PROVE  LockSound(k, req'[k], p, client'[p])
  <2>1. CASE p = o
    BY <1>3, <2>1
  <2>2. CASE p # o /\ req'[k] = req[k]
    BY <1>3, <2>2 DEF IInv
  <2>3. CASE p # o /\ req'[k] # req[k]
    BY <1>3, <2>3 DEF LockSound
  <2> QED BY <2>1, <2>2, <2>3
<1> QED BY <1>2, <1>4, <1>5, <1>6 DEF IInv

(* What the invariant says of one operation.                               *)
LEMMA Facts ==
  ASSUME IInv, NEW o \in Ops
  PROVE  /\ client[o] \in Client /\ entry[o] \in Entry /\ route[o] \in Route
         /\ row[o] \in {"none", "pending"} \cup Over
         /\ OpSound(client[o], entry[o], route[o], row[o])
         /\ req \in [Cancels -> Request] /\ Rest
         /\ \A k \in Cancels : req[k].op = o => ReqSound(req[k], client[o], row[o])
         /\ \A k \in Cancels : LockSound(k, req[k], o, client[o])
BY DEF IInv, TypeOK, Rest

(* A step that changes a client alone.                                     *)
LEMMA ClientStep ==
  ASSUME IInv, NEW o \in Ops, Rest', NEW c \in Client,
         client' = [client EXCEPT ![o] = c], UNCHANGED <<row, entry, route, req>>,
         OpSound(c, entry[o], route[o], row[o]),
         \A k \in Cancels : req[k].op = o => ReqSound(req[k], c, row[o]),
         \A k \in Cancels : LockSound(k, req[k], o, c)
  PROVE  IInv'
<1>1. /\ entry' = [entry EXCEPT ![o] = entry[o]] /\ route' = [route EXCEPT ![o] = route[o]]
      /\ row' = [row EXCEPT ![o] = row[o]]
  BY DEF IInv, TypeOK
<1>2. \A k \in Cancels : req'[k] = req[k]
  OBVIOUS
<1> HIDE DEF IInv
<1> QED BY <1>1, <1>2, Facts, OpStep

(* stop, as whoever holds the lock ends it.                                *)
LEMMA StoppedFacts ==
  ASSUME NEW c \in Client
  PROVE  /\ Stopped(c) \in Client /\ Unstopped(c) \in Client
         /\ Stopped(c).alive = (c.alive /\ ~c.held) /\ ~Stopped(c).held
         /\ Stopped(c).task = c.task /\ Stopped(c).cancel = c.cancel
         /\ Stopped(c).lock = "free"
         /\ Unstopped(c).alive = c.alive /\ Unstopped(c).held = c.held
         /\ Unstopped(c).task = c.task /\ Unstopped(c).cancel = c.cancel
         /\ Unstopped(c).lock = "free"
<1>1. Unstopped(c) \in Client
  BY DEF Client, Unstopped
<1>2. CASE c.alive /\ ~c.held
  BY <1>1, <1>2 DEF Client, Stopped, Unstopped
<1>3. CASE ~(c.alive /\ ~c.held)
  <2>1. Stopped(c) = [c EXCEPT !.alive = FALSE, !.held = FALSE, !.unsure = FALSE, !.lock = "free"]
    BY <1>3 DEF Stopped, Client
  <2>2. Stopped(c) \in Client
    BY <2>1 DEF Client
  <2>3. /\ Stopped(c).alive = (c.alive /\ ~c.held) /\ ~Stopped(c).held /\ Stopped(c).lock = "free"
        /\ Stopped(c).task = c.task /\ Stopped(c).cancel = c.cancel
    BY <1>3, <2>1 DEF Client
  <2>4. /\ Unstopped(c).alive = c.alive /\ Unstopped(c).held = c.held
        /\ Unstopped(c).task = c.task /\ Unstopped(c).cancel = c.cancel
        /\ Unstopped(c).lock = "free"
    BY DEF Client, Unstopped
  <2> QED BY <1>1, <2>2, <2>3, <2>4
<1> QED BY <1>2, <1>3

-----------------------------------------------------------------------------
(* The steps of a client.                                                  *)

(* A task that was not stopping goes on towards its stop.                  *)
LEMMA TaskMoves ==
  ASSUME IInv, NEW o \in Ops, TaskOnly, Rest', NEW d \in Client,
         client' = [client EXCEPT ![o] = d],
         d.cancel = client[o].cancel, d.lock = client[o].lock,
         client[o].task \in {"admit", "spawn", "talk"}, d.task \in {"talk", "unwind", "stop"},
         d.alive => client[o].alive,
         d.alive => d.held \/ (client[o].task # "spawn" /\ d.held = client[o].held)
  PROVE  IInv'
<1>1. /\ client[o] \in Client /\ OpSound(client[o], entry[o], route[o], row[o])
      /\ \A k \in Cancels : req[k].op = o => ReqSound(req[k], client[o], row[o])
      /\ \A k \in Cancels : LockSound(k, req[k], o, client[o])
      /\ UNCHANGED <<row, entry, route, req>>
  BY Facts DEF TaskOnly
<1>2. OpSound(d, entry[o], route[o], row[o])
  BY <1>1 DEF OpSound
<1>3. ASSUME NEW k \in Cancels, req[k].op = o PROVE ReqSound(req[k], d, row[o])
  BY <1>1, <1>3 DEF ReqSound
<1>4. ASSUME NEW k \in Cancels PROVE LockSound(k, req[k], o, d)
  BY <1>1, <1>4 DEF LockSound
<1> QED BY <1>1, <1>2, <1>3, <1>4, ClientStep

LEMMA AdmitKeeps ==
  ASSUME IInv, NEW o \in Ops, Admit(o)
  PROVE  IInv'
<1>1. /\ client[o] \in Client /\ OpSound(client[o], entry[o], route[o], row[o])
      /\ \A k \in Cancels : req[k].op = o => ReqSound(req[k], client[o], row[o])
      /\ \A k \in Cancels : LockSound(k, req[k], o, client[o])
      /\ TaskOnly /\ UNCHANGED <<row, entry, route, req>> /\ Rest'
  BY Facts DEF Admit, TaskOnly, Rest
<1> DEFINE c == client[o]
<1>2. CASE MayLaunch(c) /\ Do(o, [c EXCEPT !.task = "spawn", !.alive = TRUE])
  <2> DEFINE d == [c EXCEPT !.task = "spawn", !.alive = TRUE]
  <2>1. /\ d \in Client /\ d.alive /\ d.task = "spawn" /\ d.held = c.held
        /\ d.cancel = c.cancel /\ d.lock = c.lock
    BY <1>1 DEF Client
  <2>2. c.task = "admit" /\ ~c.held /\ ~c.cancel
    BY <1>2 DEF Admit, MayLaunch
  <2>3. client' = [client EXCEPT ![o] = d]
    BY <1>2 DEF Do
  <2> HIDE DEF d
  <2>4. OpSound(d, entry[o], route[o], row[o])
    BY <1>1, <2>1, <2>2 DEF OpSound
  <2>5. ASSUME NEW k \in Cancels, req[k].op = o PROVE ReqSound(req[k], d, row[o])
    BY <1>1, <2>1, <2>2, <2>5 DEF ReqSound
  <2>6. ASSUME NEW k \in Cancels PROVE LockSound(k, req[k], o, d)
    BY <1>1, <2>1, <2>2, <2>6 DEF ReqSound, LockSound
  <2> QED BY <1>1, <2>1, <2>3, <2>4, <2>5, <2>6, ClientStep
<1>3. CASE Do(o, [c EXCEPT !.task = "stop", !.result = "error"])
  <2> DEFINE d == [c EXCEPT !.task = "stop", !.result = "error"]
  <2>1. /\ d \in Client /\ d.alive = c.alive /\ d.task = "stop" /\ d.held = c.held
        /\ d.cancel = c.cancel /\ d.lock = c.lock
    BY <1>1 DEF Client
  <2>2. c.task = "admit" /\ client' = [client EXCEPT ![o] = d]
    BY <1>3 DEF Admit, Do
  <2> HIDE DEF d
  <2> QED BY <1>1, <2>1, <2>2, TaskMoves
<1> QED BY <1>2, <1>3 DEF Admit

LEMMA SpawnedKeeps ==
  ASSUME IInv, NEW o \in Ops, Spawned(o)
  PROVE  IInv'
<1> DEFINE c == client[o]
<1>1. c \in Client /\ TaskOnly /\ Rest' /\ c.task = "spawn"
  BY Facts DEF Spawned, TaskOnly, Rest
<1>2. CASE Do(o, [c EXCEPT !.held = TRUE, !.task = IF c.cancel THEN "unwind" ELSE "talk"])
  <2> DEFINE t == IF c.cancel THEN "unwind" ELSE "talk"
             d == [c EXCEPT !.held = TRUE, !.task = t]
  <2>1. t \in {"unwind", "talk"}
    OBVIOUS
  <2>2. client' = [client EXCEPT ![o] = d]
    BY <1>2 DEF Do
  <2> HIDE DEF t
  <2>3. /\ d \in Client /\ d.alive = c.alive /\ d.task = t /\ d.held
        /\ d.cancel = c.cancel /\ d.lock = c.lock
    BY <1>1, <2>1 DEF Client
  <2> HIDE DEF d
  <2> QED BY <1>1, <2>1, <2>2, <2>3, TaskMoves
<1>3. CASE Do(o, [c EXCEPT !.alive = FALSE, !.task = "unwind"])
  <2> DEFINE d == [c EXCEPT !.alive = FALSE, !.task = "unwind"]
  <2>1. client' = [client EXCEPT ![o] = d]
    BY <1>3 DEF Do
  <2>2. /\ d \in Client /\ ~d.alive /\ d.task = "unwind" /\ d.cancel = c.cancel
        /\ d.lock = c.lock
    BY <1>1 DEF Client
  <2> HIDE DEF d
  <2> QED BY <1>1, <2>1, <2>2, TaskMoves
<1> QED BY <1>2, <1>3 DEF Spawned

LEMMA TalkKeeps ==
  ASSUME IInv, NEW o \in Ops, Answered(o) \/ TalkFails(o)
  PROVE  IInv'
<1> DEFINE c == client[o]
<1>1. c \in Client /\ TaskOnly /\ Rest' /\ c.task = "talk"
  BY Facts DEF Answered, TalkFails, TaskOnly, Rest
<1>2. CASE Answered(o)
  <2> DEFINE d == [c EXCEPT !.task = "stop"]
  <2>1. client' = [client EXCEPT ![o] = d]
    BY <1>2 DEF Answered, Do
  <2>2. /\ d \in Client /\ d.alive = c.alive /\ d.held = c.held /\ d.task = "stop"
        /\ d.cancel = c.cancel /\ d.lock = c.lock
    BY <1>1 DEF Client
  <2> HIDE DEF d
  <2> QED BY <1>1, <2>1, <2>2, TaskMoves
<1>3. CASE TalkFails(o)
  <2>1. PICK t \in {"unwind", "stop"}, a \in {c.alive, FALSE} :
          Do(o, [c EXCEPT !.task = t, !.result = "error", !.alive = a])
    BY <1>3 DEF TalkFails
  <2> DEFINE d == [c EXCEPT !.task = t, !.result = "error", !.alive = a]
  <2>2. client' = [client EXCEPT ![o] = d]
    BY <2>1 DEF Do
  <2>3. a \in BOOLEAN /\ (a => c.alive)
    BY <1>1 DEF Client
  <2>4. /\ d \in Client /\ (d.alive => c.alive) /\ d.held = c.held /\ d.task = t
        /\ d.cancel = c.cancel /\ d.lock = c.lock
    BY <1>1, <2>3 DEF Client
  <2> HIDE DEF d
  <2> QED BY <1>1, <2>2, <2>4, TaskMoves
<1> QED BY <1>2, <1>3

(* The lock is taken by who may, while no launch is under way unless by    *)
(* the task, or the stray stop of the reader.                              *)
LEMMA LockKeeps ==
  ASSUME IInv, NEW o \in Ops, NEW who \in Cancels \cup {"task", "route", "reader"},
         Lock(o, who), Rest', UNCHANGED <<row, entry, route, req>>,
         who = "task" => client[o].task \in {"unwind", "stop"},
         who = "route" => route[o].pc \in {"stop", "unwound"},
         who \in Cancels => req[who].op = o /\ req[who].pc \in {"halt", "stop"}
  PROVE  IInv'
<1>1. /\ client[o] \in Client /\ OpSound(client[o], entry[o], route[o], row[o])
      /\ \A k \in Cancels : req[k].op = o => ReqSound(req[k], client[o], row[o])
  BY Facts
<1> DEFINE c == client[o]
           d == [c EXCEPT !.lock = who]
<1>2. client' = [client EXCEPT ![o] = d]
  BY DEF Lock, Do
<1>3. /\ d \in Client /\ d.alive = c.alive /\ d.held = c.held /\ d.task = c.task
      /\ d.cancel = c.cancel /\ d.lock = who
  BY <1>1 DEF Client
<1>4. who # "task" => c.task # "spawn"
  BY <1>1 DEF Lock, MayStop, Running, OpSound
<1> HIDE DEF d
<1>5. OpSound(d, entry[o], route[o], row[o])
  BY <1>1, <1>3, <1>4, PlanningAssumption DEF OpSound
<1>6. ASSUME NEW k \in Cancels, req[k].op = o PROVE ReqSound(req[k], d, row[o])
  BY <1>1, <1>3, <1>6 DEF ReqSound
<1>7. ASSUME NEW k \in Cancels PROVE LockSound(k, req[k], o, d)
  BY <1>3, <1>4, <1>7, PlanningAssumption DEF LockSound
<1> QED BY <1>2, <1>3, <1>5, <1>6, <1>7, ClientStep

(* The end of a stop, when it leaves no agent the client has let go of.    *)
LEMMA EndsStop ==
  ASSUME IInv, NEW o \in Ops, Rest', UNCHANGED <<row, entry, route, req>>,
         NEW d \in Client, client' = [client EXCEPT ![o] = d],
         d.lock = "free", d.cancel = client[o].cancel,
         \/ d.task = client[o].task
         \/ client[o].task \in {"unwind", "stop"} /\ d.task \in {"stop", "done"},
         d.alive => client[o].alive, d.held => client[o].held,
         d.alive /\ ~d.held => d.task = "spawn"
  PROVE  IInv'
<1>1. /\ OpSound(client[o], entry[o], route[o], row[o])
      /\ \A k \in Cancels : req[k].op = o => ReqSound(req[k], client[o], row[o])
  BY Facts
<1>2. OpSound(d, entry[o], route[o], row[o])
  BY <1>1 DEF OpSound
<1>3. ASSUME NEW k \in Cancels, req[k].op = o PROVE ReqSound(req[k], d, row[o])
  BY <1>1, <1>3 DEF ReqSound
<1>4. ASSUME NEW k \in Cancels PROVE LockSound(k, req[k], o, d)
  BY PlanningAssumption DEF LockSound
<1> QED BY <1>2, <1>3, <1>4, ClientStep

LEMMA TaskStopKeeps ==
  ASSUME IInv, NEW o \in Ops, TaskStops(o) \/ TaskStopped(o)
  PROVE  IInv'
<1> DEFINE c == client[o]
<1>1. /\ c \in Client /\ OpSound(c, entry[o], route[o], row[o])
      /\ UNCHANGED <<row, entry, route, req>> /\ Rest'
  BY Facts DEF TaskStops, TaskStopped, TaskOnly, Rest
<1>2. CASE TaskStops(o)
  BY <1>1, <1>2, LockKeeps, PlanningAssumption DEF TaskStops
<1>3. CASE TaskStopped(o)
  <2> DEFINE next == IF c.task = "unwind" THEN "stop" ELSE "done"
             res == IF c.task = "unwind" THEN "error" ELSE c.result
  <2>1. c.lock = "task" /\ c.task \in {"unwind", "stop"}
    BY <1>1, <1>3 DEF TaskStopped, OpSound
  <2>2. /\ c.alive => c.held
        /\ next \in {"stop", "done"} /\ res \in {"ok", "error", "unclean"}
    BY <1>1, <2>1 DEF OpSound, Client
  <2>3. CASE Do(o, [Stopped(c) EXCEPT !.task = next,
                      !.result = IF c.task = "unwind" THEN "error" ELSE @])
    <3> DEFINE u == Stopped(c)
               d == [u EXCEPT !.task = next, !.result = res]
    <3>1. Stopped(c).result = c.result
      BY <1>1 DEF Stopped, Client
    <3>2. client' = [client EXCEPT ![o] = d]
      BY <2>3, <3>1 DEF Do
    <3>3. /\ u \in Client /\ ~u.alive /\ ~u.held /\ u.cancel = c.cancel /\ u.lock = "free"
      BY <1>1, <2>2, StoppedFacts
    <3> HIDE DEF next, res, u
    <3>4. /\ d \in Client /\ ~d.alive /\ ~d.held /\ d.task = next
          /\ d.cancel = c.cancel /\ d.lock = "free"
      BY <2>2, <3>3 DEF Client
    <3> HIDE DEF d
    <3> QED BY <1>1, <2>1, <2>2, <3>2, <3>4, EndsStop
  <2>4. CASE c.held /\ Do(o, [Unstopped(c) EXCEPT !.task = next, !.result = "unclean"])
    <3> DEFINE u == Unstopped(c)
               d == [u EXCEPT !.task = next, !.result = "unclean"]
    <3>1. client' = [client EXCEPT ![o] = d]
      BY <2>4 DEF Do
    <3>2. /\ u \in Client /\ u.alive = c.alive /\ u.held = c.held
          /\ u.cancel = c.cancel /\ u.lock = "free"
      BY <1>1, StoppedFacts
    <3> HIDE DEF next, res, u
    <3>3. /\ d \in Client /\ d.alive = c.alive /\ d.held = c.held /\ d.task = next
          /\ d.cancel = c.cancel /\ d.lock = "free"
      BY <2>2, <3>2 DEF Client
    <3> HIDE DEF d
    <3> QED BY <1>1, <2>1, <2>2, <2>4, <3>1, <3>3, EndsStop
  <2> QED BY <1>3, <2>3, <2>4 DEF TaskStopped
<1> QED BY <1>2, <1>3

LEMMA ReaderKeeps ==
  ASSUME IInv, NEW o \in Ops,
         ReaderStops(o) \/ StrayStop(o) \/ StrayStops(o) \/ StrayStopped(o)
  PROVE  IInv'
<1> DEFINE c == client[o]
<1>1. /\ c \in Client /\ OpSound(c, entry[o], route[o], row[o])
      /\ UNCHANGED <<row, entry, route, req>> /\ Rest'
  BY Facts, PlanningAssumption
  DEF ReaderStops, StrayStop, StrayStops, StrayStopped, TaskOnly, Fault, Rest
<1>2. CASE ReaderStops(o)
  BY <1>1, <1>2 DEF ReaderStops, IInv, TypeOK, Rest
<1>3. CASE StrayStop(o)
  <2> DEFINE d == [c EXCEPT !.unsure = TRUE]
  <2>1. client' = [client EXCEPT ![o] = d]
    BY <1>3 DEF StrayStop, NotYet, Do
  <2>2. /\ d \in Client /\ d.alive = c.alive /\ d.held = c.held /\ d.task = c.task
        /\ d.cancel = c.cancel /\ d.lock = c.lock /\ d.lock = "free"
    BY <1>1, <1>3 DEF Client, StrayStop, NotYet
  <2> HIDE DEF d
  <2> QED BY <1>1, <2>1, <2>2, EndsStop DEF OpSound
<1>4. CASE StrayStops(o)
  BY <1>1, <1>4, LockKeeps, PlanningAssumption DEF StrayStops
<1>5. CASE StrayStopped(o)
  <2>1. CASE Do(o, Stopped(c))
    <3> DEFINE d == Stopped(c)
    <3>1. client' = [client EXCEPT ![o] = d]
      BY <2>1 DEF Do
    <3>2. /\ d \in Client /\ (d.alive => c.alive /\ ~c.held) /\ ~d.held /\ d.task = c.task
          /\ d.cancel = c.cancel /\ d.lock = "free"
      BY <1>1, StoppedFacts
    <3> HIDE DEF d
    <3> QED BY <1>1, <3>1, <3>2, EndsStop DEF OpSound
  <2>2. CASE Do(o, Unstopped(c))
    <3> DEFINE d == Unstopped(c)
    <3>1. client' = [client EXCEPT ![o] = d]
      BY <2>2 DEF Do
    <3>2. /\ d \in Client /\ d.alive = c.alive /\ d.held = c.held /\ d.task = c.task
          /\ d.cancel = c.cancel /\ d.lock = "free"
      BY <1>1, StoppedFacts
    <3> HIDE DEF d
    <3> QED BY <1>1, <3>1, <3>2, EndsStop DEF OpSound
  <2> QED BY <1>5, <2>1, <2>2 DEF StrayStopped
<1> QED BY <1>2, <1>3, <1>4, <1>5

-----------------------------------------------------------------------------
(* The steps of the request that makes the proposal.                       *)

Busy == {"propose", "ids", "unwind", "unwound"}

LEMMA Same ==
  ASSUME IInv, NEW o \in Ops
  PROVE  /\ entry = [entry EXCEPT ![o] = entry[o]] /\ row = [row EXCEPT ![o] = row[o]]
         /\ client = [client EXCEPT ![o] = client[o]]
         /\ route = [route EXCEPT ![o] = route[o]]
BY DEF IInv, TypeOK

(* The request goes on, or ends its operation and is about to stop.        *)
LEMMA RouteGoes ==
  ASSUME IInv, NEW o \in Ops, Rest', UNCHANGED <<entry, req>>, route[o].pc \in Busy,
         NEW d \in Client, client' = [client EXCEPT ![o] = d],
         NEW r \in Route, route' = [route EXCEPT ![o] = r],
         NEW s \in {"pending"} \cup Over, row' = [row EXCEPT ![o] = s],
         r.pc \in Busy => s = "pending", r.pc # "off",
         r.pc = "unwound" => d.task = "done",
         \/ d.task = client[o].task
         \/ client[o].task = "done" /\ d.task \in {"none", "admit"},
         d.task \notin {"none", "done"} /\ r.pc # "propose" => d.cancel,
         client[o].cancel => d.cancel,
         d.lock \in {client[o].lock, "free"},
         d.lock = "route" => r.pc \in {"stop", "unwound"},
         d.alive => client[o].alive, d.held => client[o].held,
         d.alive /\ ~d.held => d.task = "spawn"
  PROVE  IInv'
<1>1. /\ OpSound(client[o], entry[o], route[o], row[o])
      /\ \A k \in Cancels : req[k].op = o => ReqSound(req[k], client[o], row[o])
      /\ \A k \in Cancels : LockSound(k, req[k], o, client[o])
      /\ entry[o] \in Entry /\ req \in [Cancels -> Request]
  BY Facts
<1>2. row[o] = "pending" /\ entry[o].in /\ ~entry[o].finished
  BY <1>1 DEF OpSound, Busy
<1>3. OpSound(d, entry[o], r, s)
  BY <1>1, <1>2 DEF OpSound, Busy
<1>4. ASSUME NEW k \in Cancels, req[k].op = o PROVE ReqSound(req[k], d, s)
  BY <1>1, <1>2, <1>4 DEF ReqSound, Over
<1>5. ASSUME NEW k \in Cancels PROVE LockSound(k, req[k], o, d)
  BY <1>1, <1>5, PlanningAssumption DEF LockSound
<1>6. \A k \in Cancels : req'[k] = req[k] /\ req' \in [Cancels -> Request]
  BY <1>1
<1>7. entry' = [entry EXCEPT ![o] = entry[o]]
  BY Same
<1> HIDE DEF IInv
<1> QED BY <1>1, <1>3, <1>4, <1>5, <1>6, <1>7, OpStep

LEMMA RetireType ==
  ASSUME IInv, NEW o \in Ops, Retire(o)
  PROVE  ids' \in [Ops -> {"none", "RESERVED", "RETIRED"}]
<1>1. CASE ids[o] = "RESERVED"
  BY <1>1 DEF Retire, IInv, TypeOK
<1>2. CASE ids[o] # "RESERVED"
  BY <1>2 DEF Retire, IInv, TypeOK
<1> QED BY <1>1, <1>2

LEMMA FinishRowFacts ==
  ASSUME IInv, NEW o \in Ops, NEW s \in Over, FinishRow(o, s)
  PROVE  \E t \in Over : row' = [row EXCEPT ![o] = t] /\ (row[o] \in Over => t = row[o])
<1>1. CASE row[o] \in Over
  BY <1>1, Same DEF FinishRow, IInv, TypeOK
<1>2. CASE row[o] \notin Over
  BY <1>2 DEF FinishRow
<1> QED BY <1>1, <1>2

LEMMA GoRouteFacts ==
  ASSUME IInv, NEW o \in Ops, NEW pc \in {"ids", "unwind", "unwound", "stop"},
         GoRoute(o, pc)
  PROVE  \E r \in Route : r.pc = pc /\ route' = [route EXCEPT ![o] = r]
<1> DEFINE r == [route[o] EXCEPT !.pc = pc]
<1>1. r \in Route /\ r.pc = pc
  BY DEF IInv, TypeOK, Route
<1>2. route' = [route EXCEPT ![o] = r]
  BY DEF GoRoute
<1> QED BY <1>1, <1>2

(* The request ends its operation, or leaves it to a cancel, and goes on   *)
(* to stop its client.                                                     *)
LEMMA RouteFails ==
  ASSUME IInv, NEW o \in Ops, UNCHANGED <<entry, req>>, route[o].pc \in Busy,
         NEW d \in Client, client' = [client EXCEPT ![o] = d],
         GoRoute(o, "stop"),
         \/ UNCHANGED row
         \/ \E s \in Over : FinishRow(o, s),
         Rest',
         d.task = client[o].task \/ (client[o].task = "done" /\ d.task = "none"),
         d.task \notin {"none", "done"} => d.cancel,
         client[o].cancel => d.cancel, d.lock \in {client[o].lock, "free"},
         d.alive => client[o].alive, d.held => client[o].held,
         d.alive /\ ~d.held => d.task = "spawn"
  PROVE  IInv'
<1>1. PICK r \in Route : r.pc = "stop" /\ route' = [route EXCEPT ![o] = r]
  BY GoRouteFacts
<1>2. row[o] = "pending"
  BY Facts DEF OpSound, Busy
<1>3. PICK s \in {"pending"} \cup Over : row' = [row EXCEPT ![o] = s]
  <2>1. CASE UNCHANGED row
    BY <1>2, <2>1, Same
  <2>2. CASE \E s \in Over : FinishRow(o, s)
    BY <2>2, FinishRowFacts
  <2> QED BY <2>1, <2>2
<1> QED BY <1>1, <1>3, RouteGoes DEF Busy

LEMMA BeginKeeps ==
  ASSUME IInv, NEW o \in Ops, Begin(o)
  PROVE  IInv'
<1> DEFINE d == [NewClient EXCEPT !.task = "admit"]
           e == [NoEntry EXCEPT !.in = TRUE]
           r == [pc |-> "propose", attempt |-> 1]
<1>1. /\ d \in Client /\ ~d.alive /\ ~d.held /\ d.task = "admit" /\ d.lock = "free"
      /\ e \in Entry /\ e.in /\ ~e.finished
      /\ r \in Route /\ r.pc = "propose"
  <2>1. NewClient \in Client /\ ~NewClient.alive /\ ~NewClient.held /\ NewClient.lock = "free"
    BY DEF NewClient, Client
  <2>2. d \in Client /\ ~d.alive /\ ~d.held /\ d.task = "admit" /\ d.lock = "free"
    BY <2>1 DEF Client
  <2>3. NoEntry \in Entry /\ ~NoEntry.finished
    BY DEF NoEntry, Entry
  <2>4. e \in Entry /\ e.in /\ ~e.finished
    BY <2>3 DEF Entry
  <2>5. r \in Route /\ r.pc = "propose"
    BY DEF Route
  <2> QED BY <2>2, <2>4, <2>5
<1>2. /\ client' = [client EXCEPT ![o] = d] /\ entry' = [entry EXCEPT ![o] = e]
      /\ route' = [route EXCEPT ![o] = r] /\ row' = [row EXCEPT ![o] = "pending"]
      /\ row[o] = "none"
  BY DEF Begin, CreateRow, Do
<1>3. /\ \A k \in Cancels : req[k].op = o => ReqSound(req[k], client[o], row[o])
      /\ req \in [Cancels -> Request] /\ Rest' /\ UNCHANGED req
  BY Facts DEF Begin, RouteOnly, Rest
<1> HIDE DEF d, e, r
<1>4. OpSound(d, e, r, "pending")
  BY <1>1 DEF OpSound
<1>5. ASSUME NEW k \in Cancels, req[k].op = o PROVE ReqSound(req[k], d, "pending")
  BY <1>2, <1>3, <1>5 DEF ReqSound, Over
<1>6. ASSUME NEW k \in Cancels PROVE LockSound(k, req[k], o, d)
  BY <1>1, PlanningAssumption DEF LockSound
<1>7. \A k \in Cancels : req'[k] = req[k] /\ req' \in [Cancels -> Request]
  BY <1>3
<1> QED BY <1>1, <1>2, <1>3, <1>4, <1>5, <1>6, <1>7, OpStep

LEMMA ProposeReturnsKeeps ==
  ASSUME IInv, NEW o \in Ops, ProposeReturns(o)
  PROVE  IInv'
<1> DEFINE c == client[o]
           d == [c EXCEPT !.task = "none"]
<1>1. /\ c \in Client /\ OpSound(c, entry[o], route[o], row[o])
      /\ route[o] \in Route /\ route[o].pc = "propose" /\ c.task = "done"
      /\ UNCHANGED <<entry, req, stray, faults>>
  BY Facts DEF ProposeReturns, RouteOnly
<1>2. /\ d \in Client /\ d.task = "none" /\ d.alive = c.alive /\ d.held = c.held
      /\ d.cancel = c.cancel /\ d.lock = c.lock
  BY <1>1 DEF Client
<1>3. row[o] = "pending" /\ c.lock # "route" /\ ~(c.alive /\ ~c.held)
  BY <1>1 DEF OpSound
<1>4. CASE /\ Do(o, [c EXCEPT !.task = "none"]) /\ GoRoute(o, "ids")
           /\ UNCHANGED <<row, ids, cancelling>>
  <2>1. PICK r \in Route : r.pc = "ids" /\ route' = [route EXCEPT ![o] = r]
    BY <1>4, GoRouteFacts
  <2>2. /\ client' = [client EXCEPT ![o] = d] /\ Rest'
        /\ row' = [row EXCEPT ![o] = "pending"]
    BY <1>1, <1>3, <1>4, Facts, Same DEF Do, Rest
  <2> HIDE DEF d
  <2> QED BY <1>1, <1>2, <1>3, <2>1, <2>2, RouteGoes DEF Busy
<1>5. CASE /\ Do(o, [c EXCEPT !.task = "admit"])
           /\ route' = [route EXCEPT ![o].attempt = 2]
           /\ UNCHANGED <<row, ids, cancelling>>
  <2> DEFINE r == [route[o] EXCEPT !.attempt = 2]
             a == [c EXCEPT !.task = "admit"]
  <2>1. /\ r \in Route /\ r.pc = "propose" /\ route' = [route EXCEPT ![o] = r]
        /\ a \in Client /\ a.task = "admit" /\ a.alive = c.alive /\ a.held = c.held
        /\ a.cancel = c.cancel /\ a.lock = c.lock
    BY <1>1, <1>5 DEF Route, Client
  <2>2. /\ client' = [client EXCEPT ![o] = a] /\ Rest'
        /\ row' = [row EXCEPT ![o] = "pending"]
    BY <1>1, <1>3, <1>5, Facts, Same DEF Do, Rest
  <2> HIDE DEF r, a
  <2> QED BY <1>1, <1>3, <2>1, <2>2, RouteGoes DEF Busy
<1>6. CASE Do(o, [c EXCEPT !.task = "none"]) /\ Fails(o)
  <2>1. /\ client' = [client EXCEPT ![o] = d] /\ Rest'
    BY <1>1, <1>6, Facts, RetireType DEF Do, Rest, Fails
  <2>2. GoRoute(o, "stop") /\ (UNCHANGED row \/ \E s \in Over : FinishRow(o, s))
    BY <1>6 DEF Fails, Over
  <2> HIDE DEF d
  <2> QED BY <1>1, <1>2, <1>3, <2>1, <2>2, RouteFails DEF Busy
<1> QED BY <1>4, <1>5, <1>6 DEF ProposeReturns

LEMMA ReserveIdsKeeps ==
  ASSUME IInv, NEW o \in Ops, ReserveIds(o)
  PROVE  IInv'
<1> DEFINE c == client[o]
<1>1. /\ c \in Client /\ OpSound(c, entry[o], route[o], row[o])
      /\ route[o].pc = "ids" /\ UNCHANGED <<entry, req, client>>
  BY Facts DEF ReserveIds, RouteOnly
<1>2. GoRoute(o, "stop") /\ (UNCHANGED row \/ \E s \in Over : FinishRow(o, s))
  BY DEF ReserveIds, Fails, Over
<1>3. Rest'
  <2>1. CASE \E s \in {"none", "RESERVED"} : ids' = [ids EXCEPT ![o] = s] /\ UNCHANGED cancelling
    BY <2>1, Facts DEF ReserveIds, RouteOnly, Rest
  <2>2. CASE Fails(o)
    BY <2>2, Facts, RetireType DEF ReserveIds, RouteOnly, Rest, Fails
  <2> QED BY <2>1, <2>2 DEF ReserveIds
<1>4. client' = [client EXCEPT ![o] = c]
  BY <1>1, Same
<1>5. c.task \notin {"none", "done"} => c.cancel
  BY <1>1 DEF OpSound
<1> QED BY <1>1, <1>2, <1>3, <1>4, <1>5, RouteFails DEF Busy, OpSound

LEMMA CutOffKeeps ==
  ASSUME IInv, NEW o \in Ops, CutOff(o)
  PROVE  IInv'
<1> DEFINE c == client[o]
<1>1. /\ c \in Client /\ OpSound(c, entry[o], route[o], row[o])
      /\ UNCHANGED <<entry, req, stray, cancelling>> /\ faults' \in 0..MaxFaults
  BY Facts, PlanningAssumption DEF CutOff, RouteOnly, Fault, Rest
<1>2. CASE /\ route[o].pc = "propose" /\ GoRoute(o, "unwind")
           /\ Do(o, [c EXCEPT !.cancel = TRUE]) /\ UNCHANGED <<row, ids>>
  <2> DEFINE d == [c EXCEPT !.cancel = TRUE]
  <2>1. /\ d \in Client /\ d.task = c.task /\ d.alive = c.alive /\ d.held = c.held
        /\ d.cancel /\ d.lock = c.lock
    BY <1>1 DEF Client
  <2>2. PICK r \in Route : r.pc = "unwind" /\ route' = [route EXCEPT ![o] = r]
    BY <1>2, GoRouteFacts
  <2>3. row[o] = "pending" /\ c.lock # "route" /\ (c.alive /\ ~c.held => c.task = "spawn")
    BY <1>1, <1>2 DEF OpSound
  <2>4. /\ client' = [client EXCEPT ![o] = d] /\ Rest'
        /\ row' = [row EXCEPT ![o] = "pending"]
    BY <1>1, <1>2, <2>3, Facts, Same DEF Do, Rest
  <2>5. route[o].pc = "propose"
    BY <1>2
  <2> HIDE DEF d
  <2> QED BY <1>1, <2>1, <2>2, <2>3, <2>4, <2>5, RouteGoes DEF Busy
<1>3. CASE /\ route[o].pc = "ids" /\ GoRoute(o, "stop")
           /\ Retire(o) /\ FinishRow(o, "cancelled") /\ UNCHANGED client
  <2>1. client' = [client EXCEPT ![o] = c] /\ Rest'
    BY <1>1, <1>3, Facts, Same, RetireType DEF Rest
  <2>2. c.task \notin {"none", "done"} => c.cancel
    BY <1>1, <1>3 DEF OpSound
  <2>3. \E s \in Over : FinishRow(o, s)
    BY <1>3 DEF Over
  <2> QED BY <1>1, <1>3, <2>1, <2>2, <2>3, RouteFails DEF Busy, OpSound
<1> QED BY <1>2, <1>3 DEF CutOff

LEMMA UnwindKeeps ==
  ASSUME IInv, NEW o \in Ops, Unwind(o)
  PROVE  IInv'
<1> DEFINE c == client[o]
<1>1. /\ c \in Client /\ OpSound(c, entry[o], route[o], row[o])
      /\ route[o].pc = "unwind" /\ UNCHANGED <<entry, req, stray, faults>>
  BY Facts DEF Unwind, RouteOnly
<1>2. /\ row[o] = "pending" /\ c.lock # "route" /\ (c.alive /\ ~c.held => c.task = "spawn")
      /\ c.task \notin {"none", "done"} => c.cancel
  BY <1>1 DEF OpSound
<1>3. CASE /\ c.task = "done" /\ GoRoute(o, "unwound")
           /\ UNCHANGED <<row, ids, cancelling, client>>
  <2>1. PICK r \in Route : r.pc = "unwound" /\ route' = [route EXCEPT ![o] = r]
    BY <1>3, GoRouteFacts
  <2>2. /\ client' = [client EXCEPT ![o] = c] /\ Rest'
        /\ row' = [row EXCEPT ![o] = "pending"]
    BY <1>1, <1>2, <1>3, Facts, Same DEF Rest
  <2> QED BY <1>1, <1>2, <1>3, <2>1, <2>2, RouteGoes DEF Busy
<1>4. CASE c.task = "done" /\ Do(o, [c EXCEPT !.task = "none"]) /\ Fails(o)
  <2> DEFINE d == [c EXCEPT !.task = "none"]
  <2>1. /\ d \in Client /\ d.task = "none" /\ d.alive = c.alive /\ d.held = c.held
        /\ d.cancel = c.cancel /\ d.lock = c.lock
    BY <1>1 DEF Client
  <2>2. client' = [client EXCEPT ![o] = d] /\ Rest'
    BY <1>1, <1>4, Facts, RetireType DEF Do, Rest, Fails
  <2>3. GoRoute(o, "stop") /\ (UNCHANGED row \/ \E s \in Over : FinishRow(o, s))
    BY <1>4 DEF Fails, Over
  <2> HIDE DEF d
  <2> QED BY <1>1, <1>2, <1>4, <2>1, <2>2, <2>3, RouteFails DEF Busy
<1>5. CASE /\ Do(o, [c EXCEPT !.unsure = TRUE]) /\ cancelling' = cancelling \cup {o}
           /\ Retire(o) /\ GoRoute(o, "stop") /\ UNCHANGED row
  <2> DEFINE d == [c EXCEPT !.unsure = TRUE]
  <2>1. /\ d \in Client /\ d.task = c.task /\ d.alive = c.alive /\ d.held = c.held
        /\ d.cancel = c.cancel /\ d.lock = c.lock
    BY <1>1 DEF Client
  <2>2. client' = [client EXCEPT ![o] = d] /\ Rest'
    BY <1>1, <1>5, Facts, RetireType DEF Do, Rest
  <2> HIDE DEF d
  <2> QED BY <1>1, <1>2, <1>5, <2>1, <2>2, RouteFails DEF Busy
<1> QED BY <1>3, <1>4, <1>5 DEF Unwind

LEMMA UnwoundKeeps ==
  ASSUME IInv, NEW o \in Ops, RouteStops(o) \/ Unwound(o)
  PROVE  IInv'
<1> DEFINE c == client[o]
<1>1. /\ c \in Client /\ OpSound(c, entry[o], route[o], row[o])
      /\ UNCHANGED <<entry, req, stray, faults>>
  BY Facts DEF RouteStops, Unwound, RouteOnly
<1>2. CASE RouteStops(o)
  <2>1. Rest' /\ UNCHANGED <<row, entry, route, req>>
    BY <1>2, Facts DEF RouteStops, RouteOnly, Rest
  <2> QED BY <1>2, <2>1, LockKeeps, PlanningAssumption DEF RouteStops
<1>3. CASE Unwound(o)
  <2>1. /\ route[o].pc = "unwound" /\ c.task = "done" /\ c.lock = "route"
        /\ c.alive => c.held
    BY <1>1, <1>3 DEF Unwound, OpSound
  <2>2. CASE /\ Do(o, [Stopped(c) EXCEPT !.task = "none"])
             /\ Retire(o) /\ FinishRow(o, "cancelled") /\ GoRoute(o, "stop")
             /\ UNCHANGED cancelling
    <3> DEFINE u == Stopped(c)
               d == [u EXCEPT !.task = "none"]
    <3>1. /\ u \in Client /\ ~u.alive /\ ~u.held /\ u.cancel = c.cancel /\ u.lock = "free"
      BY <1>1, <2>1, StoppedFacts
    <3>2. client' = [client EXCEPT ![o] = d]
      BY <2>2 DEF Do
    <3> HIDE DEF u
    <3>3. /\ d \in Client /\ ~d.alive /\ ~d.held /\ d.task = "none"
          /\ d.cancel = c.cancel /\ d.lock = "free"
      BY <3>1 DEF Client
    <3>4. Rest' /\ GoRoute(o, "stop") /\ \E s \in Over : FinishRow(o, s)
      BY <1>1, <2>2, Facts, RetireType DEF Rest, Over
    <3> HIDE DEF d
    <3> QED BY <1>1, <2>1, <3>2, <3>3, <3>4, RouteFails DEF Busy
  <2>3. CASE c.held /\ Do(o, [Unstopped(c) EXCEPT !.task = "none"]) /\ Fails(o)
    <3> DEFINE u == Unstopped(c)
               d == [u EXCEPT !.task = "none"]
    <3>1. /\ u \in Client /\ u.alive = c.alive /\ u.held = c.held
          /\ u.cancel = c.cancel /\ u.lock = "free"
      BY <1>1, StoppedFacts
    <3>2. client' = [client EXCEPT ![o] = d]
      BY <2>3 DEF Do
    <3> HIDE DEF u
    <3>3. /\ d \in Client /\ d.alive = c.alive /\ d.held = c.held /\ d.task = "none"
          /\ d.cancel = c.cancel /\ d.lock = "free"
      BY <3>1 DEF Client
    <3>4. Rest' /\ GoRoute(o, "stop") /\ (UNCHANGED row \/ \E s \in Over : FinishRow(o, s))
      BY <1>1, <2>3, Facts, RetireType DEF Rest, Over, Fails
    <3> HIDE DEF d
    <3> QED BY <1>1, <2>1, <2>3, <3>2, <3>3, <3>4, RouteFails DEF Busy
  <2> QED BY <1>3, <2>2, <2>3 DEF Unwound
<1> QED BY <1>2, <1>3

LEMMA FinishedFacts ==
  ASSUME IInv, NEW o \in Ops, NEW err \in BOOLEAN, Finished(o, err)
  PROVE  /\ route' = [route EXCEPT ![o] = NoRequest]
         /\ \E e \in Entry : /\ entry' = [entry EXCEPT ![o] = e]
                             /\ e.err = err /\ (err /\ entry[o].in => e.in)
<1> DEFINE in == entry[o].in /\ (err \/ o \in cancelling)
           e == [in |-> in, err |-> err, finished |-> TRUE]
<1>1. in \in BOOLEAN /\ (err /\ entry[o].in => in)
  OBVIOUS
<1>2. entry' = [entry EXCEPT ![o] = e] /\ route' = [route EXCEPT ![o] = NoRequest]
  BY DEF Finished
<1> HIDE DEF in
<1>3. e \in Entry /\ e.err = err /\ e.in = in
  BY <1>1 DEF Entry
<1> HIDE DEF e
<1> QED BY <1>1, <1>2, <1>3

(* The request is over: what it leaves alive, it leaves with an error.     *)
LEMMA RouteIsOff ==
  ASSUME IInv, NEW o \in Ops, Rest', UNCHANGED <<row, req>>, route[o].pc = "stop",
         NEW d \in Client, client' = [client EXCEPT ![o] = d],
         NEW err \in BOOLEAN, Finished(o, err), d.alive => err,
         d.task = client[o].task, d.cancel = client[o].cancel,
         d.lock \in {client[o].lock, "free"}, d.lock # "route",
         d.alive => client[o].alive, d.held => client[o].held,
         d.alive /\ ~d.held => d.task = "spawn"
  PROVE  IInv'
<1>1. /\ OpSound(client[o], entry[o], route[o], row[o])
      /\ \A k \in Cancels : req[k].op = o => ReqSound(req[k], client[o], row[o])
      /\ \A k \in Cancels : LockSound(k, req[k], o, client[o])
      /\ row[o] \in {"none", "pending"} \cup Over /\ req \in [Cancels -> Request]
  BY Facts
<1>2. PICK e \in Entry : /\ entry' = [entry EXCEPT ![o] = e]
                         /\ e.err = err /\ (err /\ entry[o].in => e.in)
  BY FinishedFacts
<1>3. /\ route' = [route EXCEPT ![o] = NoRequest] /\ NoRequest \in Route
      /\ NoRequest.pc = "off" /\ row' = [row EXCEPT ![o] = row[o]]
  BY FinishedFacts, Same DEF NoRequest, Route
<1>4. OpSound(d, e, NoRequest, row[o])
  BY <1>1, <1>2, <1>3 DEF OpSound
<1>5. ASSUME NEW k \in Cancels, req[k].op = o PROVE ReqSound(req[k], d, row[o])
  BY <1>1, <1>5 DEF ReqSound
<1>6. ASSUME NEW k \in Cancels PROVE LockSound(k, req[k], o, d)
  BY <1>1, PlanningAssumption DEF LockSound
<1>7. \A k \in Cancels : req'[k] = req[k] /\ req' \in [Cancels -> Request]
  BY <1>1
<1> HIDE DEF IInv
<1> QED BY <1>1, <1>2, <1>3, <1>4, <1>5, <1>6, <1>7, OpStep

LEMMA RouteEndsKeeps ==
  ASSUME IInv, NEW o \in Ops, RouteEnds(o)
  PROVE  IInv'
<1> DEFINE c == client[o]
<1>1. /\ c \in Client /\ OpSound(c, entry[o], route[o], row[o])
      /\ route[o].pc = "stop" /\ UNCHANGED <<row, req>> /\ Rest'
  <2>1. /\ UNCHANGED <<row, req, ids, cancelling, stray>> /\ route[o].pc = "stop"
        /\ UNCHANGED faults \/ Fault
    BY DEF RouteEnds, RouteOnly
  <2>2. c \in Client /\ OpSound(c, entry[o], route[o], row[o]) /\ Rest
    BY Facts
  <2>3. faults' \in 0..MaxFaults
    BY <2>1, <2>2, PlanningAssumption DEF Fault, Rest
  <2> QED BY <2>1, <2>2, <2>3 DEF Rest
<1>2. CASE NotYet(o, "route") /\ Finished(o, TRUE)
  <2> DEFINE d == [c EXCEPT !.unsure = TRUE]
  <2>1. /\ d \in Client /\ d.task = c.task /\ d.alive = c.alive /\ d.held = c.held
        /\ d.cancel = c.cancel /\ d.lock = c.lock
    BY <1>1 DEF Client
  <2>2. c.lock = "free" /\ client' = [client EXCEPT ![o] = d]
    BY <1>2 DEF NotYet, Do
  <2>3. d.alive /\ ~d.held => d.task = "spawn"
    BY <1>1, <2>1 DEF OpSound
  <2>4. Finished(o, TRUE)
    BY <1>2
  <2> HIDE DEF d
  <2> QED BY <1>1, <2>1, <2>2, <2>3, <2>4, RouteIsOff
<1>3. CASE c.lock = "route" /\ Do(o, Stopped(c)) /\ Finished(o, c.cancel /\ Running(o))
  <2> DEFINE d == Stopped(c)
             err == c.cancel /\ Running(o)
  <2>1. ~(c.alive /\ ~c.held)
    BY <1>1, <1>3 DEF OpSound
  <2>2. /\ d \in Client /\ ~d.alive /\ ~d.held /\ d.task = c.task
        /\ d.cancel = c.cancel /\ d.lock = "free"
    BY <1>1, <2>1, StoppedFacts
  <2>3. client' = [client EXCEPT ![o] = d] /\ err \in BOOLEAN /\ Finished(o, err)
    BY <1>1, <1>3 DEF Do, Client
  <2> HIDE DEF d, err
  <2> QED BY <1>1, <2>2, <2>3, RouteIsOff
<1>4. CASE c.lock = "route" /\ c.held /\ Do(o, Unstopped(c)) /\ Finished(o, TRUE)
  <2> DEFINE d == Unstopped(c)
  <2>1. /\ d \in Client /\ d.alive = c.alive /\ d.held /\ d.task = c.task
        /\ d.cancel = c.cancel /\ d.lock = "free"
    BY <1>1, <1>4, StoppedFacts
  <2>2. client' = [client EXCEPT ![o] = d] /\ c.held /\ Finished(o, TRUE)
    BY <1>4 DEF Do
  <2> HIDE DEF d
  <2> QED BY <1>1, <2>1, <2>2, RouteIsOff
<1>5. CASE /\ Finished(o, TRUE)
           /\ Do(o, [c EXCEPT !.lock = IF @ = "route" THEN "free" ELSE @])
  <2> DEFINE l == IF c.lock = "route" THEN "free" ELSE c.lock
             d == [c EXCEPT !.lock = l]
  <2>1. l \in {c.lock, "free"} /\ l # "route" /\ l \in Cancels \cup {"free", "task", "route", "reader"}
    BY <1>1 DEF Client
  <2>2. client' = [client EXCEPT ![o] = d] /\ Finished(o, TRUE)
    BY <1>5 DEF Do
  <2> HIDE DEF l
  <2>3. /\ d \in Client /\ d.task = c.task /\ d.alive = c.alive /\ d.held = c.held
        /\ d.cancel = c.cancel /\ d.lock = l
    BY <1>1, <2>1 DEF Client
  <2>4. d.alive /\ ~d.held => d.task = "spawn"
    BY <1>1, <2>3 DEF OpSound
  <2> HIDE DEF d
  <2> QED BY <1>1, <2>1, <2>2, <2>3, <2>4, RouteIsOff
<1> QED BY <1>2, <1>3, <1>4, <1>5 DEF RouteEnds

-----------------------------------------------------------------------------
(* The steps of a request that cancels.                                    *)

(* A step of one cancel about one operation.                               *)
LEMMA CancelStep ==
  ASSUME IInv, NEW k \in Cancels, NEW o \in Ops, Rest', UNCHANGED route,
         NEW d \in Client, client' = [client EXCEPT ![o] = d],
         NEW e \in Entry, entry' = [entry EXCEPT ![o] = e],
         NEW s \in {"pending"} \cup Over, row' = [row EXCEPT ![o] = s],
         row[o] \in Over => s \in Over,
         NEW q \in Request, req' = [req EXCEPT ![k] = q], q.op = o,
         req[k].op = o \/ req[k].pc = "off",
         OpSound(d, e, route[o], s), ReqSound(q, d, s), LockSound(k, q, o, d),
         d.task = client[o].task, client[o].cancel => d.cancel,
         d.alive => client[o].alive, d.lock \in {client[o].lock, "free", k}
  PROVE  IInv'
<1>1. /\ \A j \in Cancels : req[j].op = o => ReqSound(req[j], client[o], row[o])
      /\ \A j \in Cancels : LockSound(j, req[j], o, client[o])
      /\ req \in [Cancels -> Request] /\ route[o] \in Route
  BY Facts
<1>2. /\ req' \in [Cancels -> Request] /\ req'[k] = q
      /\ \A j \in Cancels \ {k} : req'[j] = req[j]
  BY <1>1
<1>3. ASSUME NEW j \in Cancels, req'[j].op = o PROVE ReqSound(req'[j], d, s)
  <2>1. CASE j = k
    BY <1>2, <2>1
  <2>2. CASE j # k
    BY <1>1, <1>2, <1>3, <2>2 DEF ReqSound, Over
  <2> QED BY <2>1, <2>2
<1>4. ASSUME NEW j \in Cancels PROVE LockSound(j, req'[j], o, d)
  <2>1. CASE j = k
    BY <1>2, <2>1
  <2>2. CASE j # k
    BY <1>1, <1>2, <2>2, PlanningAssumption DEF LockSound
  <2> QED BY <2>1, <2>2
<1>5. ASSUME NEW j \in Cancels
      PROVE  req'[j] = req[j] \/ \A p \in Ops \ {o} : client[p].lock # j
  <2>1. CASE j = k
    BY <2>1 DEF IInv, LockSound
  <2>2. CASE j # k
    BY <1>2, <2>2
  <2> QED BY <2>1, <2>2
<1>6. \A j \in Cancels : req'[j].op # o => req'[j] = req[j]
  BY <1>2
<1>7. route' = [route EXCEPT ![o] = route[o]]
  BY Same
<1> HIDE DEF IInv
<1> QED BY <1>1, <1>2, <1>3, <1>4, <1>5, <1>6, <1>7, OpStep

(* What a cancel knows of its operation.                                   *)
LEMMA CancelFacts ==
  ASSUME IInv, NEW k \in Cancels
  PROVE  /\ req[k] \in Request /\ req[k].op \in Ops
         /\ ReqSound(req[k], client[req[k].op], row[req[k].op])
BY DEF IInv, TypeOK, Request

LEMMA GoCancelFacts ==
  ASSUME IInv, NEW k \in Cancels, NEW pc \in {"off", "finish"}, GoCancel(k, pc)
  PROVE  \E q \in Request : /\ req' = [req EXCEPT ![k] = q]
                            /\ q.pc = pc /\ q.op = req[k].op
<1> DEFINE q == [req[k] EXCEPT !.pc = pc]
<1>1. q \in Request /\ q.pc = pc /\ q.op = req[k].op
  BY DEF IInv, TypeOK, Request
<1>2. req' = [req EXCEPT ![k] = q]
  BY DEF GoCancel
<1> HIDE DEF q
<1> QED BY <1>1, <1>2

(* The cancel is answered with planning_cleanup_failed.                    *)
LEMMA CancelFailsKeeps ==
  ASSUME IInv, NEW k \in Cancels, NEW o \in Ops, o = req[k].op, req[k].pc # "off",
         CancelFails(k), CancelOnly, NEW d \in Client, client' = [client EXCEPT ![o] = d],
         d.task = client[o].task, d.cancel = client[o].cancel, d.alive = client[o].alive,
         d.held = client[o].held, d.lock \in {client[o].lock, "free"}, d.lock # k
  PROVE  IInv'
<1>1. /\ OpSound(client[o], entry[o], route[o], row[o]) /\ entry[o] \in Entry
      /\ row[o] \in {"none", "pending"} \cup Over /\ ReqSound(req[k], client[o], row[o])
      /\ LockSound(k, req[k], o, client[o])
  BY Facts, CancelFacts
<1>2. Rest' /\ UNCHANGED route /\ row' = [row EXCEPT ![o] = row[o]]
  BY Facts, Same DEF CancelFails, CancelOnly, Rest
<1> DEFINE e == [entry[o] EXCEPT !.err = TRUE]
<1>3. /\ e \in Entry /\ e.err /\ e.in = entry[o].in /\ e.finished = entry[o].finished
      /\ entry' = [entry EXCEPT ![o] = e]
  BY <1>1 DEF Entry, CancelFails
<1>4. PICK q \in Request : req' = [req EXCEPT ![k] = q] /\ q.pc = "off" /\ q.op = o
  BY GoCancelFacts DEF CancelFails
<1>5. row[o] \in {"pending"} \cup Over
  BY <1>1 DEF ReqSound
<1> HIDE DEF e
<1>6. OpSound(d, e, route[o], row[o])
  BY <1>1, <1>3 DEF OpSound
<1>7. ReqSound(q, d, row[o]) /\ LockSound(k, q, o, d)
  BY <1>4 DEF ReqSound, LockSound
<1> QED BY <1>2, <1>3, <1>4, <1>5, <1>6, <1>7, CancelStep

(* The entry goes: its agent is dead and its request is about to end.      *)
LEMMA CancelSucceedsKeeps ==
  ASSUME IInv, NEW k \in Cancels, NEW o \in Ops, o = req[k].op, req[k].pc # "off",
         CancelSucceeds(k), CancelOnly, NEW d \in Client, client' = [client EXCEPT ![o] = d],
         route[o].pc \notin Busy,
         d.task = client[o].task, d.cancel = client[o].cancel, ~d.alive,
         d.held => client[o].held, d.lock \in {client[o].lock, "free"}, d.lock # k
  PROVE  IInv'
<1>1. /\ OpSound(client[o], entry[o], route[o], row[o]) /\ entry[o] \in Entry
      /\ row[o] \in {"none", "pending"} \cup Over /\ ReqSound(req[k], client[o], row[o])
  BY Facts, CancelFacts
<1>2. row[o] \in {"pending"} \cup Over
  BY <1>1 DEF ReqSound
<1>3. \/ UNCHANGED <<row, ids>>
      \/ FinishRow(o, "cancelled") /\ Retire(o)
  BY DEF CancelSucceeds
<1>4. Rest' /\ UNCHANGED route
  BY <1>3, Facts, RetireType DEF CancelSucceeds, CancelOnly, Rest
<1>5. PICK s \in {"pending"} \cup Over :
        row' = [row EXCEPT ![o] = s] /\ (row[o] \in Over => s \in Over)
  <2>1. CASE UNCHANGED <<row, ids>>
    BY <1>2, <2>1, Same
  <2>2. CASE FinishRow(o, "cancelled")
    BY <2>2, FinishRowFacts DEF Over
  <2> QED BY <1>3, <2>1, <2>2
<1> DEFINE e == [entry[o] EXCEPT !.in = FALSE, !.err = FALSE]
<1>6. /\ e \in Entry /\ e.finished = entry[o].finished
      /\ entry' = [entry EXCEPT ![o] = e]
  <2>1. entry' = [entry EXCEPT ![o].in = FALSE, ![o].err = FALSE]
    BY DEF CancelSucceeds
  <2>2. entry' = [entry EXCEPT ![o] = e]
    BY <2>1 DEF IInv, TypeOK
  <2> QED BY <1>1, <2>2 DEF Entry
<1>7. PICK q \in Request : req' = [req EXCEPT ![k] = q] /\ q.pc = "off" /\ q.op = o
  BY GoCancelFacts DEF CancelSucceeds
<1> HIDE DEF e
<1>8. OpSound(d, e, route[o], s)
  BY <1>1, <1>6 DEF OpSound, Busy
<1>9. ReqSound(q, d, s) /\ LockSound(k, q, o, d)
  BY <1>7 DEF ReqSound, LockSound
<1> QED BY <1>4, <1>5, <1>6, <1>7, <1>8, <1>9, CancelStep

LEMMA CancelBeginKeeps ==
  ASSUME IInv, NEW k \in Cancels, NEW o \in Ops, CancelBegin(k, o)
  PROVE  IInv'
<1> DEFINE c == client[o]
<1>1. /\ c \in Client /\ OpSound(c, entry[o], route[o], row[o]) /\ entry[o] \in Entry
      /\ row[o] \in {"pending"} \cup Over /\ req[k].pc = "off"
      /\ UNCHANGED <<entry, route, stray, faults>>
      /\ entry' = [entry EXCEPT ![o] = entry[o]] /\ req \in [Cancels -> Request]
  BY Facts, Same DEF CancelBegin, CancelOnly
<1>2. CASE /\ ~entry[o].in /\ Retire(o) /\ FinishRow(o, "cancelled")
           /\ UNCHANGED <<cancelling, client, req>>
  <2>1. PICK s \in Over : row' = [row EXCEPT ![o] = s]
    BY <1>2, FinishRowFacts DEF Over
  <2>2. Rest' /\ client' = [client EXCEPT ![o] = c] /\ route' = [route EXCEPT ![o] = route[o]]
    BY <1>1, <1>2, Facts, RetireType, Same DEF Rest
  <2>3. OpSound(c, entry[o], route[o], s)
    BY <1>1, <1>2 DEF OpSound
  <2>4. ASSUME NEW j \in Cancels, req[j].op = o PROVE ReqSound(req[j], c, s)
    BY <2>1, <2>4, Facts DEF ReqSound, Over
  <2>5. \A j \in Cancels : LockSound(j, req[j], o, c)
    BY Facts
  <2>6. req' \in [Cancels -> Request] /\ \A j \in Cancels : req'[j] = req[j]
    BY <1>1, <1>2
  <2>7. route[o] \in Route
    BY Facts
  <2>8. \A j \in Cancels : req'[j].op = o => ReqSound(req'[j], c, s)
    BY <2>4, <2>6
  <2>9. \A j \in Cancels : LockSound(j, req'[j], o, c)
    BY <2>5, <2>6
  <2>10. c \in Client /\ entry[o] \in Entry /\ entry' = [entry EXCEPT ![o] = entry[o]]
    BY <1>1
  <2>11. s \in {"none", "pending"} \cup Over
    OBVIOUS
  <2> HIDE DEF IInv, c
  <2> QED BY <2>1, <2>2, <2>3, <2>6, <2>7, <2>8, <2>9, <2>10, <2>11, OpStep
<1>3. CASE /\ row[o] \in Over /\ ~Running(o) /\ UNCHANGED <<row, ids, cancelling, client>>
           /\ req' = [req EXCEPT ![k] = [pc |-> "halt", op |-> o, over |-> TRUE, again |-> FALSE]]
  <2> DEFINE q == [pc |-> "halt", op |-> o, over |-> TRUE, again |-> FALSE]
  <2>1. q \in Request /\ q.pc = "halt" /\ q.op = o
    BY DEF Request
  <2>2. /\ Rest' /\ client' = [client EXCEPT ![o] = c] /\ row' = [row EXCEPT ![o] = row[o]]
    BY <1>1, <1>3, Facts, Same DEF Rest
  <2>3. c.task \in {"none", "done"} /\ row[o] \in Over
    BY <1>3 DEF Running
  <2>4. req' = [req EXCEPT ![k] = q]
    BY <1>3
  <2> HIDE DEF q
  <2>5. ReqSound(q, c, row[o]) /\ LockSound(k, q, o, c)
    BY <2>1, <2>3 DEF ReqSound, LockSound, Over
  <2> QED BY <1>1, <2>1, <2>2, <2>3, <2>4, <2>5, CancelStep
<1>4. CASE /\ UNCHANGED <<row, ids>> /\ cancelling' \in {cancelling, cancelling \cup {o}}
           /\ Do(o, [c EXCEPT !.cancel = TRUE])
           /\ req' = [req EXCEPT ![k] =
                [pc |-> IF c.task = "none" THEN "stop" ELSE "wait", op |-> o,
                 over |-> row[o] \in Over, again |-> entry[o].finished]]
  <2> DEFINE x == IF c.task = "none" THEN "stop" ELSE "wait"
             v == row[o] \in Over
             q == [pc |-> x, op |-> o, over |-> v, again |-> entry[o].finished]
             d == [c EXCEPT !.cancel = TRUE]
  <2>1. x \in {"stop", "wait"} /\ v \in BOOLEAN /\ entry[o].finished \in BOOLEAN
    BY <1>1 DEF Entry
  <2>2. /\ Rest' /\ client' = [client EXCEPT ![o] = d] /\ row' = [row EXCEPT ![o] = row[o]]
        /\ req' = [req EXCEPT ![k] = q]
    BY <1>1, <1>4, Facts, Same DEF Rest, Do
  <2> HIDE DEF x, v
  <2>3. q \in Request /\ q.pc = x /\ q.op = o
    BY <2>1 DEF Request
  <2>4. /\ d \in Client /\ d.cancel /\ d.task = c.task /\ d.alive = c.alive
        /\ d.held = c.held /\ d.lock = c.lock
    BY <1>1 DEF Client
  <2> HIDE DEF d, q
  <2>5. OpSound(d, entry[o], route[o], row[o])
    BY <1>1, <2>4 DEF OpSound
  <2>6. c.lock # k
    BY <1>1, Facts DEF LockSound
  <2>7. ReqSound(q, d, row[o]) /\ LockSound(k, q, o, d)
    BY <1>1, <2>1, <2>3, <2>4, <2>6 DEF ReqSound, LockSound, Over
  <2> QED BY <1>1, <2>2, <2>3, <2>4, <2>5, <2>7, CancelStep
<1>5. cancelling' \in {cancelling, cancelling \cup {o}}
  BY DEF CancelBegin
<1> QED BY <1>2, <1>3, <1>4, <1>5 DEF CancelBegin

LEMMA CancelWaitsKeeps ==
  ASSUME IInv, NEW k \in Cancels, CancelWaits(k)
  PROVE  IInv'
<1> DEFINE o == req[k].op
           c == client[o]
<1>1. /\ o \in Ops /\ c \in Client /\ OpSound(c, entry[o], route[o], row[o])
      /\ ReqSound(req[k], c, row[o]) /\ LockSound(k, req[k], o, c)
      /\ req[k].pc = "wait" /\ c.lock # k /\ CancelOnly /\ entry[o] \in Entry
      /\ row[o] \in {"none", "pending"} \cup Over
  BY Facts, CancelFacts DEF CancelWaits, LockSound
<1>2. CASE GoCancel(k, "stop") /\ UNCHANGED <<row, ids, entry, cancelling, client>>
  <2> DEFINE q == [req[k] EXCEPT !.pc = "stop"]
  <2>1. q \in Request /\ q.pc = "stop" /\ q.op = o /\ req' = [req EXCEPT ![k] = q]
    BY <1>2, CancelFacts DEF Request, GoCancel
  <2>2. /\ Rest' /\ client' = [client EXCEPT ![o] = c] /\ row' = [row EXCEPT ![o] = row[o]]
        /\ entry' = [entry EXCEPT ![o] = entry[o]] /\ UNCHANGED route
    BY <1>1, <1>2, Facts, Same DEF Rest, CancelOnly
  <2>3. row[o] \in {"pending"} \cup Over
    BY <1>1 DEF ReqSound
  <2> HIDE DEF q
  <2>4. ReqSound(q, c, row[o]) /\ LockSound(k, q, o, c)
    BY <1>1, <2>1 DEF ReqSound, LockSound
  <2> HIDE DEF o
  <2>5. req[k].op = o
    BY DEF o
  <2> QED BY <1>1, <2>1, <2>2, <2>3, <2>4, <2>5, CancelStep
<1>3. CASE CancelFails(k) /\ UNCHANGED client
  <2>1. client' = [client EXCEPT ![o] = c]
    BY <1>1, <1>3, Same
  <2> QED BY <1>1, <1>3, <2>1, CancelFailsKeeps
<1>4. CASE Do(o, [c EXCEPT !.unsure = TRUE]) /\ CancelFails(k)
  <2> DEFINE d == [c EXCEPT !.unsure = TRUE]
  <2>1. client' = [client EXCEPT ![o] = d]
    BY <1>4 DEF Do
  <2>2. /\ d \in Client /\ d.cancel = c.cancel /\ d.task = c.task /\ d.alive = c.alive
        /\ d.held = c.held /\ d.lock = c.lock
    BY <1>1 DEF Client
  <2> HIDE DEF d
  <2> QED BY <1>1, <1>4, <2>1, <2>2, CancelFailsKeeps
<1> QED BY <1>2, <1>3, <1>4 DEF CancelWaits

LEMMA CancelStopsKeeps ==
  ASSUME IInv, NEW k \in Cancels, CancelStops(k)
  PROVE  IInv'
<1> DEFINE o == req[k].op
           c == client[o]
<1>1. /\ o \in Ops /\ c \in Client /\ req[k].pc \in {"halt", "stop"} /\ CancelOnly
  BY Facts, CancelFacts DEF CancelStops
<1>2. CASE Lock(o, k) /\ UNCHANGED <<row, ids, entry, cancelling, req>>
  <2>1. Rest' /\ UNCHANGED <<row, entry, route, req>>
    BY <1>1, <1>2, Facts DEF Rest, CancelOnly
  <2> QED BY <1>1, <1>2, <2>1, LockKeeps, PlanningAssumption
<1>3. CASE NotYet(o, k) /\ CancelFails(k)
  <2> DEFINE d == [c EXCEPT !.unsure = TRUE]
  <2>1. client' = [client EXCEPT ![o] = d] /\ c.lock # k
    BY <1>3, PlanningAssumption DEF NotYet, Do
  <2>2. /\ d \in Client /\ d.cancel = c.cancel /\ d.task = c.task /\ d.alive = c.alive
        /\ d.held = c.held /\ d.lock = c.lock
    BY <1>1 DEF Client
  <2> HIDE DEF d
  <2> QED BY <1>1, <1>3, <2>1, <2>2, CancelFailsKeeps
<1> QED BY <1>2, <1>3 DEF CancelStops

LEMMA CancelStoppedKeeps ==
  ASSUME IInv, NEW k \in Cancels, CancelStopped(k)
  PROVE  IInv'
<1> DEFINE o == req[k].op
           c == client[o]
           err == entry[o].err /\ ~req[k].again
<1>1. /\ o \in Ops /\ c \in Client /\ OpSound(c, entry[o], route[o], row[o])
      /\ ReqSound(req[k], c, row[o]) /\ LockSound(k, req[k], o, c)
      /\ entry[o] \in Entry /\ CancelOnly /\ c.lock = k
      /\ row[o] \in {"none", "pending"} \cup Over
  BY Facts, CancelFacts DEF CancelStopped
<1>2. /\ req[k].pc \in {"halt", "stop"} /\ c.task # "spawn" /\ ~(c.alive /\ ~c.held)
      /\ k # "free" /\ row[o] \in {"pending"} \cup Over
  BY <1>1, PlanningAssumption DEF LockSound, OpSound, ReqSound
<1>3. CASE Do(o, Unstopped(c)) /\ CancelFails(k)
  <2> DEFINE d == Unstopped(c)
  <2>1. client' = [client EXCEPT ![o] = d]
    BY <1>3 DEF Do
  <2>2. /\ d \in Client /\ d.cancel = c.cancel /\ d.task = c.task /\ d.alive = c.alive
        /\ d.held = c.held /\ d.lock = "free"
    BY <1>1, StoppedFacts
  <2> HIDE DEF d
  <2> QED BY <1>1, <1>2, <1>3, <2>1, <2>2, CancelFailsKeeps
<1>4. ASSUME Do(o, Stopped(c))
      PROVE  \E d \in Client : /\ client' = [client EXCEPT ![o] = d]
                               /\ d.cancel = c.cancel /\ d.task = c.task /\ ~d.alive
                               /\ c.alive = d.alive \/ c.alive
                               /\ ~d.held /\ d.lock = "free"
  <2> DEFINE d == Stopped(c)
  <2>1. /\ d \in Client /\ d.cancel = c.cancel /\ d.task = c.task /\ ~d.alive /\ ~d.held
        /\ d.lock = "free"
    BY <1>1, <1>2, StoppedFacts
  <2>2. client' = [client EXCEPT ![o] = d]
    BY <1>4 DEF Do
  <2>3. c.alive = d.alive \/ c.alive
    BY <1>1, <2>1 DEF Client
  <2> HIDE DEF d
  <2> QED BY <2>1, <2>2, <2>3
<1>5. CASE Do(o, Stopped(c)) /\ req[k].pc = "halt" /\ CancelSucceeds(k)
  <2>1. route[o].pc \notin Busy
    BY <1>1, <1>5 DEF ReqSound, OpSound, Busy, Over
  <2> QED BY <1>1, <1>2, <1>4, <1>5, <2>1, CancelSucceedsKeeps
<1>6. CASE Do(o, Stopped(c)) /\ entry[o].finished /\ CancelSucceeds(k)
  <2>1. route[o].pc \notin Busy
    BY <1>1, <1>6 DEF OpSound, Busy
  <2> QED BY <1>1, <1>2, <1>4, <1>6, <2>1, CancelSucceedsKeeps
<1>7. CASE /\ Do(o, Stopped(c)) /\ entry[o].finished /\ CancelFails(k)
  <2>1. PICK d \in Client : /\ client' = [client EXCEPT ![o] = d]
                            /\ d.cancel = c.cancel /\ d.task = c.task /\ ~d.alive
                            /\ ~d.held /\ d.lock = "free"
    BY <1>4, <1>7
  <2> DEFINE e == [entry[o] EXCEPT !.err = TRUE]
  <2>2. e \in Entry /\ e.finished = entry[o].finished /\ entry' = [entry EXCEPT ![o] = e]
    BY <1>1, <1>7 DEF Entry, CancelFails
  <2>3. PICK q \in Request : req' = [req EXCEPT ![k] = q] /\ q.pc = "off" /\ q.op = o
    BY <1>7, GoCancelFacts DEF CancelFails
  <2>4. Rest' /\ UNCHANGED route /\ row' = [row EXCEPT ![o] = row[o]]
    BY <1>1, <1>7, Facts, Same DEF CancelFails, CancelOnly, Rest
  <2> HIDE DEF e
  <2>5. OpSound(d, e, route[o], row[o])
    BY <1>1, <1>7, <2>1, <2>2 DEF OpSound
  <2>6. ReqSound(q, d, row[o]) /\ LockSound(k, q, o, d)
    BY <1>2, <2>1, <2>3 DEF ReqSound, LockSound
  <2> HIDE DEF o
  <2>7. req[k].op = o
    BY DEF o
  <2> QED BY <1>1, <1>2, <2>1, <2>2, <2>3, <2>4, <2>5, <2>6, <2>7, CancelStep
<1>8. CASE /\ Do(o, Stopped(c)) /\ req[k].pc = "stop" /\ ~entry[o].finished
           /\ entry' = [entry EXCEPT ![o].err = err]
           /\ GoCancel(k, "finish") /\ UNCHANGED <<row, ids, cancelling>>
  <2>1. PICK d \in Client : /\ client' = [client EXCEPT ![o] = d]
                            /\ d.cancel = c.cancel /\ d.task = c.task /\ ~d.alive
                            /\ ~d.held /\ d.lock = "free"
    BY <1>4, <1>8
  <2>2. err \in BOOLEAN
    OBVIOUS
  <2>3. PICK q \in Request : req' = [req EXCEPT ![k] = q] /\ q.pc = "finish" /\ q.op = o
    BY <1>8, GoCancelFacts
  <2>4. Rest' /\ UNCHANGED route /\ row' = [row EXCEPT ![o] = row[o]]
    BY <1>1, <1>8, Facts, Same DEF CancelOnly, Rest
  <2> HIDE DEF err
  <2> DEFINE e == [entry[o] EXCEPT !.err = err]
  <2>5. /\ e \in Entry /\ e.finished = entry[o].finished /\ e.in = entry[o].in
        /\ entry' = [entry EXCEPT ![o] = e]
    BY <1>1, <1>8, <2>2 DEF Entry
  <2> HIDE DEF e
  <2>6. OpSound(d, e, route[o], row[o])
    BY <1>1, <2>1, <2>5 DEF OpSound
  <2>7. ReqSound(q, d, row[o]) /\ LockSound(k, q, o, d)
    BY <1>1, <1>2, <1>8, <2>1, <2>3 DEF ReqSound, LockSound, Over
  <2> HIDE DEF o
  <2>8. req[k].op = o
    BY DEF o
  <2> QED BY <1>1, <1>2, <2>1, <2>3, <2>4, <2>5, <2>6, <2>7, <2>8, CancelStep
<1> QED BY <1>3, <1>5, <1>6, <1>7, <1>8 DEF CancelStopped

LEMMA CancelEndsKeeps ==
  ASSUME IInv, NEW k \in Cancels, CancelEnds(k)
  PROVE  IInv'
<1> DEFINE o == req[k].op
           c == client[o]
<1>1. /\ o \in Ops /\ c \in Client /\ OpSound(c, entry[o], route[o], row[o])
      /\ ReqSound(req[k], c, row[o]) /\ LockSound(k, req[k], o, c)
      /\ req[k].pc = "finish" /\ CancelOnly /\ client' = [client EXCEPT ![o] = c]
  BY Facts, CancelFacts, Same DEF CancelEnds
<1>2. c.lock # k /\ ~c.alive
  BY <1>1 DEF LockSound, ReqSound
<1>3. CASE entry[o].finished /\ CancelSucceeds(k)
  <2>1. route[o].pc \notin Busy
    BY <1>1, <1>3 DEF OpSound, Busy
  <2> QED BY <1>1, <1>2, <1>3, <2>1, CancelSucceedsKeeps
<1>4. CASE CancelFails(k)
  <2>1. /\ o = req[k].op /\ req[k].pc # "off" /\ o \in Ops /\ c \in Client
        /\ client' = [client EXCEPT ![o] = c] /\ CancelOnly /\ c.lock # k
    BY <1>1, <1>2
  <2>2. /\ c.task = client[o].task /\ c.cancel = client[o].cancel /\ c.alive = client[o].alive
        /\ c.held = client[o].held /\ c.lock \in {client[o].lock, "free"}
    OBVIOUS
  <2> HIDE DEF o, c
  <2> QED BY <1>4, <2>1, <2>2, CancelFailsKeeps
<1> QED BY <1>3, <1>4 DEF CancelEnds

-----------------------------------------------------------------------------
(* The whole system.                                                       *)

LEMMA FreshFacts ==
  /\ NewClient \in Client /\ ~NewClient.alive /\ ~NewClient.held
  /\ NewClient.task = "none" /\ NewClient.lock = "free"
  /\ NoEntry \in Entry
  /\ NoRequest \in Route /\ NoRequest.pc = "off"
  /\ \A o \in Ops : NoCancel(o) \in Request /\ NoCancel(o).pc = "off" /\ NoCancel(o).op = o
<1>1. /\ NewClient \in Client /\ ~NewClient.alive /\ ~NewClient.held
      /\ NewClient.task = "none" /\ NewClient.lock = "free"
  BY DEF NewClient, Client
<1>2. NoEntry \in Entry
  BY DEF NoEntry, Entry
<1>3. NoRequest \in Route /\ NoRequest.pc = "off"
  BY DEF NoRequest, Route
<1>4. \A o \in Ops : NoCancel(o) \in Request /\ NoCancel(o).pc = "off" /\ NoCancel(o).op = o
  BY DEF NoCancel, Request
<1> QED BY <1>1, <1>2, <1>3, <1>4

(* A host that starts, the first time or again.                            *)
LEMMA FreshSound ==
  ASSUME NEW o \in Ops, NEW s
  PROVE  /\ OpSound(NewClient, NoEntry, NoRequest, s)
         /\ \A p \in Ops : \A t : ReqSound(NoCancel(p), NewClient, t)
         /\ \A k \in Cancels, p \in Ops : LockSound(k, NoCancel(p), o, NewClient)
<1>1. OpSound(NewClient, NoEntry, NoRequest, s)
  BY FreshFacts DEF OpSound
<1>2. \A p \in Ops : \A t : ReqSound(NoCancel(p), NewClient, t)
  BY FreshFacts DEF ReqSound
<1>3. \A k \in Cancels, p \in Ops : LockSound(k, NoCancel(p), o, NewClient)
  BY FreshFacts, PlanningAssumption DEF LockSound
<1> QED BY <1>1, <1>2, <1>3

LEMMA InitSound == Init => IInv
<1> SUFFICES ASSUME Init PROVE IInv OBVIOUS
<1>1. PICK p \in Ops : req = [k \in Cancels |-> NoCancel(p)]
  BY DEF Init
<1>2. TypeOK
  BY <1>1, FreshFacts, PlanningAssumption DEF Init, TypeOK
<1> QED BY <1>1, <1>2, FreshFacts, FreshSound DEF Init, IInv

LEMMA RestartKeeps ==
  ASSUME IInv, Restart
  PROVE  IInv'
<1>1. PICK p \in Ops : req' = [k \in Cancels |-> NoCancel(p)]
  BY DEF Restart
<1>2. PICK R \in SUBSET Ops : ids' = [o \in Ops |-> IF o \in R THEN "RESERVED" ELSE ids[o]]
  BY DEF Restart
<1>3. ids' \in [Ops -> {"none", "RESERVED", "RETIRED"}] /\ faults' \in 0..MaxFaults
  BY <1>2, PlanningAssumption DEF IInv, TypeOK, Restart, Fault
<1>4. TypeOK'
  BY <1>1, <1>3, FreshFacts DEF Restart, IInv, TypeOK
<1> QED BY <1>1, <1>4, FreshFacts, FreshSound DEF Restart, IInv

LEMMA NextKeeps == IInv /\ [Next]_vars => IInv'
<1> SUFFICES ASSUME IInv, [Next]_vars PROVE IInv' OBVIOUS
<1>1. CASE UNCHANGED vars
  BY <1>1 DEF IInv, TypeOK, vars
<1>2. ASSUME NEW o \in Ops,
             \/ Admit(o) \/ Spawned(o) \/ Answered(o) \/ TalkFails(o) \/ ReaderStops(o)
             \/ TaskStops(o) \/ TaskStopped(o) \/ StrayStop(o) \/ StrayStops(o) \/ StrayStopped(o)
      PROVE  IInv'
  BY <1>2, AdmitKeeps, SpawnedKeeps, TalkKeeps, TaskStopKeeps, ReaderKeeps
<1>3. ASSUME NEW o \in Ops,
             \/ Begin(o) \/ ProposeReturns(o) \/ ReserveIds(o) \/ CutOff(o) \/ Unwind(o)
             \/ RouteStops(o) \/ Unwound(o) \/ RouteEnds(o)
      PROVE  IInv'
  BY <1>3, BeginKeeps, ProposeReturnsKeeps, ReserveIdsKeeps, CutOffKeeps, UnwindKeeps,
     UnwoundKeeps, RouteEndsKeeps
<1>4. ASSUME NEW k \in Cancels,
             \/ \E o \in Ops : CancelBegin(k, o)
             \/ CancelWaits(k) \/ CancelStops(k) \/ CancelStopped(k) \/ CancelEnds(k)
      PROVE  IInv'
  BY <1>4, CancelBeginKeeps, CancelWaitsKeeps, CancelStopsKeeps, CancelStoppedKeeps,
     CancelEndsKeeps
<1> QED BY <1>1, <1>2, <1>3, <1>4, RestartKeeps DEF Next

(* The inductive invariant: agents, clients, requests and cancels agree.   *)
THEOREM PlanningIsSound == Spec => []IInv
<1> QED BY InitSound, NextKeeps, PTL DEF Spec

(* An operation begins only beside agents of other operations that belong  *)
(* to an active entry and to a request that has not returned: Begin is     *)
(* refused while an entry with an error is left.                           *)
THEOREM AgentsStayAccounted == Spec => AgentsAccounted
<1>1. ASSUME IInv, [Next]_vars
      PROVE  [\A o, p \in Ops :
                row[o] = "none" /\ row'[o] = "pending" /\ p # o /\ client[p].alive =>
                  entry[p].in /\ route[p].pc # "off"]_vars
  <2> SUFFICES ASSUME Next, NEW o \in Ops, NEW p \in Ops, row[o] = "none",
                      row'[o] = "pending", p # o, client[p].alive
               PROVE  entry[p].in /\ route[p].pc # "off"
    BY <1>1
  <2>1. row \in [Ops -> {"none", "pending"} \cup Over]
    BY <1>1 DEF IInv, TypeOK
  <2>2. \/ UNCHANGED row
        \/ \E b \in Ops : Begin(b)
        \/ \E b \in Ops, s \in Over : FinishRow(b, s)
    <3>1. ASSUME NEW q \in Ops,
                 \/ Admit(q) \/ Spawned(q) \/ Answered(q) \/ TalkFails(q) \/ ReaderStops(q)
                 \/ TaskStops(q) \/ TaskStopped(q) \/ StrayStop(q) \/ StrayStops(q)
                 \/ StrayStopped(q) \/ RouteStops(q) \/ RouteEnds(q)
          PROVE  UNCHANGED row
      BY <3>1 DEF Admit, Spawned, Answered, TalkFails, ReaderStops, TaskStops, TaskStopped,
         StrayStop, StrayStops, StrayStopped, TaskOnly, RouteStops, RouteEnds
    <3>2. ASSUME NEW q \in Ops, ProposeReturns(q) \/ ReserveIds(q) \/ CutOff(q)
          PROVE  UNCHANGED row \/ \E s \in Over : FinishRow(q, s)
      BY <3>2 DEF ProposeReturns, ReserveIds, CutOff, Fails, Over
    <3>3. ASSUME NEW q \in Ops, Unwind(q) \/ Unwound(q)
          PROVE  UNCHANGED row \/ \E s \in Over : FinishRow(q, s)
      BY <3>3 DEF Unwind, Unwound, Fails, Over
    <3>4. ASSUME NEW k \in Cancels, NEW q \in Ops, CancelBegin(k, q)
          PROVE  UNCHANGED row \/ \E s \in Over : FinishRow(q, s)
      BY <3>4 DEF CancelBegin, Over
    <3>5. ASSUME NEW k \in Cancels, CancelWaits(k) \/ CancelStops(k)
          PROVE  UNCHANGED row
      BY <3>5 DEF CancelWaits, CancelStops, CancelFails
    <3>6. ASSUME NEW k \in Cancels, CancelStopped(k) \/ CancelEnds(k)
          PROVE  UNCHANGED row \/ FinishRow(req[k].op, "cancelled")
      BY <3>6 DEF CancelStopped, CancelEnds, CancelFails, CancelSucceeds
    <3>7. \A k \in Cancels : req[k].op \in Ops
      BY <1>1, CancelFacts
    <3>8. "cancelled" \in Over
      BY DEF Over
    <3>9. Restart => UNCHANGED row
      BY DEF Restart
    <3> QED BY <3>1, <3>2, <3>3, <3>4, <3>5, <3>6, <3>7, <3>8, <3>9 DEF Next
  <2>3. PICK b \in Ops : Begin(b)
    BY <2>1, <2>2 DEF FinishRow, Over
  <2>4. b = o /\ ~Refused(o)
    BY <2>1, <2>3 DEF Begin, CreateRow
  <2>5. OpSound(client[p], entry[p], route[p], row[p])
    BY <1>1 DEF IInv
  <2> QED BY <2>4, <2>5 DEF Refused, OpSound
<1> QED BY <1>1, PlanningIsSound, PTL DEF Spec, AgentsAccounted

-----------------------------------------------------------------------------
(* Chat sessions.                                                          *)

(* Program points at which a request has a session in hand.                *)
Stopping == {"cancelled", "stop_backend", "flush"}
InHand == {"build", "old_stop", "rebuild"} \cup Stopping
ReqSet == [pc : {"idle", "entry", "transcript"} \cup InHand, id : Ids \cup {None},
           obj : Objs \cup {None}, mode : Modes]
ObjSet == [id : Ids \cup {None}, mode : Modes, backend : Modes \cup {None, "stopped"},
           lifecycle : Requests \cup {None}, turnLock : Requests \cup Turns \cup {None},
           task : Turns \cup {None}]
TurnSet == [st : {"new", "queued", "running", "cancelled", "done"},
            obj : Objs \cup {None}, mode : Modes, seq : Nat]

ChatTyped ==
  /\ live \in [Ids -> Objs \cup {None}] /\ obj \in [Objs -> ObjSet]
  /\ turn \in [Turns -> TurnSet] /\ request \in [Requests -> ReqSet] /\ made \in Nat

(* A session's lifecycle lock and the requests that have it in hand say    *)
(* the same.                                                               *)
Owned ==
  \A r \in Requests : request[r].pc \in InHand =>
    /\ request[r].obj \in Objs /\ request[r].id \in Ids
    /\ obj[request[r].obj].id = request[r].id /\ obj[request[r].obj].lifecycle = r
Held ==
  \A o \in Objs : obj[o].lifecycle # None =>
    request[obj[o].lifecycle].pc \in InHand /\ request[obj[o].lifecycle].obj = o

(* Waiting for the second read of a reattachment, a request knows its id.  *)
Reading == \A r \in Requests : request[r].pc \in {"entry", "transcript"} => request[r].id \in Ids

(* A turn belongs to an object that has been a session, and no two came at *)
(* the same time.                                                          *)
TurnOwned ==
  \A t \in Turns : turn[t].st # "new" =>
    /\ turn[t].obj \in Objs /\ obj[turn[t].obj].id # None /\ turn[t].seq < made
    /\ \A u \in Turns : u # t /\ turn[u].st # "new" => turn[t].seq # turn[u].seq
TaskOwned ==
  \A o \in Objs : obj[o].task # None =>
    turn[obj[o].task].st # "new" /\ turn[obj[o].task].obj = o
LiveIs == \A i \in Ids : live[i] # None => obj[live[i]].id = i

(* A session that is live and that nobody is stopping: while a turn waits  *)
(* for it, the last one to come, which the session remembers, waits too.   *)
Serving(o) ==
  /\ obj[o].id # None /\ live[obj[o].id] = o
  /\ obj[o].lifecycle # None => request[obj[o].lifecycle].pc \notin Stopping
LastInLine ==
  \A o \in Objs, t \in Turns :
    Serving(o) /\ turn[t].obj = o /\ turn[t].st = "queued" =>
      /\ obj[o].task # None /\ turn[obj[o].task].st = "queued"
      /\ turn[t].seq <= turn[obj[o].task].seq

(* The agent is of the session's mode, and so is every turn to come.       *)
AgentMode == \A o \in Objs : obj[o].backend \in {None, "stopped", obj[o].mode}
TurnMode ==
  \A t \in Turns : turn[t].st \in {"queued", "running"} => turn[t].mode = obj[turn[t].obj].mode
Runs ==
  \A t \in Turns : turn[t].st = "running" =>
    obj[turn[t].obj].turnLock = t /\ obj[turn[t].obj].backend = turn[t].mode

(* While the mode changes no turn waits for the session.                   *)
Switching ==
  \A r \in Requests : request[r].pc \in {"old_stop", "rebuild"} =>
    /\ obj[request[r].obj].turnLock = r
    /\ \A t \in Turns : turn[t].obj = request[r].obj => turn[t].st # "queued"
Flushed == \A r \in Requests : At(r, "flush") => obj[request[r].obj].backend = "stopped"

ChatInv ==
  /\ ChatTyped /\ Owned /\ Held /\ Reading /\ TurnOwned /\ TaskOwned /\ LiveIs
  /\ LastInLine /\ AgentMode /\ TurnMode /\ Runs /\ Switching /\ Flushed

-----------------------------------------------------------------------------
(* The kinds of some fields, one by one.                                   *)
LEMMA LockTyped ==
  ChatTyped => \A o \in Objs : obj[o].lifecycle \in Requests \cup {None} /\ obj[o].id \in Ids \cup {None}
  BY DEF ChatTyped, ObjSet
LEMMA TaskTyped ==
  ChatTyped => \A o \in Objs : obj[o].task \in Turns \cup {None}
  BY DEF ChatTyped, ObjSet
LEMMA LiveTyped ==
  ChatTyped => \A i \in Ids : live[i] \in Objs \cup {None}
  BY DEF ChatTyped
LEMMA TimeTyped ==
  ChatTyped => made \in Nat /\ \A t \in Turns : turn[t].seq \in Nat
  BY DEF ChatTyped, TurnSet

(* What closes the manager touches no session.                             *)
LEMMA SameChat ==
  ASSUME ChatInv, UNCHANGED <<live, obj, turn, request, made>>  PROVE ChatInv'
<1>1. ChatTyped' /\ Owned' /\ Held' /\ Reading' /\ TurnOwned' /\ TaskOwned' /\ LiveIs'
  BY DEF ChatInv, ChatTyped, Owned, Held, Reading, TurnOwned, TaskOwned, LiveIs
<1>2. LastInLine' /\ AgentMode' /\ TurnMode' /\ Runs' /\ Switching' /\ Flushed'
  BY DEF ChatInv, LastInLine, Serving, AgentMode, TurnMode, Runs, Switching, Flushed, At
<1> QED BY <1>1, <1>2 DEF ChatInv

(* A new session is nobody's but its request's.                            *)
LEMMA StartKeeps ==
  ASSUME ChatInv, NEW r \in Requests, NEW id \in Ids, NEW o \in Objs, NEW m \in Modes, StartSession(r, id, o, m)
  PROVE  ChatInv'
<1>1. /\ ChatTyped /\ Owned /\ Held /\ Reading /\ TurnOwned /\ TaskOwned
      /\ LiveIs /\ LastInLine /\ AgentMode /\ TurnMode /\ Runs /\ Switching
      /\ Flushed
  BY DEF ChatInv
<1>2. /\ request[r].pc = "idle"
      /\ live[id] = None /\ obj[o].id = None
      /\ \A q \in Requests : request[q].obj # o
  BY <1>1, ChatAssumption DEF StartSession, Idle, At, Fresh
<1>3. /\ ChatTyped'
      /\ obj'[o].id = id
      /\ obj'[o].mode = m
      /\ obj'[o].backend = None
      /\ obj'[o].lifecycle = r
      /\ obj'[o].turnLock = None
      /\ obj'[o].task = None
      /\ \A p \in Objs \ {o} : obj'[p] = obj[p]
      /\ request'[r].pc = "build"
      /\ request'[r].id = id
      /\ request'[r].obj = o
      /\ request'[r].mode = m
      /\ \A q \in Requests \ {r} : request'[q] = request[q]
      /\ live'[id] = o
      /\ \A i \in Ids \ {id} : live'[i] = live[i]
      /\ turn' = turn
      /\ made' = made + 1
  <2>1. /\ obj' \in [Objs -> ObjSet]
    BY <1>1, <1>2, ChatAssumption DEF StartSession, NoObj, InHand, ChatTyped, ObjSet, ReqSet, TurnSet, Modes
  <2>2. /\ request' \in [Requests -> ReqSet]
    BY <1>1, <1>2, ChatAssumption DEF StartSession, NoObj, InHand, ChatTyped, ObjSet, ReqSet, TurnSet, Modes
  <2>3. /\ live' \in [Ids -> Objs \cup {None}]
        /\ turn' \in [Turns -> TurnSet]
        /\ made' \in Nat
    BY <1>1, <1>2, ChatAssumption DEF StartSession, NoObj, InHand, ChatTyped, ObjSet, ReqSet, TurnSet, Modes
  <2>4. /\ obj'[o].id = id
        /\ obj'[o].mode = m
        /\ obj'[o].backend = None
        /\ obj'[o].lifecycle = r
        /\ obj'[o].turnLock = None
        /\ obj'[o].task = None
        /\ \A p \in Objs \ {o} : obj'[p] = obj[p]
    BY <1>1, <1>2, ChatAssumption DEF StartSession, NoObj, InHand, ChatTyped, ObjSet, ReqSet, TurnSet, Modes
  <2>5. /\ request'[r].pc = "build"
        /\ request'[r].id = id
        /\ request'[r].obj = o
        /\ request'[r].mode = m
        /\ \A q \in Requests \ {r} : request'[q] = request[q]
    BY <1>1, <1>2, ChatAssumption DEF StartSession, NoObj, InHand, ChatTyped, ObjSet, ReqSet, TurnSet, Modes
  <2>6. /\ live'[id] = o
        /\ \A i \in Ids \ {id} : live'[i] = live[i]
        /\ turn' = turn
        /\ made' = made + 1
    BY <1>1, <1>2, ChatAssumption DEF StartSession, NoObj, InHand, ChatTyped, ObjSet, ReqSet, TurnSet, Modes
  <2> QED BY <2>1, <2>2, <2>3, <2>4, <2>5, <2>6 DEF ChatTyped
<1>4. Owned'
  BY <1>1, <1>2, <1>3, ChatAssumption DEF Owned, InHand, Stopping
<1>5. Held'
  BY <1>1, <1>2, <1>3, LockTyped, ChatAssumption DEF Held, Owned, InHand, Stopping
<1>6. Reading'
  BY <1>1, <1>2, <1>3, ChatAssumption DEF Reading, InHand, Stopping
<1>7. TurnOwned'
  BY <1>1, <1>2, <1>3, TimeTyped, ChatAssumption DEF TurnOwned
<1>8. TaskOwned'
  BY <1>1, <1>2, <1>3, TaskTyped, ChatAssumption DEF TaskOwned, TurnOwned
<1>9. LiveIs'
  BY <1>1, <1>2, <1>3, LiveTyped, ChatAssumption DEF LiveIs
<1>10. LastInLine'
  <2> SUFFICES ASSUME NEW p \in Objs, NEW t \in Turns, Serving(p)', turn[t].obj = p, turn[t].st = "queued"
               PROVE  /\ obj[p].task # None /\ turn[obj[p].task].st = "queued"
                      /\ turn[t].seq <= turn[obj[p].task].seq
                      /\ obj'[p] = obj[p]
    BY <1>3 DEF LastInLine
  <2>1. p # o
    BY <1>1, <1>2 DEF TurnOwned
  <2>2. obj'[p] = obj[p] /\ obj[p].id # None /\ live'[obj[p].id] = p /\ obj[p].id \in Ids
    BY <1>1, <1>3, <2>1, LockTyped DEF Serving
  <2>3. live[obj[p].id] = p
    BY <1>3, <2>1, <2>2
  <2>4. obj[p].lifecycle # None => request[obj[p].lifecycle].pc \notin Stopping
    <3>1. obj[p].lifecycle # None => obj[p].lifecycle \in Requests \ {r}
      BY <1>1, <1>2, LockTyped DEF Held, InHand, Stopping
    <3> QED BY <1>3, <2>2, <3>1 DEF Serving
  <2> QED BY <1>1, <2>2, <2>3, <2>4 DEF LastInLine, Serving
<1>11. AgentMode'
  BY <1>1, <1>2, <1>3, ChatAssumption DEF AgentMode
<1>12. TurnMode'
  BY <1>1, <1>2, <1>3, ChatAssumption DEF TurnMode, TurnOwned
<1>13. Runs'
  BY <1>1, <1>2, <1>3, ChatAssumption DEF Runs, TurnOwned, TurnMode
<1>14. Switching'
  BY <1>1, <1>2, <1>3, ChatAssumption DEF Switching, TurnOwned, Owned, InHand, Stopping
<1>15. Flushed'
  BY <1>1, <1>2, <1>3, ChatAssumption DEF Flushed, At, Owned, InHand, Stopping
<1> QED BY <1>3, <1>4, <1>5, <1>6, <1>7, <1>8, <1>9, <1>10, <1>11, <1>12, <1>13, <1>14, <1>15 DEF ChatInv

(* A request that reads the index has no session in hand.                  *)
LEMMA ReattachKeeps ==
  ASSUME ChatInv, NEW r \in Requests, NEW id \in Ids, Reattach(r, id)
  PROVE  ChatInv'
<1>1. /\ ChatTyped /\ Owned /\ Held /\ Reading /\ TurnOwned /\ TaskOwned
      /\ LiveIs /\ LastInLine /\ AgentMode /\ TurnMode /\ Runs /\ Switching
      /\ Flushed
  BY DEF ChatInv
<1>2. /\ request[r].pc = "idle"
  BY <1>1, ChatAssumption DEF Reattach, Idle, At
<1>3. /\ ChatTyped'
      /\ request'[r].pc = "entry"
      /\ request'[r].id = id
      /\ request'[r].obj = None
      /\ request'[r].mode = "qa"
      /\ \A q \in Requests \ {r} : request'[q] = request[q]
      /\ live' = live
      /\ obj' = obj
      /\ turn' = turn
      /\ made' = made + 1
  BY <1>1, <1>2, ChatAssumption DEF Reattach, ChatTyped, ObjSet, ReqSet, TurnSet, Modes
<1>4. Owned'
  BY <1>1, <1>2, <1>3, ChatAssumption DEF Owned, InHand, Stopping
<1>5. Held'
  BY <1>1, <1>2, <1>3, LockTyped, ChatAssumption DEF Held, Owned, InHand, Stopping
<1>6. Reading'
  BY <1>1, <1>2, <1>3, ChatAssumption DEF Reading, InHand, Stopping
<1>7. TurnOwned'
  BY <1>1, <1>2, <1>3, TimeTyped, ChatAssumption DEF TurnOwned
<1>8. TaskOwned'
  BY <1>1, <1>2, <1>3, TaskTyped, ChatAssumption DEF TaskOwned, TurnOwned
<1>9. LiveIs'
  BY <1>1, <1>2, <1>3, LiveTyped, ChatAssumption DEF LiveIs
<1>10. LastInLine'
  BY <1>1, <1>2, <1>3, LockTyped, LiveTyped, ChatAssumption DEF LastInLine, Serving, Stopping
<1>11. AgentMode'
  BY <1>1, <1>2, <1>3, ChatAssumption DEF AgentMode
<1>12. TurnMode'
  BY <1>1, <1>2, <1>3, ChatAssumption DEF TurnMode, TurnOwned
<1>13. Runs'
  BY <1>1, <1>2, <1>3, ChatAssumption DEF Runs, TurnOwned, TurnMode
<1>14. Switching'
  BY <1>1, <1>2, <1>3, ChatAssumption DEF Switching, TurnOwned, Owned, InHand, Stopping
<1>15. Flushed'
  BY <1>1, <1>2, <1>3, ChatAssumption DEF Flushed, At, Owned, InHand, Stopping
<1> QED BY <1>3, <1>4, <1>5, <1>6, <1>7, <1>8, <1>9, <1>10, <1>11, <1>12, <1>13, <1>14, <1>15 DEF ChatInv

(* The entry is there or not.                                              *)
LEMMA ReadEntryKeeps ==
  ASSUME ChatInv, NEW r \in Requests, ReadEntry(r)
  PROVE  ChatInv'
<1>1. /\ ChatTyped /\ Owned /\ Held /\ Reading /\ TurnOwned /\ TaskOwned
      /\ LiveIs /\ LastInLine /\ AgentMode /\ TurnMode /\ Runs /\ Switching
      /\ Flushed
  BY DEF ChatInv
<1>2. /\ request[r].pc = "entry"
  BY <1>1, ChatAssumption DEF ReadEntry, At
<1>3. /\ ChatTyped'
      /\ request'[r].pc \in {"idle", "transcript"}
      /\ request'[r].id = request[r].id
      /\ request'[r].obj = request[r].obj
      /\ request'[r].mode = request[r].mode
      /\ \A q \in Requests \ {r} : request'[q] = request[q]
      /\ live' = live
      /\ obj' = obj
      /\ turn' = turn
      /\ made' = made
  BY <1>1, <1>2, ChatAssumption DEF ReadEntry, Goto, ChatTyped, ObjSet, ReqSet, TurnSet, Modes
<1>4. Owned'
  BY <1>1, <1>2, <1>3, ChatAssumption DEF Owned, InHand, Stopping
<1>5. Held'
  BY <1>1, <1>2, <1>3, LockTyped, ChatAssumption DEF Held, Owned, InHand, Stopping
<1>6. Reading'
  BY <1>1, <1>2, <1>3, ChatAssumption DEF Reading, InHand, Stopping
<1>7. TurnOwned'
  BY <1>1, <1>2, <1>3, TimeTyped, ChatAssumption DEF TurnOwned
<1>8. TaskOwned'
  BY <1>1, <1>2, <1>3, TaskTyped, ChatAssumption DEF TaskOwned, TurnOwned
<1>9. LiveIs'
  BY <1>1, <1>2, <1>3, LiveTyped, ChatAssumption DEF LiveIs
<1>10. LastInLine'
  BY <1>1, <1>2, <1>3, LockTyped, LiveTyped, ChatAssumption DEF LastInLine, Serving, Stopping
<1>11. AgentMode'
  BY <1>1, <1>2, <1>3, ChatAssumption DEF AgentMode
<1>12. TurnMode'
  BY <1>1, <1>2, <1>3, ChatAssumption DEF TurnMode, TurnOwned
<1>13. Runs'
  BY <1>1, <1>2, <1>3, ChatAssumption DEF Runs, TurnOwned, TurnMode
<1>14. Switching'
  BY <1>1, <1>2, <1>3, ChatAssumption DEF Switching, TurnOwned, Owned, InHand, Stopping
<1>15. Flushed'
  BY <1>1, <1>2, <1>3, ChatAssumption DEF Flushed, At, Owned, InHand, Stopping
<1> QED BY <1>3, <1>4, <1>5, <1>6, <1>7, <1>8, <1>9, <1>10, <1>11, <1>12, <1>13, <1>14, <1>15 DEF ChatInv

(* A reattached session is as good as a new one.                           *)
LEMMA ReadTranscriptKeeps ==
  ASSUME ChatInv, NEW r \in Requests, NEW o \in Objs, ReadTranscript(r, o)
  PROVE  ChatInv'
<1> DEFINE id == request[r].id
<1>1. /\ ChatTyped /\ Owned /\ Held /\ Reading /\ TurnOwned /\ TaskOwned
      /\ LiveIs /\ LastInLine /\ AgentMode /\ TurnMode /\ Runs /\ Switching
      /\ Flushed
  BY DEF ChatInv
<1>2. /\ request[r].pc = "transcript" /\ id = request[r].id /\ id \in Ids
      /\ obj[o].id = None
      /\ \A q \in Requests : request[q].obj # o
  BY <1>1, ChatAssumption DEF ReadTranscript, At, Fresh, Reading
<1> HIDE DEF id
<1>3. /\ ChatTyped'
      /\ obj'[o].id = id
      /\ obj'[o].mode = "qa"
      /\ obj'[o].backend = None
      /\ obj'[o].lifecycle = r
      /\ obj'[o].turnLock = None
      /\ obj'[o].task = None
      /\ \A p \in Objs \ {o} : obj'[p] = obj[p]
      /\ request'[r].pc = "build"
      /\ request'[r].id = request[r].id
      /\ request'[r].obj = o
      /\ request'[r].mode = request[r].mode
      /\ \A q \in Requests \ {r} : request'[q] = request[q]
      /\ live'[id] = o
      /\ \A i \in Ids \ {id} : live'[i] = live[i]
      /\ turn' = turn
      /\ made' = made
  BY <1>1, <1>2, ChatAssumption DEF ReadTranscript, NoObj, InHand, ChatTyped, ObjSet, ReqSet, TurnSet, Modes
<1>4. Owned'
  BY <1>1, <1>2, <1>3, ChatAssumption DEF Owned, InHand, Stopping
<1>5. Held'
  BY <1>1, <1>2, <1>3, LockTyped, ChatAssumption DEF Held, Owned, InHand, Stopping
<1>6. Reading'
  BY <1>1, <1>2, <1>3, ChatAssumption DEF Reading, InHand, Stopping
<1>7. TurnOwned'
  BY <1>1, <1>2, <1>3, TimeTyped, ChatAssumption DEF TurnOwned
<1>8. TaskOwned'
  BY <1>1, <1>2, <1>3, TaskTyped, ChatAssumption DEF TaskOwned, TurnOwned
<1>9. LiveIs'
  BY <1>1, <1>2, <1>3, LiveTyped, ChatAssumption DEF LiveIs
<1>10. LastInLine'
  <2> SUFFICES ASSUME NEW p \in Objs, NEW t \in Turns, Serving(p)', turn[t].obj = p, turn[t].st = "queued"
               PROVE  /\ obj[p].task # None /\ turn[obj[p].task].st = "queued"
                      /\ turn[t].seq <= turn[obj[p].task].seq
                      /\ obj'[p] = obj[p]
    BY <1>3 DEF LastInLine
  <2>1. p # o
    BY <1>1, <1>2 DEF TurnOwned
  <2>2. obj'[p] = obj[p] /\ obj[p].id # None /\ live'[obj[p].id] = p /\ obj[p].id \in Ids
    BY <1>1, <1>3, <2>1, LockTyped DEF Serving
  <2>3. live[obj[p].id] = p
    BY <1>3, <2>1, <2>2
  <2>4. obj[p].lifecycle # None => request[obj[p].lifecycle].pc \notin Stopping
    <3>1. obj[p].lifecycle # None => obj[p].lifecycle \in Requests \ {r}
      BY <1>1, <1>2, LockTyped DEF Held, InHand, Stopping
    <3> QED BY <1>3, <2>2, <3>1 DEF Serving
  <2> QED BY <1>1, <2>2, <2>3, <2>4 DEF LastInLine, Serving
<1>11. AgentMode'
  BY <1>1, <1>2, <1>3, ChatAssumption DEF AgentMode
<1>12. TurnMode'
  BY <1>1, <1>2, <1>3, ChatAssumption DEF TurnMode, TurnOwned
<1>13. Runs'
  BY <1>1, <1>2, <1>3, ChatAssumption DEF Runs, TurnOwned, TurnMode
<1>14. Switching'
  BY <1>1, <1>2, <1>3, ChatAssumption DEF Switching, TurnOwned, Owned, InHand, Stopping
<1>15. Flushed'
  BY <1>1, <1>2, <1>3, ChatAssumption DEF Flushed, At, Owned, InHand, Stopping
<1> QED BY <1>3, <1>4, <1>5, <1>6, <1>7, <1>8, <1>9, <1>10, <1>11, <1>12, <1>13, <1>14, <1>15 DEF ChatInv

(* The agent is built for the mode the session has.                        *)
LEMMA BuiltKeeps ==
  ASSUME ChatInv, NEW r \in Requests, Built(r)
  PROVE  ChatInv'
<1> DEFINE o == request[r].obj
<1>1. /\ ChatTyped /\ Owned /\ Held /\ Reading /\ TurnOwned /\ TaskOwned
      /\ LiveIs /\ LastInLine /\ AgentMode /\ TurnMode /\ Runs /\ Switching
      /\ Flushed
  BY DEF ChatInv
<1>2. /\ request[r].pc = "build"
      /\ o \in Objs /\ o = request[r].obj /\ obj[o].lifecycle = r /\ obj[o].id \in Ids
      /\ obj[o].id = request[r].id
  BY <1>1, ChatAssumption DEF Built, At, Owned, InHand
<1> HIDE DEF o
<1>3. /\ ChatTyped'
      /\ obj'[o].id = obj[o].id
      /\ obj'[o].mode = obj[o].mode
      /\ obj'[o].backend = obj[o].mode
      /\ obj'[o].lifecycle = None
      /\ obj'[o].turnLock = obj[o].turnLock
      /\ obj'[o].task = obj[o].task
      /\ \A p \in Objs \ {o} : obj'[p] = obj[p]
      /\ request'[r].pc = "idle"
      /\ request'[r].id = request[r].id
      /\ request'[r].obj = request[r].obj
      /\ request'[r].mode = request[r].mode
      /\ \A q \in Requests \ {r} : request'[q] = request[q]
      /\ live' = live
      /\ turn' = turn
      /\ made' = made
  <2> DEFINE e == [obj[o] EXCEPT !.backend = obj[o].mode, !.lifecycle = None]
  <2>1. e \in ObjSet
    <3>1. obj[o] \in ObjSet
      BY <1>1, <1>2 DEF ChatTyped, ReqSet
    <3> QED BY <1>2, <3>1, ChatAssumption DEF ObjSet, Modes
  <2>2. obj' = [obj EXCEPT ![o] = e]
    BY <1>2 DEF Built, Mine
  <2>3. obj' \in [Objs -> ObjSet] /\ obj'[o] = e /\ \A p \in Objs \ {o} : obj'[p] = obj[p]
    <3> HIDE DEF e
    <3> QED BY <1>1, <1>2, <2>1, <2>2 DEF ChatTyped
  <2>4. /\ obj'[o].id = obj[o].id
        /\ obj'[o].mode = obj[o].mode
        /\ obj'[o].backend = obj[o].mode
        /\ obj'[o].lifecycle = None
        /\ obj'[o].turnLock = obj[o].turnLock
        /\ obj'[o].task = obj[o].task
    <3>1. obj[o] \in ObjSet
      BY <1>1, <1>2 DEF ChatTyped
    <3> QED BY <2>3, <3>1 DEF ObjSet
  <2>5. /\ request' \in [Requests -> ReqSet]
    BY <1>1, <1>2, ChatAssumption DEF Built, Goto, Mine, ChatTyped, ReqSet, Modes
  <2>6. /\ live' \in [Ids -> Objs \cup {None}]
        /\ made' \in Nat
    BY <1>1, <1>2, ChatAssumption DEF Built, Goto, Mine, ChatTyped
  <2>7. /\ turn' \in [Turns -> TurnSet]
    BY <1>1, <1>2, ChatAssumption DEF Built, Goto, Mine, ChatTyped, TurnSet
  <2>8. /\ request'[r].pc = "idle"
        /\ request'[r].id = request[r].id
        /\ request'[r].obj = request[r].obj
        /\ request'[r].mode = request[r].mode
        /\ \A q \in Requests \ {r} : request'[q] = request[q]
    BY <1>1, <1>2, ChatAssumption DEF Built, Goto, Mine, ChatTyped, ReqSet
  <2>9. /\ live' = live
        /\ turn' = turn
        /\ made' = made
    BY <1>1, <1>2, ChatAssumption DEF Built, Goto, Mine, ChatTyped, TurnSet
  <2> HIDE DEF e
  <2> QED BY <2>3, <2>4, <2>5, <2>6, <2>7, <2>8, <2>9 DEF ChatTyped
<1>4. Owned'
  BY <1>1, <1>2, <1>3, ChatAssumption DEF Owned, InHand, Stopping
<1>5. Held'
  BY <1>1, <1>2, <1>3, LockTyped, ChatAssumption DEF Held, Owned, InHand, Stopping
<1>6. Reading'
  BY <1>1, <1>2, <1>3, ChatAssumption DEF Reading, InHand, Stopping
<1>7. TurnOwned'
  BY <1>1, <1>2, <1>3, TimeTyped, ChatAssumption DEF TurnOwned
<1>8. TaskOwned'
  BY <1>1, <1>2, <1>3, TaskTyped, ChatAssumption DEF TaskOwned, TurnOwned
<1>9. LiveIs'
  BY <1>1, <1>2, <1>3, LiveTyped, ChatAssumption DEF LiveIs
<1>10. LastInLine'
  BY <1>1, <1>2, <1>3, LockTyped, LiveTyped, ChatAssumption DEF LastInLine, Serving, Stopping
<1>11. AgentMode'
  BY <1>1, <1>2, <1>3, ChatAssumption DEF AgentMode
<1>12. TurnMode'
  BY <1>1, <1>2, <1>3, ChatAssumption DEF TurnMode, TurnOwned
<1>13. Runs'
  BY <1>1, <1>2, <1>3, ChatAssumption DEF Runs, TurnOwned, TurnMode
<1>14. Switching'
  BY <1>1, <1>2, <1>3, ChatAssumption DEF Switching, TurnOwned, Owned, InHand, Stopping
<1>15. Flushed'
  BY <1>1, <1>2, <1>3, ChatAssumption DEF Flushed, At, Owned, InHand, Stopping
<1> QED BY <1>3, <1>4, <1>5, <1>6, <1>7, <1>8, <1>9, <1>10, <1>11, <1>12, <1>13, <1>14, <1>15 DEF ChatInv

(* A session without an agent is forgotten.                                *)
LEMMA BuildFailsKeeps ==
  ASSUME ChatInv, NEW r \in Requests, BuildFails(r)
  PROVE  ChatInv'
<1> DEFINE o == request[r].obj
<1>1. /\ ChatTyped /\ Owned /\ Held /\ Reading /\ TurnOwned /\ TaskOwned
      /\ LiveIs /\ LastInLine /\ AgentMode /\ TurnMode /\ Runs /\ Switching
      /\ Flushed
  BY DEF ChatInv
<1>2. /\ request[r].pc = "build"
      /\ o \in Objs /\ o = request[r].obj /\ obj[o].lifecycle = r /\ obj[o].id \in Ids
      /\ obj[o].id = request[r].id
  BY <1>1, ChatAssumption DEF BuildFails, At, Owned, InHand
<1> HIDE DEF o
<1>3. /\ ChatTyped'
      /\ obj'[o].id = obj[o].id
      /\ obj'[o].mode = obj[o].mode
      /\ obj'[o].backend = obj[o].backend
      /\ obj'[o].lifecycle = None
      /\ obj'[o].turnLock = obj[o].turnLock
      /\ obj'[o].task = obj[o].task
      /\ \A p \in Objs \ {o} : obj'[p] = obj[p]
      /\ request'[r].pc = "idle"
      /\ request'[r].id = request[r].id
      /\ request'[r].obj = request[r].obj
      /\ request'[r].mode = request[r].mode
      /\ \A q \in Requests \ {r} : request'[q] = request[q]
      /\ live'[obj[o].id] = None
      /\ \A i \in Ids \ {obj[o].id} : live'[i] = live[i]
      /\ turn' = turn
      /\ made' = made
  <2> DEFINE e == [obj[o] EXCEPT !.lifecycle = None]
  <2>1. e \in ObjSet
    <3>1. obj[o] \in ObjSet
      BY <1>1, <1>2 DEF ChatTyped, ReqSet
    <3> QED BY <1>2, <3>1, ChatAssumption DEF ObjSet, Modes
  <2>2. obj' = [obj EXCEPT ![o] = e]
    BY <1>2 DEF BuildFails, Mine
  <2>3. obj' \in [Objs -> ObjSet] /\ obj'[o] = e /\ \A p \in Objs \ {o} : obj'[p] = obj[p]
    <3> HIDE DEF e
    <3> QED BY <1>1, <1>2, <2>1, <2>2 DEF ChatTyped
  <2>4. /\ obj'[o].id = obj[o].id
        /\ obj'[o].mode = obj[o].mode
        /\ obj'[o].backend = obj[o].backend
        /\ obj'[o].lifecycle = None
        /\ obj'[o].turnLock = obj[o].turnLock
        /\ obj'[o].task = obj[o].task
    <3>1. obj[o] \in ObjSet
      BY <1>1, <1>2 DEF ChatTyped
    <3> QED BY <2>3, <3>1 DEF ObjSet
  <2>5. /\ request' \in [Requests -> ReqSet]
    BY <1>1, <1>2, ChatAssumption DEF BuildFails, Goto, Forget, ChatTyped, ReqSet, Modes
  <2>6. /\ live' \in [Ids -> Objs \cup {None}]
        /\ made' \in Nat
    BY <1>1, <1>2, ChatAssumption DEF BuildFails, Goto, Forget, ChatTyped
  <2>7. /\ turn' \in [Turns -> TurnSet]
    BY <1>1, <1>2, ChatAssumption DEF BuildFails, Goto, Forget, ChatTyped, TurnSet
  <2>8. /\ request'[r].pc = "idle"
        /\ request'[r].id = request[r].id
        /\ request'[r].obj = request[r].obj
        /\ request'[r].mode = request[r].mode
        /\ \A q \in Requests \ {r} : request'[q] = request[q]
    BY <1>1, <1>2, ChatAssumption DEF BuildFails, Goto, Forget, ChatTyped, ReqSet
  <2>9. /\ live'[obj[o].id] = None
        /\ \A i \in Ids \ {obj[o].id} : live'[i] = live[i]
        /\ turn' = turn
        /\ made' = made
    BY <1>1, <1>2, ChatAssumption DEF BuildFails, Goto, Forget, ChatTyped, TurnSet
  <2> HIDE DEF e
  <2> QED BY <2>3, <2>4, <2>5, <2>6, <2>7, <2>8, <2>9 DEF ChatTyped
<1>4. Owned'
  BY <1>1, <1>2, <1>3, ChatAssumption DEF Owned, InHand, Stopping
<1>5. Held'
  BY <1>1, <1>2, <1>3, LockTyped, ChatAssumption DEF Held, Owned, InHand, Stopping
<1>6. Reading'
  BY <1>1, <1>2, <1>3, ChatAssumption DEF Reading, InHand, Stopping
<1>7. TurnOwned'
  BY <1>1, <1>2, <1>3, TimeTyped, ChatAssumption DEF TurnOwned
<1>8. TaskOwned'
  BY <1>1, <1>2, <1>3, TaskTyped, ChatAssumption DEF TaskOwned, TurnOwned
<1>9. LiveIs'
  BY <1>1, <1>2, <1>3, LiveTyped, ChatAssumption DEF LiveIs
<1>10. LastInLine'
  BY <1>1, <1>2, <1>3, LockTyped, LiveTyped, ChatAssumption DEF LastInLine, Serving, Stopping
<1>11. AgentMode'
  BY <1>1, <1>2, <1>3, ChatAssumption DEF AgentMode
<1>12. TurnMode'
  BY <1>1, <1>2, <1>3, ChatAssumption DEF TurnMode, TurnOwned
<1>13. Runs'
  BY <1>1, <1>2, <1>3, ChatAssumption DEF Runs, TurnOwned, TurnMode
<1>14. Switching'
  BY <1>1, <1>2, <1>3, ChatAssumption DEF Switching, TurnOwned, Owned, InHand, Stopping
<1>15. Flushed'
  BY <1>1, <1>2, <1>3, ChatAssumption DEF Flushed, At, Owned, InHand, Stopping
<1> QED BY <1>3, <1>4, <1>5, <1>6, <1>7, <1>8, <1>9, <1>10, <1>11, <1>12, <1>13, <1>14, <1>15 DEF ChatInv

(* A message queues a turn behind the others.                              *)
LEMMA SendKeeps ==
  ASSUME ChatInv, NEW r \in Requests, NEW id \in Ids, NEW t \in Turns, SendMessage(r, id, t)
  PROVE  ChatInv'
<1> DEFINE o == live[id]
<1>1. /\ ChatTyped /\ Owned /\ Held /\ Reading /\ TurnOwned /\ TaskOwned
      /\ LiveIs /\ LastInLine /\ AgentMode /\ TurnMode /\ Runs /\ Switching
      /\ Flushed
  BY DEF ChatInv
<1>2. /\ o \in Objs /\ o = live[id] /\ obj[o].id = id
      /\ turn[t].st = "new" /\ obj[o].turnLock = None
      /\ obj' = [obj EXCEPT ![o].task = t]
  BY <1>1, ChatAssumption DEF SendMessage, LiveIs, ChatTyped
<1> HIDE DEF o
<1>3. /\ ChatTyped'
      /\ obj'[o].id = obj[o].id
      /\ obj'[o].mode = obj[o].mode
      /\ obj'[o].backend = obj[o].backend
      /\ obj'[o].lifecycle = obj[o].lifecycle
      /\ obj'[o].turnLock = obj[o].turnLock
      /\ obj'[o].task = t
      /\ \A p \in Objs \ {o} : obj'[p] = obj[p]
      /\ turn'[t].st = "queued"
      /\ turn'[t].obj = o
      /\ turn'[t].mode = obj[o].mode
      /\ turn'[t].seq = made
      /\ \A u \in Turns \ {t} : turn'[u] = turn[u]
      /\ live' = live
      /\ request' = request
      /\ made' = made + 1
  <2> DEFINE e == [obj[o] EXCEPT !.task = t]
  <2>1. e \in ObjSet
    <3>1. obj[o] \in ObjSet
      BY <1>1, <1>2 DEF ChatTyped, ReqSet
    <3> QED BY <1>2, <3>1, ChatAssumption DEF ObjSet, Modes
  <2>2. obj' = [obj EXCEPT ![o] = e]
    BY <1>2 DEF SendMessage, Mine
  <2>3. obj' \in [Objs -> ObjSet] /\ obj'[o] = e /\ \A p \in Objs \ {o} : obj'[p] = obj[p]
    <3> HIDE DEF e
    <3> QED BY <1>1, <1>2, <2>1, <2>2 DEF ChatTyped
  <2>4. /\ obj'[o].id = obj[o].id
        /\ obj'[o].mode = obj[o].mode
        /\ obj'[o].backend = obj[o].backend
        /\ obj'[o].lifecycle = obj[o].lifecycle
        /\ obj'[o].turnLock = obj[o].turnLock
        /\ obj'[o].task = t
    <3>1. obj[o] \in ObjSet
      BY <1>1, <1>2 DEF ChatTyped
    <3> QED BY <2>3, <3>1 DEF ObjSet
  <2>5. /\ request' \in [Requests -> ReqSet]
    BY <1>1, <1>2, ChatAssumption DEF SendMessage, ChatTyped, ReqSet, Modes
  <2>6. /\ live' \in [Ids -> Objs \cup {None}]
        /\ made' \in Nat
    BY <1>1, <1>2, ChatAssumption DEF SendMessage, ChatTyped
  <2>7. /\ turn' \in [Turns -> TurnSet]
      <3>1. obj[o].mode \in Modes /\ made \in Nat
      BY <1>1, <1>2 DEF ChatTyped, ObjSet
    <3>2. turn' = [turn EXCEPT ![t] = [st |-> "queued", obj |-> o, mode |-> obj[o].mode, seq |-> made]]
      BY DEF SendMessage, o
    <3>3. [st |-> "queued", obj |-> o, mode |-> obj[o].mode, seq |-> made] \in TurnSet
      BY <1>2, <3>1 DEF TurnSet
    <3> QED BY <1>1, <3>2, <3>3 DEF ChatTyped
  <2>8. /\ request' = request
    BY <1>1, <1>2, ChatAssumption DEF SendMessage, ChatTyped, ReqSet
  <2>9. /\ turn'[t].st = "queued"
        /\ turn'[t].obj = o
        /\ turn'[t].mode = obj[o].mode
        /\ turn'[t].seq = made
        /\ \A u \in Turns \ {t} : turn'[u] = turn[u]
        /\ live' = live
        /\ made' = made + 1
    BY <1>1, <1>2, ChatAssumption DEF SendMessage, ChatTyped, TurnSet
  <2> HIDE DEF e
  <2> QED BY <2>3, <2>4, <2>5, <2>6, <2>7, <2>8, <2>9 DEF ChatTyped
<1>4. Owned'
  BY <1>1, <1>2, <1>3, ChatAssumption DEF Owned, InHand, Stopping
<1>5. Held'
  BY <1>1, <1>2, <1>3, LockTyped, ChatAssumption DEF Held, Owned, InHand, Stopping
<1>6. Reading'
  BY <1>1, <1>2, <1>3, ChatAssumption DEF Reading, InHand, Stopping
<1>7. TurnOwned'
  BY <1>1, <1>2, <1>3, TimeTyped, ChatAssumption DEF TurnOwned
<1>8. TaskOwned'
  BY <1>1, <1>2, <1>3, TaskTyped, ChatAssumption DEF TaskOwned, TurnOwned
<1>9. LiveIs'
  BY <1>1, <1>2, <1>3, LiveTyped, ChatAssumption DEF LiveIs
<1>10. LastInLine'
  <2> SUFFICES ASSUME NEW p \in Objs, NEW u \in Turns, Serving(p)', turn'[u].obj = p, turn'[u].st = "queued"
               PROVE  /\ obj'[p].task # None /\ turn'[obj'[p].task].st = "queued"
                      /\ turn'[u].seq <= turn'[obj'[p].task].seq
    BY DEF LastInLine
  <2>1. CASE p = o
    <3>1. u # t => turn[u].seq < made
      BY <1>1, <1>3 DEF TurnOwned
    <3>2. obj'[p].task = t /\ t # None /\ turn'[t].st = "queued" /\ turn'[t].seq = made /\ made \in Nat
      BY <1>1, <1>3, <2>1, TimeTyped, ChatAssumption
    <3>3. u = t \/ (turn'[u].seq = turn[u].seq /\ turn[u].seq < made /\ turn[u].seq \in Nat)
      BY <1>1, <1>3, <3>1, TimeTyped
    <3> QED BY <3>2, <3>3
  <2>2. CASE p # o
    <3>1. u # t /\ turn[u].obj = p /\ turn[u].st = "queued" /\ obj'[p] = obj[p] /\ Serving(p)
      BY <1>3, <2>2 DEF Serving
    <3>2. /\ obj[p].task # None /\ turn[obj[p].task].st = "queued"
          /\ turn[u].seq <= turn[obj[p].task].seq /\ obj[p].task \in Turns
      BY <1>1, <3>1, TaskTyped DEF LastInLine
    <3>3. obj[p].task # t
      BY <1>2, <3>2
    <3> QED BY <1>3, <3>1, <3>2, <3>3
  <2> QED BY <2>1, <2>2
<1>11. AgentMode'
  BY <1>1, <1>2, <1>3, ChatAssumption DEF AgentMode
<1>12. TurnMode'
  BY <1>1, <1>2, <1>3, ChatAssumption DEF TurnMode, TurnOwned
<1>13. Runs'
  BY <1>1, <1>2, <1>3, ChatAssumption DEF Runs, TurnOwned, TurnMode
<1>14. Switching'
  BY <1>1, <1>2, <1>3, ChatAssumption DEF Switching, TurnOwned, Owned, InHand, Stopping
<1>15. Flushed'
  BY <1>1, <1>2, <1>3, ChatAssumption DEF Flushed, At, Owned, InHand, Stopping
<1> QED BY <1>3, <1>4, <1>5, <1>6, <1>7, <1>8, <1>9, <1>10, <1>11, <1>12, <1>13, <1>14, <1>15 DEF ChatInv

(* A turn that gets the lock runs if the agent is up.                      *)
LEMMA TurnStartKeeps ==
  ASSUME ChatInv, NEW t \in Turns, TurnStart(t)
  PROVE  ChatInv'
<1> DEFINE o == turn[t].obj
<1>1. /\ ChatTyped /\ Owned /\ Held /\ Reading /\ TurnOwned /\ TaskOwned
      /\ LiveIs /\ LastInLine /\ AgentMode /\ TurnMode /\ Runs /\ Switching
      /\ Flushed
  BY DEF ChatInv
<1>2. /\ o \in Objs /\ o = turn[t].obj /\ turn[t].st = "queued" /\ obj[o].turnLock = None
      /\ \A u \in Turns : turn[u].st = "queued" /\ turn[u].obj = o => turn[t].seq <= turn[u].seq
  BY <1>1, ChatAssumption DEF TurnStart, TurnOwned, First
<1> HIDE DEF o
<1>3. /\ ChatTyped'
      /\ obj'[o].id = obj[o].id
      /\ obj'[o].mode = obj[o].mode
      /\ obj'[o].backend = obj[o].backend
      /\ obj'[o].lifecycle = obj[o].lifecycle
      /\ obj'[o].turnLock = t
      /\ obj'[o].task = obj[o].task
      /\ \A p \in Objs \ {o} : obj'[p] = obj[p]
      /\ turn'[t].st \in {"running", "cancelled"}
      /\ turn'[t].st = "running" => obj[o].backend \in Modes
      /\ turn'[t].obj = turn[t].obj
      /\ turn'[t].mode = turn[t].mode
      /\ turn'[t].seq = turn[t].seq
      /\ \A u \in Turns \ {t} : turn'[u] = turn[u]
      /\ live' = live
      /\ request' = request
      /\ made' = made
  <2> DEFINE e == [obj[o] EXCEPT !.turnLock = t]
  <2>1. e \in ObjSet
    <3>1. obj[o] \in ObjSet
      BY <1>1, <1>2 DEF ChatTyped, ReqSet
    <3> QED BY <1>2, <3>1, ChatAssumption DEF ObjSet, Modes
  <2>2. obj' = [obj EXCEPT ![o] = e]
    BY <1>2 DEF TurnStart, Mine
  <2>3. obj' \in [Objs -> ObjSet] /\ obj'[o] = e /\ \A p \in Objs \ {o} : obj'[p] = obj[p]
    <3> HIDE DEF e
    <3> QED BY <1>1, <1>2, <2>1, <2>2 DEF ChatTyped
  <2>4. /\ obj'[o].id = obj[o].id
        /\ obj'[o].mode = obj[o].mode
        /\ obj'[o].backend = obj[o].backend
        /\ obj'[o].lifecycle = obj[o].lifecycle
        /\ obj'[o].turnLock = t
        /\ obj'[o].task = obj[o].task
    <3>1. obj[o] \in ObjSet
      BY <1>1, <1>2 DEF ChatTyped
    <3> QED BY <2>3, <3>1 DEF ObjSet
  <2>5. /\ request' \in [Requests -> ReqSet]
    BY <1>1, <1>2, ChatAssumption DEF TurnStart, ChatTyped, ReqSet, Modes
  <2>6. /\ live' \in [Ids -> Objs \cup {None}]
        /\ made' \in Nat
    BY <1>1, <1>2, ChatAssumption DEF TurnStart, ChatTyped
  <2>7. /\ turn' \in [Turns -> TurnSet]
    BY <1>1, <1>2, ChatAssumption DEF TurnStart, ChatTyped, TurnSet
  <2>8. /\ request' = request
    BY <1>1, <1>2, ChatAssumption DEF TurnStart, ChatTyped, ReqSet
  <2>9. /\ turn'[t].st \in {"running", "cancelled"}
        /\ turn'[t].st = "running" => obj[o].backend \in Modes
        /\ turn'[t].obj = turn[t].obj
        /\ turn'[t].mode = turn[t].mode
        /\ turn'[t].seq = turn[t].seq
        /\ \A u \in Turns \ {t} : turn'[u] = turn[u]
        /\ live' = live
        /\ made' = made
    BY <1>1, <1>2, ChatAssumption DEF TurnStart, ChatTyped, TurnSet
  <2> HIDE DEF e
  <2> QED BY <2>3, <2>4, <2>5, <2>6, <2>7, <2>8, <2>9 DEF ChatTyped
<1>4. Owned'
  BY <1>1, <1>2, <1>3, ChatAssumption DEF Owned, InHand, Stopping
<1>5. Held'
  BY <1>1, <1>2, <1>3, LockTyped, ChatAssumption DEF Held, Owned, InHand, Stopping
<1>6. Reading'
  BY <1>1, <1>2, <1>3, ChatAssumption DEF Reading, InHand, Stopping
<1>7. TurnOwned'
  BY <1>1, <1>2, <1>3, TimeTyped, ChatAssumption DEF TurnOwned
<1>8. TaskOwned'
  BY <1>1, <1>2, <1>3, TaskTyped, ChatAssumption DEF TaskOwned, TurnOwned
<1>9. LiveIs'
  BY <1>1, <1>2, <1>3, LiveTyped, ChatAssumption DEF LiveIs
<1>10. LastInLine'
  <2> SUFFICES ASSUME NEW p \in Objs, NEW u \in Turns, Serving(p)', turn'[u].obj = p, turn'[u].st = "queued"
               PROVE  /\ obj'[p].task # None /\ turn'[obj'[p].task].st = "queued"
                      /\ turn'[u].seq <= turn'[obj'[p].task].seq
    BY DEF LastInLine
  <2>1. /\ obj'[p].task = obj[p].task /\ obj'[p].id = obj[p].id /\ obj'[p].lifecycle = obj[p].lifecycle
    BY <1>3
  <2>2. u # t /\ turn'[u] = turn[u] /\ Serving(p)
    BY <1>3, <2>1 DEF Serving
  <2>3. /\ obj[p].task # None /\ turn[obj[p].task].st = "queued"
        /\ turn[u].seq <= turn[obj[p].task].seq /\ obj[p].task \in Turns
    BY <1>1, <2>2, TaskTyped DEF LastInLine
  <2>4. obj[p].task # t
    <3>1. turn[obj[p].task].obj = p
      BY <1>1, <2>3 DEF TaskOwned
    <3>2. SUFFICES ASSUME obj[p].task = t  PROVE FALSE
      OBVIOUS
    <3>3. turn[t].seq <= turn[u].seq /\ turn[u].seq <= turn[t].seq
      BY <1>2, <2>2, <2>3, <3>1, <3>2
    <3>4. turn[t].seq # turn[u].seq
      BY <1>1, <1>2, <2>2 DEF TurnOwned
    <3> QED BY <1>1, <3>3, <3>4, TimeTyped
  <2> QED BY <1>3, <2>1, <2>2, <2>3, <2>4
<1>11. AgentMode'
  BY <1>1, <1>2, <1>3, ChatAssumption DEF AgentMode
<1>12. TurnMode'
  BY <1>1, <1>2, <1>3, ChatAssumption DEF TurnMode, TurnOwned
<1>13. Runs'
  <2> SUFFICES ASSUME NEW u \in Turns, turn'[u].st = "running"
               PROVE  obj'[turn'[u].obj].turnLock = u /\ obj'[turn'[u].obj].backend = turn'[u].mode
    BY DEF Runs
  <2>1. CASE u = t
    <3>1. obj[o].backend \in Modes /\ turn'[u].obj = o /\ turn'[u].mode = turn[t].mode
      BY <1>2, <1>3, <2>1
    <3>2. obj[o].backend = obj[o].mode
      BY <1>1, <1>2, <3>1 DEF AgentMode, Modes, None
    <3>3. turn[t].mode = obj[o].mode
      BY <1>1, <1>2 DEF TurnMode
    <3> QED BY <1>3, <2>1, <3>1, <3>2, <3>3
  <2>2. CASE u # t
    <3>1. turn'[u] = turn[u] /\ turn[u].obj \in Objs
      BY <1>1, <1>3, <2>2 DEF TurnOwned
    <3>2. obj[turn[u].obj].turnLock = u /\ obj[turn[u].obj].backend = turn[u].mode
      BY <1>1, <3>1 DEF Runs
    <3>3. turn[u].obj # o
      BY <1>2, <3>2, ChatAssumption
    <3> QED BY <1>3, <3>1, <3>2, <3>3
  <2> QED BY <2>1, <2>2
<1>14. Switching'
  BY <1>1, <1>2, <1>3, ChatAssumption DEF Switching, TurnOwned, Owned, InHand, Stopping
<1>15. Flushed'
  BY <1>1, <1>2, <1>3, ChatAssumption DEF Flushed, At, Owned, InHand, Stopping
<1> QED BY <1>3, <1>4, <1>5, <1>6, <1>7, <1>8, <1>9, <1>10, <1>11, <1>12, <1>13, <1>14, <1>15 DEF ChatInv

(* A turn that ends gives back its lock only.                              *)
LEMMA TurnEndsKeeps ==
  ASSUME ChatInv, NEW t \in Turns, TurnEnds(t)
  PROVE  ChatInv'
<1> DEFINE o == turn[t].obj
<1>1. /\ ChatTyped /\ Owned /\ Held /\ Reading /\ TurnOwned /\ TaskOwned
      /\ LiveIs /\ LastInLine /\ AgentMode /\ TurnMode /\ Runs /\ Switching
      /\ Flushed
  BY DEF ChatInv
<1>2. /\ o \in Objs /\ o = turn[t].obj /\ turn[t].st \in {"running", "cancelled"}
  BY <1>1, ChatAssumption DEF TurnEnds, TurnOwned
<1> HIDE DEF o
<1>3. /\ ChatTyped'
      /\ obj'[o].turnLock = IF obj[o].turnLock = t THEN None ELSE obj[o].turnLock
      /\ obj'[o].id = obj[o].id
      /\ obj'[o].mode = obj[o].mode
      /\ obj'[o].backend = obj[o].backend
      /\ obj'[o].lifecycle = obj[o].lifecycle
      /\ obj'[o].task = obj[o].task
      /\ \A p \in Objs \ {o} : obj'[p] = obj[p]
      /\ turn'[t].st = "done"
      /\ turn'[t].obj = turn[t].obj
      /\ turn'[t].mode = turn[t].mode
      /\ turn'[t].seq = turn[t].seq
      /\ \A u \in Turns \ {t} : turn'[u] = turn[u]
      /\ live' = live
      /\ request' = request
      /\ made' = made
  <2> DEFINE k == IF obj[o].turnLock = t THEN None ELSE obj[o].turnLock
  <2>1. k \in Requests \cup Turns \cup {None} /\ obj[o] \in ObjSet
    BY <1>1, <1>2 DEF ChatTyped, ObjSet
  <2>2. obj' = [obj EXCEPT ![o].turnLock = k] /\ turn' = [turn EXCEPT ![t].st = "done"]
        /\ live' = live /\ request' = request /\ made' = made
    BY <1>2 DEF TurnEnds
  <2> HIDE DEF k
  <2>3. /\ obj' \in [Objs -> ObjSet] /\ obj'[o] = [obj[o] EXCEPT !.turnLock = k]
        /\ \A p \in Objs \ {o} : obj'[p] = obj[p]
    <3>1. [obj[o] EXCEPT !.turnLock = k] \in ObjSet
      BY <2>1 DEF ObjSet
    <3> QED BY <1>1, <1>2, <2>2, <3>1 DEF ChatTyped
  <2>4. /\ turn' \in [Turns -> TurnSet] /\ turn'[t].st = "done" /\ turn'[t].obj = turn[t].obj
        /\ turn'[t].mode = turn[t].mode /\ turn'[t].seq = turn[t].seq
        /\ \A u \in Turns \ {t} : turn'[u] = turn[u]
    BY <1>1, <2>2 DEF ChatTyped, TurnSet
  <2>5. /\ obj'[o].id = obj[o].id /\ obj'[o].mode = obj[o].mode /\ obj'[o].backend = obj[o].backend
        /\ obj'[o].lifecycle = obj[o].lifecycle /\ obj'[o].turnLock = k /\ obj'[o].task = obj[o].task
    BY <2>1, <2>3 DEF ObjSet
  <2> QED BY <1>1, <2>2, <2>3, <2>4, <2>5 DEF ChatTyped, k
<1>4. Owned'
  BY <1>1, <1>2, <1>3, ChatAssumption DEF Owned, InHand, Stopping
<1>5. Held'
  BY <1>1, <1>2, <1>3, LockTyped, ChatAssumption DEF Held, Owned, InHand, Stopping
<1>6. Reading'
  BY <1>1, <1>2, <1>3, ChatAssumption DEF Reading, InHand, Stopping
<1>7. TurnOwned'
  BY <1>1, <1>2, <1>3, TimeTyped, ChatAssumption DEF TurnOwned
<1>8. TaskOwned'
  BY <1>1, <1>2, <1>3, TaskTyped, ChatAssumption DEF TaskOwned, TurnOwned
<1>9. LiveIs'
  BY <1>1, <1>2, <1>3, LiveTyped, ChatAssumption DEF LiveIs
<1>10. LastInLine'
  <2> SUFFICES ASSUME NEW p \in Objs, NEW u \in Turns, Serving(p)', turn'[u].obj = p, turn'[u].st = "queued"
               PROVE  /\ obj'[p].task # None /\ turn'[obj'[p].task].st = "queued"
                      /\ turn'[u].seq <= turn'[obj'[p].task].seq
    BY DEF LastInLine
  <2>1. /\ obj'[p].task = obj[p].task /\ obj'[p].id = obj[p].id /\ obj'[p].lifecycle = obj[p].lifecycle
    BY <1>3
  <2>2. u # t /\ turn'[u] = turn[u] /\ Serving(p)
    BY <1>3, <2>1 DEF Serving
  <2>3. /\ obj[p].task # None /\ turn[obj[p].task].st = "queued"
        /\ turn[u].seq <= turn[obj[p].task].seq /\ obj[p].task \in Turns
    BY <1>1, <2>2, TaskTyped DEF LastInLine
  <2>4. obj[p].task # t
    BY <1>2, <2>3
  <2> QED BY <1>3, <2>1, <2>2, <2>3, <2>4
<1>11. AgentMode'
  BY <1>1, <1>2, <1>3, ChatAssumption DEF AgentMode
<1>12. TurnMode'
  BY <1>1, <1>2, <1>3, ChatAssumption DEF TurnMode, TurnOwned
<1>13. Runs'
  BY <1>1, <1>2, <1>3, ChatAssumption DEF Runs, TurnOwned, TurnMode
<1>14. Switching'
  BY <1>1, <1>2, <1>3, ChatAssumption DEF Switching, TurnOwned, Owned, InHand, Stopping
<1>15. Flushed'
  BY <1>1, <1>2, <1>3, ChatAssumption DEF Flushed, At, Owned, InHand, Stopping
<1> QED BY <1>3, <1>4, <1>5, <1>6, <1>7, <1>8, <1>9, <1>10, <1>11, <1>12, <1>13, <1>14, <1>15 DEF ChatInv

(* A session changes its mode only when no turn waits or runs.             *)
LEMMA SetModeKeeps ==
  ASSUME ChatInv, NEW r \in Requests, NEW id \in Ids, NEW m \in Modes, SetMode(r, id, m)
  PROVE  ChatInv'
<1> DEFINE o == live[id]
<1>1. /\ ChatTyped /\ Owned /\ Held /\ Reading /\ TurnOwned /\ TaskOwned
      /\ LiveIs /\ LastInLine /\ AgentMode /\ TurnMode /\ Runs /\ Switching
      /\ Flushed
  BY DEF ChatInv
<1>2. /\ request[r].pc = "idle"
      /\ o \in Objs /\ o = live[id] /\ obj[o].id = id /\ obj[o].lifecycle = None /\ obj[o].turnLock = None
      /\ obj[o].task # None => turn[obj[o].task].st = "done"
  BY <1>1, ChatAssumption DEF SetMode, Idle, At, LiveIs, ChatTyped, MaySwitch, TurnPending
<1> HIDE DEF o
<1>3. /\ ChatTyped'
      /\ obj'[o].id = obj[o].id
      /\ obj'[o].mode = obj[o].mode
      /\ obj'[o].backend = obj[o].backend
      /\ obj'[o].lifecycle = r
      /\ obj'[o].turnLock = r
      /\ obj'[o].task = obj[o].task
      /\ \A p \in Objs \ {o} : obj'[p] = obj[p]
      /\ request'[r].pc = "old_stop"
      /\ request'[r].id = id
      /\ request'[r].obj = o
      /\ request'[r].mode = m
      /\ \A q \in Requests \ {r} : request'[q] = request[q]
      /\ live' = live
      /\ turn' = turn
      /\ made' = made + 1
  <2> DEFINE e == [obj[o] EXCEPT !.lifecycle = r, !.turnLock = r]
  <2>1. e \in ObjSet
    <3>1. obj[o] \in ObjSet
      BY <1>1, <1>2 DEF ChatTyped, ReqSet
    <3> QED BY <1>2, <3>1, ChatAssumption DEF ObjSet, Modes
  <2>2. obj' = [obj EXCEPT ![o] = e]
    BY <1>2 DEF SetMode, Mine
  <2>3. obj' \in [Objs -> ObjSet] /\ obj'[o] = e /\ \A p \in Objs \ {o} : obj'[p] = obj[p]
    <3> HIDE DEF e
    <3> QED BY <1>1, <1>2, <2>1, <2>2 DEF ChatTyped
  <2>4. /\ obj'[o].id = obj[o].id
        /\ obj'[o].mode = obj[o].mode
        /\ obj'[o].backend = obj[o].backend
        /\ obj'[o].lifecycle = r
        /\ obj'[o].turnLock = r
        /\ obj'[o].task = obj[o].task
    <3>1. obj[o] \in ObjSet
      BY <1>1, <1>2 DEF ChatTyped
    <3> QED BY <2>3, <3>1 DEF ObjSet
  <2>5. /\ request' \in [Requests -> ReqSet]
    BY <1>1, <1>2, ChatAssumption DEF SetMode, InHand, ChatTyped, ReqSet, Modes
  <2>6. /\ live' \in [Ids -> Objs \cup {None}]
        /\ made' \in Nat
    BY <1>1, <1>2, ChatAssumption DEF SetMode, InHand, ChatTyped
  <2>7. /\ turn' \in [Turns -> TurnSet]
    BY <1>1, <1>2, ChatAssumption DEF SetMode, InHand, ChatTyped, TurnSet
  <2>8. /\ request'[r].pc = "old_stop"
        /\ request'[r].id = id
        /\ request'[r].obj = o
        /\ request'[r].mode = m
        /\ \A q \in Requests \ {r} : request'[q] = request[q]
    BY <1>1, <1>2, ChatAssumption DEF SetMode, InHand, ChatTyped, ReqSet
  <2>9. /\ live' = live
        /\ turn' = turn
        /\ made' = made + 1
    BY <1>1, <1>2, ChatAssumption DEF SetMode, InHand, ChatTyped, TurnSet
  <2> HIDE DEF e
  <2> QED BY <2>3, <2>4, <2>5, <2>6, <2>7, <2>8, <2>9 DEF ChatTyped
<1>4. Owned'
  BY <1>1, <1>2, <1>3, ChatAssumption DEF Owned, InHand, Stopping
<1>5. Held'
  BY <1>1, <1>2, <1>3, LockTyped, ChatAssumption DEF Held, Owned, InHand, Stopping
<1>6. Reading'
  BY <1>1, <1>2, <1>3, ChatAssumption DEF Reading, InHand, Stopping
<1>7. TurnOwned'
  BY <1>1, <1>2, <1>3, TimeTyped, ChatAssumption DEF TurnOwned
<1>8. TaskOwned'
  BY <1>1, <1>2, <1>3, TaskTyped, ChatAssumption DEF TaskOwned, TurnOwned
<1>9. LiveIs'
  BY <1>1, <1>2, <1>3, LiveTyped, ChatAssumption DEF LiveIs
<1>10. LastInLine'
  BY <1>1, <1>2, <1>3, LockTyped, LiveTyped, ChatAssumption DEF LastInLine, Serving, Stopping
<1>11. AgentMode'
  BY <1>1, <1>2, <1>3, ChatAssumption DEF AgentMode
<1>12. TurnMode'
  BY <1>1, <1>2, <1>3, ChatAssumption DEF TurnMode, TurnOwned
<1>13. Runs'
  BY <1>1, <1>2, <1>3, ChatAssumption DEF Runs, TurnOwned, TurnMode
<1>14. Switching'
  <2>1. \A u \in Turns : turn[u].obj = o => turn[u].st # "queued"
    <3>1. Serving(o)
      BY <1>1, <1>2, ChatAssumption DEF Serving
    <3> QED BY <1>1, <1>2, <3>1 DEF LastInLine
  <2>2. \A q \in Requests \ {r} : request[q].pc \in InHand => request[q].obj # o /\ request[q].obj \in Objs
    BY <1>1, <1>2, ChatAssumption DEF Owned
  <2> QED BY <1>1, <1>3, <2>1, <2>2 DEF Switching, InHand
<1>15. Flushed'
  BY <1>1, <1>2, <1>3, ChatAssumption DEF Flushed, At, Owned, InHand, Stopping
<1> QED BY <1>3, <1>4, <1>5, <1>6, <1>7, <1>8, <1>9, <1>10, <1>11, <1>12, <1>13, <1>14, <1>15 DEF ChatInv

(* The old agent is gone, and the session has the new mode.                *)
LEMMA OldStoppedKeeps ==
  ASSUME ChatInv, NEW r \in Requests, OldBackendStopped(r)
  PROVE  ChatInv'
<1> DEFINE o == request[r].obj
<1>1. /\ ChatTyped /\ Owned /\ Held /\ Reading /\ TurnOwned /\ TaskOwned
      /\ LiveIs /\ LastInLine /\ AgentMode /\ TurnMode /\ Runs /\ Switching
      /\ Flushed
  BY DEF ChatInv
<1>2. /\ request[r].pc = "old_stop"
      /\ o \in Objs /\ o = request[r].obj /\ obj[o].lifecycle = r /\ obj[o].id \in Ids
      /\ obj[o].id = request[r].id
  BY <1>1, ChatAssumption DEF OldBackendStopped, At, Owned, InHand
<1> HIDE DEF o
<1>3. /\ ChatTyped'
      /\ obj'[o].id = obj[o].id
      /\ obj'[o].mode = request[r].mode
      /\ obj'[o].backend = None
      /\ obj'[o].lifecycle = obj[o].lifecycle
      /\ obj'[o].turnLock = obj[o].turnLock
      /\ obj'[o].task = obj[o].task
      /\ \A p \in Objs \ {o} : obj'[p] = obj[p]
      /\ request'[r].pc = "rebuild"
      /\ request'[r].id = request[r].id
      /\ request'[r].obj = request[r].obj
      /\ request'[r].mode = request[r].mode
      /\ \A q \in Requests \ {r} : request'[q] = request[q]
      /\ live' = live
      /\ turn' = turn
      /\ made' = made
  <2> DEFINE e == [obj[o] EXCEPT !.mode = request[r].mode, !.backend = None]
  <2>1. e \in ObjSet
    <3>1. obj[o] \in ObjSet /\ request[r].mode \in Modes
      BY <1>1, <1>2 DEF ChatTyped, ReqSet
    <3> QED BY <1>2, <3>1, ChatAssumption DEF ObjSet, Modes
  <2>2. obj' = [obj EXCEPT ![o] = e]
    BY <1>2 DEF OldBackendStopped, Mine
  <2>3. obj' \in [Objs -> ObjSet] /\ obj'[o] = e /\ \A p \in Objs \ {o} : obj'[p] = obj[p]
    <3> HIDE DEF e
    <3> QED BY <1>1, <1>2, <2>1, <2>2 DEF ChatTyped
  <2>4. /\ obj'[o].id = obj[o].id
        /\ obj'[o].mode = request[r].mode
        /\ obj'[o].backend = None
        /\ obj'[o].lifecycle = obj[o].lifecycle
        /\ obj'[o].turnLock = obj[o].turnLock
        /\ obj'[o].task = obj[o].task
    <3>1. obj[o] \in ObjSet
      BY <1>1, <1>2 DEF ChatTyped
    <3> QED BY <2>3, <3>1 DEF ObjSet
  <2>5. /\ request' \in [Requests -> ReqSet]
    BY <1>1, <1>2, ChatAssumption DEF OldBackendStopped, Goto, InHand, ChatTyped, ReqSet, Modes
  <2>6. /\ live' \in [Ids -> Objs \cup {None}]
        /\ made' \in Nat
    BY <1>1, <1>2, ChatAssumption DEF OldBackendStopped, Goto, InHand, ChatTyped
  <2>7. /\ turn' \in [Turns -> TurnSet]
    BY <1>1, <1>2, ChatAssumption DEF OldBackendStopped, Goto, InHand, ChatTyped, TurnSet
  <2>8. /\ request'[r].pc = "rebuild"
        /\ request'[r].id = request[r].id
        /\ request'[r].obj = request[r].obj
        /\ request'[r].mode = request[r].mode
        /\ \A q \in Requests \ {r} : request'[q] = request[q]
    BY <1>1, <1>2, ChatAssumption DEF OldBackendStopped, Goto, InHand, ChatTyped, ReqSet
  <2>9. /\ live' = live
        /\ turn' = turn
        /\ made' = made
    BY <1>1, <1>2, ChatAssumption DEF OldBackendStopped, Goto, InHand, ChatTyped, TurnSet
  <2> HIDE DEF e
  <2> QED BY <2>3, <2>4, <2>5, <2>6, <2>7, <2>8, <2>9 DEF ChatTyped
<1>4. Owned'
  BY <1>1, <1>2, <1>3, ChatAssumption DEF Owned, InHand, Stopping
<1>5. Held'
  BY <1>1, <1>2, <1>3, LockTyped, ChatAssumption DEF Held, Owned, InHand, Stopping
<1>6. Reading'
  BY <1>1, <1>2, <1>3, ChatAssumption DEF Reading, InHand, Stopping
<1>7. TurnOwned'
  BY <1>1, <1>2, <1>3, TimeTyped, ChatAssumption DEF TurnOwned
<1>8. TaskOwned'
  BY <1>1, <1>2, <1>3, TaskTyped, ChatAssumption DEF TaskOwned, TurnOwned
<1>9. LiveIs'
  BY <1>1, <1>2, <1>3, LiveTyped, ChatAssumption DEF LiveIs
<1>10. LastInLine'
  BY <1>1, <1>2, <1>3, LockTyped, LiveTyped, ChatAssumption DEF LastInLine, Serving, Stopping
<1>11. AgentMode'
  BY <1>1, <1>2, <1>3, ChatAssumption DEF AgentMode
<1>12. TurnMode'
  <2>1. \A u \in Turns : turn[u].st \in {"queued", "running"} => turn[u].obj # o /\ turn[u].obj \in Objs
    BY <1>1, <1>2, ChatAssumption DEF Runs, Switching, TurnOwned
  <2> QED BY <1>1, <1>3, <2>1 DEF TurnMode
<1>13. Runs'
  <2>1. \A u \in Turns : turn[u].st = "running" => turn[u].obj # o /\ turn[u].obj \in Objs
    BY <1>1, <1>2, ChatAssumption DEF Runs, Switching, TurnOwned
  <2> QED BY <1>1, <1>3, <2>1 DEF Runs
<1>14. Switching'
  BY <1>1, <1>2, <1>3, ChatAssumption DEF Switching, TurnOwned, Owned, InHand, Stopping
<1>15. Flushed'
  BY <1>1, <1>2, <1>3, ChatAssumption DEF Flushed, At, Owned, InHand, Stopping
<1> QED BY <1>3, <1>4, <1>5, <1>6, <1>7, <1>8, <1>9, <1>10, <1>11, <1>12, <1>13, <1>14, <1>15 DEF ChatInv

(* The new agent is of the new mode.                                       *)
LEMMA RebuiltKeeps ==
  ASSUME ChatInv, NEW r \in Requests, Rebuilt(r)
  PROVE  ChatInv'
<1> DEFINE o == request[r].obj
<1>1. /\ ChatTyped /\ Owned /\ Held /\ Reading /\ TurnOwned /\ TaskOwned
      /\ LiveIs /\ LastInLine /\ AgentMode /\ TurnMode /\ Runs /\ Switching
      /\ Flushed
  BY DEF ChatInv
<1>2. /\ request[r].pc = "rebuild"
      /\ o \in Objs /\ o = request[r].obj /\ obj[o].lifecycle = r /\ obj[o].id \in Ids
      /\ obj[o].id = request[r].id
  BY <1>1, ChatAssumption DEF Rebuilt, At, Owned, InHand
<1> HIDE DEF o
<1>3. /\ ChatTyped'
      /\ obj'[o].id = obj[o].id
      /\ obj'[o].mode = obj[o].mode
      /\ obj'[o].backend = obj[o].mode
      /\ obj'[o].lifecycle = None
      /\ obj'[o].turnLock = None
      /\ obj'[o].task = obj[o].task
      /\ \A p \in Objs \ {o} : obj'[p] = obj[p]
      /\ request'[r].pc = "idle"
      /\ request'[r].id = request[r].id
      /\ request'[r].obj = request[r].obj
      /\ request'[r].mode = request[r].mode
      /\ \A q \in Requests \ {r} : request'[q] = request[q]
      /\ live' = live
      /\ turn' = turn
      /\ made' = made
  <2> DEFINE e == [obj[o] EXCEPT !.backend = obj[o].mode, !.turnLock = None, !.lifecycle = None]
  <2>1. e \in ObjSet
    <3>1. obj[o] \in ObjSet
      BY <1>1, <1>2 DEF ChatTyped, ReqSet
    <3> QED BY <1>2, <3>1, ChatAssumption DEF ObjSet, Modes
  <2>2. obj' = [obj EXCEPT ![o] = e]
    BY <1>2 DEF Rebuilt, Mine
  <2>3. obj' \in [Objs -> ObjSet] /\ obj'[o] = e /\ \A p \in Objs \ {o} : obj'[p] = obj[p]
    <3> HIDE DEF e
    <3> QED BY <1>1, <1>2, <2>1, <2>2 DEF ChatTyped
  <2>4. /\ obj'[o].id = obj[o].id
        /\ obj'[o].mode = obj[o].mode
        /\ obj'[o].backend = obj[o].mode
        /\ obj'[o].lifecycle = None
        /\ obj'[o].turnLock = None
        /\ obj'[o].task = obj[o].task
    <3>1. obj[o] \in ObjSet
      BY <1>1, <1>2 DEF ChatTyped
    <3> QED BY <2>3, <3>1 DEF ObjSet
  <2>5. /\ request' \in [Requests -> ReqSet]
    BY <1>1, <1>2, ChatAssumption DEF Rebuilt, Goto, Mine, ChatTyped, ReqSet, Modes
  <2>6. /\ live' \in [Ids -> Objs \cup {None}]
        /\ made' \in Nat
    BY <1>1, <1>2, ChatAssumption DEF Rebuilt, Goto, Mine, ChatTyped
  <2>7. /\ turn' \in [Turns -> TurnSet]
    BY <1>1, <1>2, ChatAssumption DEF Rebuilt, Goto, Mine, ChatTyped, TurnSet
  <2>8. /\ request'[r].pc = "idle"
        /\ request'[r].id = request[r].id
        /\ request'[r].obj = request[r].obj
        /\ request'[r].mode = request[r].mode
        /\ \A q \in Requests \ {r} : request'[q] = request[q]
    BY <1>1, <1>2, ChatAssumption DEF Rebuilt, Goto, Mine, ChatTyped, ReqSet
  <2>9. /\ live' = live
        /\ turn' = turn
        /\ made' = made
    BY <1>1, <1>2, ChatAssumption DEF Rebuilt, Goto, Mine, ChatTyped, TurnSet
  <2> HIDE DEF e
  <2> QED BY <2>3, <2>4, <2>5, <2>6, <2>7, <2>8, <2>9 DEF ChatTyped
<1>4. Owned'
  BY <1>1, <1>2, <1>3, ChatAssumption DEF Owned, InHand, Stopping
<1>5. Held'
  BY <1>1, <1>2, <1>3, LockTyped, ChatAssumption DEF Held, Owned, InHand, Stopping
<1>6. Reading'
  BY <1>1, <1>2, <1>3, ChatAssumption DEF Reading, InHand, Stopping
<1>7. TurnOwned'
  BY <1>1, <1>2, <1>3, TimeTyped, ChatAssumption DEF TurnOwned
<1>8. TaskOwned'
  BY <1>1, <1>2, <1>3, TaskTyped, ChatAssumption DEF TaskOwned, TurnOwned
<1>9. LiveIs'
  BY <1>1, <1>2, <1>3, LiveTyped, ChatAssumption DEF LiveIs
<1>10. LastInLine'
  BY <1>1, <1>2, <1>3, LockTyped, LiveTyped, ChatAssumption DEF LastInLine, Serving, Stopping
<1>11. AgentMode'
  BY <1>1, <1>2, <1>3, ChatAssumption DEF AgentMode
<1>12. TurnMode'
  BY <1>1, <1>2, <1>3, ChatAssumption DEF TurnMode, TurnOwned
<1>13. Runs'
  <2>1. \A u \in Turns : turn[u].st = "running" => turn[u].obj # o /\ turn[u].obj \in Objs
    BY <1>1, <1>2, ChatAssumption DEF Runs, Switching, TurnOwned
  <2> QED BY <1>1, <1>3, <2>1 DEF Runs
<1>14. Switching'
  BY <1>1, <1>2, <1>3, ChatAssumption DEF Switching, TurnOwned, Owned, InHand, Stopping
<1>15. Flushed'
  BY <1>1, <1>2, <1>3, ChatAssumption DEF Flushed, At, Owned, InHand, Stopping
<1> QED BY <1>3, <1>4, <1>5, <1>6, <1>7, <1>8, <1>9, <1>10, <1>11, <1>12, <1>13, <1>14, <1>15 DEF ChatInv

(* A session that cannot be rebuilt is forgotten.                          *)
LEMMA RebuildFailsKeeps ==
  ASSUME ChatInv, NEW r \in Requests, RebuildFails(r)
  PROVE  ChatInv'
<1> DEFINE o == request[r].obj
<1>1. /\ ChatTyped /\ Owned /\ Held /\ Reading /\ TurnOwned /\ TaskOwned
      /\ LiveIs /\ LastInLine /\ AgentMode /\ TurnMode /\ Runs /\ Switching
      /\ Flushed
  BY DEF ChatInv
<1>2. /\ request[r].pc = "rebuild"
      /\ o \in Objs /\ o = request[r].obj /\ obj[o].lifecycle = r /\ obj[o].id \in Ids
      /\ obj[o].id = request[r].id
  BY <1>1, ChatAssumption DEF RebuildFails, At, Owned, InHand
<1> HIDE DEF o
<1>3. /\ ChatTyped'
      /\ obj'[o].id = obj[o].id
      /\ obj'[o].mode = obj[o].mode
      /\ obj'[o].backend = obj[o].backend
      /\ obj'[o].lifecycle = None
      /\ obj'[o].turnLock = None
      /\ obj'[o].task = obj[o].task
      /\ \A p \in Objs \ {o} : obj'[p] = obj[p]
      /\ request'[r].pc = "idle"
      /\ request'[r].id = request[r].id
      /\ request'[r].obj = request[r].obj
      /\ request'[r].mode = request[r].mode
      /\ \A q \in Requests \ {r} : request'[q] = request[q]
      /\ live'[obj[o].id] = None
      /\ \A i \in Ids \ {obj[o].id} : live'[i] = live[i]
      /\ turn' = turn
      /\ made' = made
  <2> DEFINE e == [obj[o] EXCEPT !.turnLock = None, !.lifecycle = None]
  <2>1. e \in ObjSet
    <3>1. obj[o] \in ObjSet
      BY <1>1, <1>2 DEF ChatTyped, ReqSet
    <3> QED BY <1>2, <3>1, ChatAssumption DEF ObjSet, Modes
  <2>2. obj' = [obj EXCEPT ![o] = e]
    BY <1>2 DEF RebuildFails, Mine
  <2>3. obj' \in [Objs -> ObjSet] /\ obj'[o] = e /\ \A p \in Objs \ {o} : obj'[p] = obj[p]
    <3> HIDE DEF e
    <3> QED BY <1>1, <1>2, <2>1, <2>2 DEF ChatTyped
  <2>4. /\ obj'[o].id = obj[o].id
        /\ obj'[o].mode = obj[o].mode
        /\ obj'[o].backend = obj[o].backend
        /\ obj'[o].lifecycle = None
        /\ obj'[o].turnLock = None
        /\ obj'[o].task = obj[o].task
    <3>1. obj[o] \in ObjSet
      BY <1>1, <1>2 DEF ChatTyped
    <3> QED BY <2>3, <3>1 DEF ObjSet
  <2>5. /\ request' \in [Requests -> ReqSet]
    BY <1>1, <1>2, ChatAssumption DEF RebuildFails, Goto, Forget, ChatTyped, ReqSet, Modes
  <2>6. /\ live' \in [Ids -> Objs \cup {None}]
        /\ made' \in Nat
    BY <1>1, <1>2, ChatAssumption DEF RebuildFails, Goto, Forget, ChatTyped
  <2>7. /\ turn' \in [Turns -> TurnSet]
    BY <1>1, <1>2, ChatAssumption DEF RebuildFails, Goto, Forget, ChatTyped, TurnSet
  <2>8. /\ request'[r].pc = "idle"
        /\ request'[r].id = request[r].id
        /\ request'[r].obj = request[r].obj
        /\ request'[r].mode = request[r].mode
        /\ \A q \in Requests \ {r} : request'[q] = request[q]
    BY <1>1, <1>2, ChatAssumption DEF RebuildFails, Goto, Forget, ChatTyped, ReqSet
  <2>9. /\ live'[obj[o].id] = None
        /\ \A i \in Ids \ {obj[o].id} : live'[i] = live[i]
        /\ turn' = turn
        /\ made' = made
    BY <1>1, <1>2, ChatAssumption DEF RebuildFails, Goto, Forget, ChatTyped, TurnSet
  <2> HIDE DEF e
  <2> QED BY <2>3, <2>4, <2>5, <2>6, <2>7, <2>8, <2>9 DEF ChatTyped
<1>4. Owned'
  BY <1>1, <1>2, <1>3, ChatAssumption DEF Owned, InHand, Stopping
<1>5. Held'
  BY <1>1, <1>2, <1>3, LockTyped, ChatAssumption DEF Held, Owned, InHand, Stopping
<1>6. Reading'
  BY <1>1, <1>2, <1>3, ChatAssumption DEF Reading, InHand, Stopping
<1>7. TurnOwned'
  BY <1>1, <1>2, <1>3, TimeTyped, ChatAssumption DEF TurnOwned
<1>8. TaskOwned'
  BY <1>1, <1>2, <1>3, TaskTyped, ChatAssumption DEF TaskOwned, TurnOwned
<1>9. LiveIs'
  BY <1>1, <1>2, <1>3, LiveTyped, ChatAssumption DEF LiveIs
<1>10. LastInLine'
  BY <1>1, <1>2, <1>3, LockTyped, LiveTyped, ChatAssumption DEF LastInLine, Serving, Stopping
<1>11. AgentMode'
  BY <1>1, <1>2, <1>3, ChatAssumption DEF AgentMode
<1>12. TurnMode'
  BY <1>1, <1>2, <1>3, ChatAssumption DEF TurnMode, TurnOwned
<1>13. Runs'
  <2>1. \A u \in Turns : turn[u].st = "running" => turn[u].obj # o /\ turn[u].obj \in Objs
    BY <1>1, <1>2, ChatAssumption DEF Runs, Switching, TurnOwned
  <2> QED BY <1>1, <1>3, <2>1 DEF Runs
<1>14. Switching'
  BY <1>1, <1>2, <1>3, ChatAssumption DEF Switching, TurnOwned, Owned, InHand, Stopping
<1>15. Flushed'
  BY <1>1, <1>2, <1>3, ChatAssumption DEF Flushed, At, Owned, InHand, Stopping
<1> QED BY <1>3, <1>4, <1>5, <1>6, <1>7, <1>8, <1>9, <1>10, <1>11, <1>12, <1>13, <1>14, <1>15 DEF ChatInv

(* The awaited task is over.                                               *)
LEMMA AwaitTurnKeeps ==
  ASSUME ChatInv, NEW r \in Requests, AwaitTurn(r)
  PROVE  ChatInv'
<1> DEFINE o == request[r].obj
<1>1. /\ ChatTyped /\ Owned /\ Held /\ Reading /\ TurnOwned /\ TaskOwned
      /\ LiveIs /\ LastInLine /\ AgentMode /\ TurnMode /\ Runs /\ Switching
      /\ Flushed
  BY DEF ChatInv
<1>2. /\ request[r].pc = "cancelled"
      /\ o \in Objs /\ o = request[r].obj /\ obj[o].lifecycle = r /\ obj[o].id \in Ids
      /\ obj[o].id = request[r].id
  BY <1>1, ChatAssumption DEF AwaitTurn, At, Owned, InHand, Stopping
<1> HIDE DEF o
<1>3. /\ ChatTyped'
      /\ obj'[o].id = obj[o].id
      /\ obj'[o].mode = obj[o].mode
      /\ obj'[o].backend = obj[o].backend
      /\ obj'[o].lifecycle = obj[o].lifecycle
      /\ obj'[o].turnLock = obj[o].turnLock
      /\ obj'[o].task = None
      /\ \A p \in Objs \ {o} : obj'[p] = obj[p]
      /\ request'[r].pc = "stop_backend"
      /\ request'[r].id = request[r].id
      /\ request'[r].obj = request[r].obj
      /\ request'[r].mode = request[r].mode
      /\ \A q \in Requests \ {r} : request'[q] = request[q]
      /\ live' = live
      /\ turn' = turn
      /\ made' = made
  <2> DEFINE e == [obj[o] EXCEPT !.task = None]
  <2>1. e \in ObjSet
    <3>1. obj[o] \in ObjSet
      BY <1>1, <1>2 DEF ChatTyped, ReqSet
    <3> QED BY <1>2, <3>1, ChatAssumption DEF ObjSet, Modes
  <2>2. obj' = [obj EXCEPT ![o] = e]
    BY <1>2 DEF AwaitTurn, Mine
  <2>3. obj' \in [Objs -> ObjSet] /\ obj'[o] = e /\ \A p \in Objs \ {o} : obj'[p] = obj[p]
    <3> HIDE DEF e
    <3> QED BY <1>1, <1>2, <2>1, <2>2 DEF ChatTyped
  <2>4. /\ obj'[o].id = obj[o].id
        /\ obj'[o].mode = obj[o].mode
        /\ obj'[o].backend = obj[o].backend
        /\ obj'[o].lifecycle = obj[o].lifecycle
        /\ obj'[o].turnLock = obj[o].turnLock
        /\ obj'[o].task = None
    <3>1. obj[o] \in ObjSet
      BY <1>1, <1>2 DEF ChatTyped
    <3> QED BY <2>3, <3>1 DEF ObjSet
  <2>5. /\ request' \in [Requests -> ReqSet]
    BY <1>1, <1>2, ChatAssumption DEF AwaitTurn, Goto, InHand, Stopping, ChatTyped, ReqSet, Modes
  <2>6. /\ live' \in [Ids -> Objs \cup {None}]
        /\ made' \in Nat
    BY <1>1, <1>2, ChatAssumption DEF AwaitTurn, Goto, InHand, Stopping, ChatTyped
  <2>7. /\ turn' \in [Turns -> TurnSet]
    BY <1>1, <1>2, ChatAssumption DEF AwaitTurn, Goto, InHand, Stopping, ChatTyped, TurnSet
  <2>8. /\ request'[r].pc = "stop_backend"
        /\ request'[r].id = request[r].id
        /\ request'[r].obj = request[r].obj
        /\ request'[r].mode = request[r].mode
        /\ \A q \in Requests \ {r} : request'[q] = request[q]
    BY <1>1, <1>2, ChatAssumption DEF AwaitTurn, Goto, InHand, Stopping, ChatTyped, ReqSet
  <2>9. /\ live' = live
        /\ turn' = turn
        /\ made' = made
    BY <1>1, <1>2, ChatAssumption DEF AwaitTurn, Goto, InHand, Stopping, ChatTyped, TurnSet
  <2> HIDE DEF e
  <2> QED BY <2>3, <2>4, <2>5, <2>6, <2>7, <2>8, <2>9 DEF ChatTyped
<1>4. Owned'
  BY <1>1, <1>2, <1>3, ChatAssumption DEF Owned, InHand, Stopping
<1>5. Held'
  BY <1>1, <1>2, <1>3, LockTyped, ChatAssumption DEF Held, Owned, InHand, Stopping
<1>6. Reading'
  BY <1>1, <1>2, <1>3, ChatAssumption DEF Reading, InHand, Stopping
<1>7. TurnOwned'
  BY <1>1, <1>2, <1>3, TimeTyped, ChatAssumption DEF TurnOwned
<1>8. TaskOwned'
  BY <1>1, <1>2, <1>3, TaskTyped, ChatAssumption DEF TaskOwned, TurnOwned
<1>9. LiveIs'
  BY <1>1, <1>2, <1>3, LiveTyped, ChatAssumption DEF LiveIs
<1>10. LastInLine'
  BY <1>1, <1>2, <1>3, LockTyped, LiveTyped, ChatAssumption DEF LastInLine, Serving, Stopping
<1>11. AgentMode'
  BY <1>1, <1>2, <1>3, ChatAssumption DEF AgentMode
<1>12. TurnMode'
  BY <1>1, <1>2, <1>3, ChatAssumption DEF TurnMode, TurnOwned
<1>13. Runs'
  BY <1>1, <1>2, <1>3, ChatAssumption DEF Runs, TurnOwned, TurnMode
<1>14. Switching'
  BY <1>1, <1>2, <1>3, ChatAssumption DEF Switching, TurnOwned, Owned, InHand, Stopping
<1>15. Flushed'
  BY <1>1, <1>2, <1>3, ChatAssumption DEF Flushed, At, Owned, InHand, Stopping
<1> QED BY <1>3, <1>4, <1>5, <1>6, <1>7, <1>8, <1>9, <1>10, <1>11, <1>12, <1>13, <1>14, <1>15 DEF ChatInv

(* A stopped session is forgotten.                                         *)
LEMMA ForgetKeeps ==
  ASSUME ChatInv, NEW r \in Requests, ForgetSession(r)
  PROVE  ChatInv'
<1> DEFINE o == request[r].obj
<1>1. /\ ChatTyped /\ Owned /\ Held /\ Reading /\ TurnOwned /\ TaskOwned
      /\ LiveIs /\ LastInLine /\ AgentMode /\ TurnMode /\ Runs /\ Switching
      /\ Flushed
  BY DEF ChatInv
<1>2. /\ request[r].pc = "flush"
      /\ o \in Objs /\ o = request[r].obj /\ obj[o].lifecycle = r /\ obj[o].id \in Ids
      /\ obj[o].id = request[r].id
  BY <1>1, ChatAssumption DEF ForgetSession, At, Owned, InHand, Stopping
<1> HIDE DEF o
<1>3. /\ ChatTyped'
      /\ obj'[o].id = obj[o].id
      /\ obj'[o].mode = obj[o].mode
      /\ obj'[o].backend = obj[o].backend
      /\ obj'[o].lifecycle = None
      /\ obj'[o].turnLock = obj[o].turnLock
      /\ obj'[o].task = obj[o].task
      /\ \A p \in Objs \ {o} : obj'[p] = obj[p]
      /\ request'[r].pc = "idle"
      /\ request'[r].id = request[r].id
      /\ request'[r].obj = request[r].obj
      /\ request'[r].mode = request[r].mode
      /\ \A q \in Requests \ {r} : request'[q] = request[q]
      /\ live'[obj[o].id] = None
      /\ \A i \in Ids \ {obj[o].id} : live'[i] = live[i]
      /\ turn' = turn
      /\ made' = made
  <2> DEFINE e == [obj[o] EXCEPT !.lifecycle = None]
  <2>1. e \in ObjSet
    <3>1. obj[o] \in ObjSet
      BY <1>1, <1>2 DEF ChatTyped, ReqSet
    <3> QED BY <1>2, <3>1, ChatAssumption DEF ObjSet, Modes
  <2>2. obj' = [obj EXCEPT ![o] = e]
    BY <1>2 DEF ForgetSession, Mine
  <2>3. obj' \in [Objs -> ObjSet] /\ obj'[o] = e /\ \A p \in Objs \ {o} : obj'[p] = obj[p]
    <3> HIDE DEF e
    <3> QED BY <1>1, <1>2, <2>1, <2>2 DEF ChatTyped
  <2>4. /\ obj'[o].id = obj[o].id
        /\ obj'[o].mode = obj[o].mode
        /\ obj'[o].backend = obj[o].backend
        /\ obj'[o].lifecycle = None
        /\ obj'[o].turnLock = obj[o].turnLock
        /\ obj'[o].task = obj[o].task
    <3>1. obj[o] \in ObjSet
      BY <1>1, <1>2 DEF ChatTyped
    <3> QED BY <2>3, <3>1 DEF ObjSet
  <2>5. /\ request' \in [Requests -> ReqSet]
    BY <1>1, <1>2, ChatAssumption DEF ForgetSession, Goto, Forget, ChatTyped, ReqSet, Modes
  <2>6. /\ live' \in [Ids -> Objs \cup {None}]
        /\ made' \in Nat
    BY <1>1, <1>2, ChatAssumption DEF ForgetSession, Goto, Forget, ChatTyped
  <2>7. /\ turn' \in [Turns -> TurnSet]
    BY <1>1, <1>2, ChatAssumption DEF ForgetSession, Goto, Forget, ChatTyped, TurnSet
  <2>8. /\ request'[r].pc = "idle"
        /\ request'[r].id = request[r].id
        /\ request'[r].obj = request[r].obj
        /\ request'[r].mode = request[r].mode
        /\ \A q \in Requests \ {r} : request'[q] = request[q]
    BY <1>1, <1>2, ChatAssumption DEF ForgetSession, Goto, Forget, ChatTyped, ReqSet
  <2>9. /\ live'[obj[o].id] = None
        /\ \A i \in Ids \ {obj[o].id} : live'[i] = live[i]
        /\ turn' = turn
        /\ made' = made
    BY <1>1, <1>2, ChatAssumption DEF ForgetSession, Goto, Forget, ChatTyped, TurnSet
  <2> HIDE DEF e
  <2> QED BY <2>3, <2>4, <2>5, <2>6, <2>7, <2>8, <2>9 DEF ChatTyped
<1>4. Owned'
  BY <1>1, <1>2, <1>3, ChatAssumption DEF Owned, InHand, Stopping
<1>5. Held'
  BY <1>1, <1>2, <1>3, LockTyped, ChatAssumption DEF Held, Owned, InHand, Stopping
<1>6. Reading'
  BY <1>1, <1>2, <1>3, ChatAssumption DEF Reading, InHand, Stopping
<1>7. TurnOwned'
  BY <1>1, <1>2, <1>3, TimeTyped, ChatAssumption DEF TurnOwned
<1>8. TaskOwned'
  BY <1>1, <1>2, <1>3, TaskTyped, ChatAssumption DEF TaskOwned, TurnOwned
<1>9. LiveIs'
  BY <1>1, <1>2, <1>3, LiveTyped, ChatAssumption DEF LiveIs
<1>10. LastInLine'
  <2> SUFFICES ASSUME NEW p \in Objs, NEW u \in Turns, Serving(p)', turn[u].obj = p, turn[u].st = "queued"
               PROVE  /\ obj'[p].task # None /\ turn[obj'[p].task].st = "queued"
                      /\ turn[u].seq <= turn[obj'[p].task].seq
    BY <1>3 DEF LastInLine
  <2>1. p # o
    BY <1>2, <1>3, ChatAssumption DEF Serving
  <2>2. obj'[p] = obj[p] /\ obj[p].id # None /\ live'[obj[p].id] = p /\ obj[p].id \in Ids
    BY <1>1, <1>3, <2>1, LockTyped DEF Serving
  <2>3. live[obj[p].id] = p
    BY <1>3, <2>2, ChatAssumption
  <2>4. obj[p].lifecycle # None => obj[p].lifecycle \in Requests \ {r}
    BY <1>1, <1>2, <2>1, LockTyped DEF Held
  <2>5. Serving(p)
    BY <1>3, <2>2, <2>3, <2>4 DEF Serving
  <2> QED BY <1>1, <2>2, <2>5 DEF LastInLine
<1>11. AgentMode'
  BY <1>1, <1>2, <1>3, ChatAssumption DEF AgentMode
<1>12. TurnMode'
  BY <1>1, <1>2, <1>3, ChatAssumption DEF TurnMode, TurnOwned
<1>13. Runs'
  BY <1>1, <1>2, <1>3, ChatAssumption DEF Runs, TurnOwned, TurnMode
<1>14. Switching'
  BY <1>1, <1>2, <1>3, ChatAssumption DEF Switching, TurnOwned, Owned, InHand, Stopping
<1>15. Flushed'
  BY <1>1, <1>2, <1>3, ChatAssumption DEF Flushed, At, Owned, InHand, Stopping
<1> QED BY <1>3, <1>4, <1>5, <1>6, <1>7, <1>8, <1>9, <1>10, <1>11, <1>12, <1>13, <1>14, <1>15 DEF ChatInv

(* A session to be stopped has its last turn cancelled.                    *)
LEMMA StopKeeps ==
  ASSUME ChatInv, NEW r \in Requests, NEW id \in Ids, StopSession(r, id)
  PROVE  ChatInv'
<1> DEFINE o == live[id]
<1>1. /\ ChatTyped /\ Owned /\ Held /\ Reading /\ TurnOwned /\ TaskOwned
      /\ LiveIs /\ LastInLine /\ AgentMode /\ TurnMode /\ Runs /\ Switching
      /\ Flushed
  BY DEF ChatInv
<1>2. /\ request[r].pc = "idle"
      /\ o \in Objs /\ o = live[id] /\ obj[o].id = id /\ obj[o].lifecycle = None
      /\ TurnPending(o) => obj[o].task \in Turns
      /\ obj' = [obj EXCEPT ![o].lifecycle = r]
      /\ turn' = IF TurnPending(o) THEN [turn EXCEPT ![obj[o].task].st = "cancelled"] ELSE turn
  BY <1>1, TaskTyped, ChatAssumption DEF StopSession, Idle, At, LiveIs, ChatTyped, TurnPending
<1> HIDE DEF o
<1>3. /\ ChatTyped'
      /\ obj'[o].id = obj[o].id
      /\ obj'[o].mode = obj[o].mode
      /\ obj'[o].backend = obj[o].backend
      /\ obj'[o].lifecycle = r
      /\ obj'[o].turnLock = obj[o].turnLock
      /\ obj'[o].task = obj[o].task
      /\ \A p \in Objs \ {o} : obj'[p] = obj[p]
      /\ request'[r].pc = "cancelled"
      /\ request'[r].id = id
      /\ request'[r].obj = o
      /\ request'[r].mode = "qa"
      /\ \A q \in Requests \ {r} : request'[q] = request[q]
      /\ \A u \in Turns : /\ turn'[u].obj = turn[u].obj /\ turn'[u].mode = turn[u].mode /\ turn'[u].seq = turn[u].seq
                          /\ turn'[u].st # turn[u].st => turn'[u].st = "cancelled" /\ u = obj[o].task
      /\ live' = live
      /\ made' = made + 1
  <2>1. obj' \in [Objs -> ObjSet]
    BY <1>1, <1>2 DEF ChatTyped, ObjSet
  <2>2. request' = [request EXCEPT ![r] = [pc |-> "cancelled", id |-> id, obj |-> o, mode |-> "qa"]]
        /\ live' = live /\ made' = made + 1
    BY <1>2 DEF StopSession
  <2>3. request' \in [Requests -> ReqSet]
    BY <1>1, <1>2, <2>2 DEF ChatTyped, ReqSet, InHand, Stopping, Modes
  <2>4. turn' \in [Turns -> TurnSet]
    <3>1. CASE TurnPending(o)
      BY <1>1, <1>2, <3>1 DEF ChatTyped, TurnSet
    <3>2. CASE ~TurnPending(o)
      BY <1>1, <1>2, <3>2 DEF ChatTyped
    <3> QED BY <3>1, <3>2
  <2>5. /\ obj'[o].id = obj[o].id
        /\ obj'[o].mode = obj[o].mode
        /\ obj'[o].backend = obj[o].backend
        /\ obj'[o].lifecycle = r
        /\ obj'[o].turnLock = obj[o].turnLock
        /\ obj'[o].task = obj[o].task
        /\ \A p \in Objs \ {o} : obj'[p] = obj[p]
    BY <1>1, <1>2 DEF ChatTyped, ObjSet
  <2>6. /\ request'[r].pc = "cancelled"
        /\ request'[r].id = id
        /\ request'[r].obj = o
        /\ request'[r].mode = "qa"
        /\ \A q \in Requests \ {r} : request'[q] = request[q]
    BY <1>1, <1>2, <2>2 DEF ChatTyped
  <2>7. \A u \in Turns : /\ turn'[u].obj = turn[u].obj /\ turn'[u].mode = turn[u].mode /\ turn'[u].seq = turn[u].seq
                         /\ turn'[u].st # turn[u].st => turn'[u].st = "cancelled" /\ u = obj[o].task
    <3>1. CASE TurnPending(o)
      BY <1>1, <1>2, <3>1 DEF ChatTyped, TurnSet
    <3>2. CASE ~TurnPending(o)
      BY <1>1, <1>2, <3>2 DEF ChatTyped
    <3> QED BY <3>1, <3>2
  <2> QED BY <1>1, <2>1, <2>2, <2>3, <2>4, <2>5, <2>6, <2>7 DEF ChatTyped
<1>4. Owned'
  BY <1>1, <1>2, <1>3, ChatAssumption DEF Owned, InHand, Stopping
<1>5. Held'
  BY <1>1, <1>2, <1>3, LockTyped, ChatAssumption DEF Held, Owned, InHand, Stopping
<1>6. Reading'
  BY <1>1, <1>2, <1>3, ChatAssumption DEF Reading, InHand, Stopping
<1>7. TurnOwned'
  <2>1. \A u \in Turns : (turn'[u].st = "new") <=> (turn[u].st = "new")
    BY <1>1, <1>2, <1>3, ChatAssumption DEF TaskOwned
  <2> QED BY <1>1, <1>3, <2>1, TimeTyped DEF TurnOwned
<1>8. TaskOwned'
  <2>1. \A u \in Turns : (turn'[u].st = "new") <=> (turn[u].st = "new")
    BY <1>1, <1>2, <1>3, ChatAssumption DEF TaskOwned
  <2> QED BY <1>1, <1>3, <2>1, TaskTyped DEF TaskOwned
<1>9. LiveIs'
  BY <1>1, <1>2, <1>3, LiveTyped, ChatAssumption DEF LiveIs
<1>10. LastInLine'
  <2> SUFFICES ASSUME NEW p \in Objs, NEW u \in Turns, Serving(p)', turn'[u].obj = p, turn'[u].st = "queued"
               PROVE  /\ obj'[p].task # None /\ turn'[obj'[p].task].st = "queued"
                      /\ turn'[u].seq <= turn'[obj'[p].task].seq
    BY DEF LastInLine
  <2>1. p # o
    BY <1>2, <1>3, ChatAssumption DEF Serving, Stopping
  <2>2. obj'[p] = obj[p] /\ turn[u].obj = p /\ turn[u].st = "queued"
    BY <1>3, <2>1
  <2>3. obj[p].lifecycle # None => obj[p].lifecycle \in Requests \ {r}
    BY <1>1, <1>2, LockTyped DEF Held, InHand, Stopping
  <2>4. Serving(p)
    BY <1>3, <2>2, <2>3 DEF Serving
  <2>5. /\ obj[p].task # None /\ turn[obj[p].task].st = "queued"
        /\ turn[u].seq <= turn[obj[p].task].seq /\ obj[p].task \in Turns
    BY <1>1, <2>2, <2>4, TaskTyped DEF LastInLine
  <2>6. obj[p].task # obj[o].task
    BY <1>1, <1>2, <2>1, <2>5, TaskTyped DEF TaskOwned
  <2> QED BY <1>3, <2>2, <2>5, <2>6
<1>11. AgentMode'
  BY <1>1, <1>2, <1>3, ChatAssumption DEF AgentMode
<1>12. TurnMode'
  <2>1. \A u \in Turns : turn'[u].st \in {"queued", "running"} => turn'[u].st = turn[u].st
    BY <1>3
  <2>2. \A u \in Turns : turn[u].st \in {"queued", "running"} => turn[u].obj \in Objs
    BY <1>1 DEF TurnOwned
  <2>3. \A p \in Objs : /\ obj'[p].mode = obj[p].mode /\ obj'[p].turnLock = obj[p].turnLock
                         /\ p # o => obj'[p].backend = obj[p].backend
    BY <1>3
  <2> QED BY <1>1, <1>3, <2>1, <2>2, <2>3 DEF TurnMode
<1>13. Runs'
  <2>1. \A u \in Turns : turn'[u].st \in {"queued", "running"} => turn'[u].st = turn[u].st
    BY <1>3
  <2>2. \A u \in Turns : turn[u].st \in {"queued", "running"} => turn[u].obj \in Objs
    BY <1>1 DEF TurnOwned
  <2>3. \A p \in Objs : /\ obj'[p].mode = obj[p].mode /\ obj'[p].turnLock = obj[p].turnLock
                         /\ p # o => obj'[p].backend = obj[p].backend
    BY <1>3
  <2> QED BY <1>1, <1>3, <2>1, <2>2, <2>3 DEF Runs
<1>14. Switching'
  BY <1>1, <1>2, <1>3, ChatAssumption DEF Switching, TurnOwned, Owned, InHand, Stopping
<1>15. Flushed'
  BY <1>1, <1>2, <1>3, ChatAssumption DEF Flushed, At, Owned, InHand, Stopping
<1> QED BY <1>3, <1>4, <1>5, <1>6, <1>7, <1>8, <1>9, <1>10, <1>11, <1>12, <1>13, <1>14, <1>15 DEF ChatInv

(* A stopped agent ends the turn that runs on it.                          *)
LEMMA StopBackendKeeps ==
  ASSUME ChatInv, NEW r \in Requests, StopBackend(r)
  PROVE  ChatInv'
<1> DEFINE o == request[r].obj
<1>1. /\ ChatTyped /\ Owned /\ Held /\ Reading /\ TurnOwned /\ TaskOwned
      /\ LiveIs /\ LastInLine /\ AgentMode /\ TurnMode /\ Runs /\ Switching
      /\ Flushed
  BY DEF ChatInv
<1>2. /\ request[r].pc = "stop_backend"
      /\ o \in Objs /\ o = request[r].obj /\ obj[o].lifecycle = r /\ obj[o].id \in Ids
      /\ obj[o].id = request[r].id
  BY <1>1, ChatAssumption DEF StopBackend, At, Owned, InHand, Stopping
<1> HIDE DEF o
<1>3. /\ ChatTyped'
      /\ obj'[o].id = obj[o].id
      /\ obj'[o].mode = obj[o].mode
      /\ obj'[o].backend = "stopped"
      /\ obj'[o].lifecycle = obj[o].lifecycle
      /\ obj'[o].turnLock = obj[o].turnLock
      /\ obj'[o].task = obj[o].task
      /\ \A p \in Objs \ {o} : obj'[p] = obj[p]
      /\ request'[r].pc = "flush"
      /\ request'[r].id = request[r].id
      /\ request'[r].obj = request[r].obj
      /\ request'[r].mode = request[r].mode
      /\ \A q \in Requests \ {r} : request'[q] = request[q]
      /\ \A u \in Turns : /\ turn'[u].obj = turn[u].obj /\ turn'[u].mode = turn[u].mode /\ turn'[u].seq = turn[u].seq
                          /\ turn'[u].st # turn[u].st => turn'[u].st = "cancelled" /\ turn[u].st = "running"
                          /\ ~(turn'[u].st = "running" /\ turn[u].obj = o)
      /\ live' = live
      /\ made' = made
  <2>1. obj' \in [Objs -> ObjSet]
    BY <1>1, <1>2 DEF StopBackend, ChatTyped, ObjSet
  <2>2. request' = [request EXCEPT ![r].pc = "flush"] /\ live' = live /\ made' = made
    BY DEF StopBackend, Goto
  <2>3. request' \in [Requests -> ReqSet]
    BY <1>1, <2>2 DEF ChatTyped, ReqSet, InHand, Stopping
  <2>4. /\ obj'[o].id = obj[o].id
        /\ obj'[o].mode = obj[o].mode
        /\ obj'[o].backend = "stopped"
        /\ obj'[o].lifecycle = obj[o].lifecycle
        /\ obj'[o].turnLock = obj[o].turnLock
        /\ obj'[o].task = obj[o].task
        /\ \A p \in Objs \ {o} : obj'[p] = obj[p]
    BY <1>1, <1>2 DEF StopBackend, ChatTyped, ObjSet
  <2>5. /\ request'[r].pc = "flush"
        /\ request'[r].id = request[r].id
        /\ request'[r].obj = request[r].obj
        /\ request'[r].mode = request[r].mode
        /\ \A q \in Requests \ {r} : request'[q] = request[q]
    BY <1>1, <2>2 DEF ChatTyped, ReqSet
  <2>6. \A u \in Turns : turn'[u] = IF turn[u].obj = o /\ turn[u].st = "running"
                                    THEN [turn[u] EXCEPT !.st = "cancelled"] ELSE turn[u]
    BY <1>2 DEF StopBackend
  <2>7. \A u \in Turns : /\ turn'[u] \in TurnSet
                         /\ turn'[u].obj = turn[u].obj /\ turn'[u].mode = turn[u].mode /\ turn'[u].seq = turn[u].seq
                         /\ turn'[u].st # turn[u].st => turn'[u].st = "cancelled" /\ turn[u].st = "running"
                         /\ ~(turn'[u].st = "running" /\ turn[u].obj = o)
    <3> TAKE u \in Turns
    <3>1. turn[u] \in TurnSet
      BY <1>1 DEF ChatTyped
    <3>2. CASE turn[u].obj = o /\ turn[u].st = "running"
      <4>1. turn'[u] = [turn[u] EXCEPT !.st = "cancelled"]
        BY <2>6, <3>2
      <4> QED BY <3>1, <3>2, <4>1 DEF TurnSet
    <3>3. CASE ~(turn[u].obj = o /\ turn[u].st = "running")
      <4>1. turn'[u] = turn[u]
        BY <2>6, <3>3
      <4> QED BY <3>1, <3>3, <4>1
    <3> QED BY <3>2, <3>3
  <2>8. turn' \in [Turns -> TurnSet]
    <3>1. turn' = [u \in Turns |-> turn'[u]]
      BY DEF StopBackend
    <3> QED BY <2>7, <3>1
  <2> QED BY <1>1, <2>1, <2>2, <2>3, <2>4, <2>5, <2>7, <2>8 DEF ChatTyped
<1>4. Owned'
  BY <1>1, <1>2, <1>3, ChatAssumption DEF Owned, InHand, Stopping
<1>5. Held'
  BY <1>1, <1>2, <1>3, LockTyped, ChatAssumption DEF Held, Owned, InHand, Stopping
<1>6. Reading'
  BY <1>1, <1>2, <1>3, ChatAssumption DEF Reading, InHand, Stopping
<1>7. TurnOwned'
  BY <1>1, <1>2, <1>3, TimeTyped, ChatAssumption DEF TurnOwned
<1>8. TaskOwned'
  BY <1>1, <1>2, <1>3, TaskTyped, ChatAssumption DEF TaskOwned, TurnOwned
<1>9. LiveIs'
  BY <1>1, <1>2, <1>3, LiveTyped, ChatAssumption DEF LiveIs
<1>10. LastInLine'
  <2> SUFFICES ASSUME NEW p \in Objs, NEW u \in Turns, Serving(p)', turn'[u].obj = p, turn'[u].st = "queued"
               PROVE  /\ obj'[p].task # None /\ turn'[obj'[p].task].st = "queued"
                      /\ turn'[u].seq <= turn'[obj'[p].task].seq
    BY DEF LastInLine
  <2>1. p # o
    BY <1>2, <1>3, ChatAssumption DEF Serving, Stopping
  <2>2. obj'[p] = obj[p] /\ turn[u].obj = p /\ turn[u].st = "queued"
    BY <1>3, <2>1
  <2>3. Serving(p)
    <3>1. obj[p].lifecycle # None => obj[p].lifecycle \in Requests \ {r}
      BY <1>1, <1>2, <2>1, LockTyped DEF Held
    <3> QED BY <1>3, <2>2, <3>1 DEF Serving
  <2>4. /\ obj[p].task # None /\ turn[obj[p].task].st = "queued"
        /\ turn[u].seq <= turn[obj[p].task].seq /\ obj[p].task \in Turns
    BY <1>1, <2>2, <2>3, TaskTyped DEF LastInLine
  <2> QED BY <1>3, <2>2, <2>4
<1>11. AgentMode'
  BY <1>1, <1>2, <1>3, ChatAssumption DEF AgentMode
<1>12. TurnMode'
  <2>1. \A u \in Turns : turn'[u].st \in {"queued", "running"} => turn'[u].st = turn[u].st
    BY <1>3
  <2>2. \A u \in Turns : turn[u].st \in {"queued", "running"} => turn[u].obj \in Objs
    BY <1>1 DEF TurnOwned
  <2>3. \A p \in Objs : /\ obj'[p].mode = obj[p].mode /\ obj'[p].turnLock = obj[p].turnLock
                         /\ p # o => obj'[p].backend = obj[p].backend
    BY <1>3
  <2> QED BY <1>1, <1>2, <1>3, <2>1, <2>2, <2>3 DEF TurnMode
<1>13. Runs'
  <2>1. \A u \in Turns : turn'[u].st \in {"queued", "running"} => turn'[u].st = turn[u].st
    BY <1>3
  <2>2. \A u \in Turns : turn[u].st \in {"queued", "running"} => turn[u].obj \in Objs
    BY <1>1 DEF TurnOwned
  <2>3. \A p \in Objs : /\ obj'[p].mode = obj[p].mode /\ obj'[p].turnLock = obj[p].turnLock
                         /\ p # o => obj'[p].backend = obj[p].backend
    BY <1>3
  <2> QED BY <1>1, <1>2, <1>3, <2>1, <2>2, <2>3 DEF Runs
<1>14. Switching'
  BY <1>1, <1>2, <1>3, ChatAssumption DEF Switching, TurnOwned, Owned, InHand, Stopping
<1>15. Flushed'
  BY <1>1, <1>2, <1>3, ChatAssumption DEF Flushed, At, Owned, InHand, Stopping
<1> QED BY <1>3, <1>4, <1>5, <1>6, <1>7, <1>8, <1>9, <1>10, <1>11, <1>12, <1>13, <1>14, <1>15 DEF ChatInv

LEMMA InitChatSound == InitChat => ChatInv
<1> SUFFICES ASSUME InitChat  PROVE ChatInv
  OBVIOUS
<1>1. ChatTyped
  BY DEF InitChat, ChatTyped, ObjSet, ReqSet, TurnSet, NoObj, Modes
<1>2. /\ \A o \in Objs : obj[o].id = None /\ obj[o].lifecycle = None /\ obj[o].task = None /\ obj[o].backend = None
      /\ \A t \in Turns : turn[t].st = "new"
      /\ \A r \in Requests : request[r].pc = "idle"
      /\ \A i \in Ids : live[i] = None
  BY DEF InitChat, NoObj
<1>3. Owned /\ Held /\ Reading /\ TurnOwned /\ TaskOwned /\ LiveIs /\ LastInLine
  BY <1>2 DEF Owned, Held, Reading, TurnOwned, TaskOwned, LiveIs, LastInLine, InHand, Stopping
<1>4. AgentMode /\ TurnMode /\ Runs /\ Switching /\ Flushed
  BY <1>2 DEF AgentMode, TurnMode, Runs, Switching, Flushed, At
<1> QED BY <1>1, <1>3, <1>4 DEF ChatInv

LEMMA ChatStepKeeps ==
  ASSUME ChatInv, NextChat  PROVE ChatInv'
<1>1. ASSUME NEW r \in Requests, RequestStep(r)  PROVE ChatInv'
  <2>1. CASE \E id \in Ids, o \in Objs, m \in Modes : StartSession(r, id, o, m)
    BY <2>1, StartKeeps
  <2>2. CASE \E id \in Ids : Reattach(r, id) \/ StopSession(r, id)
    BY <2>2, ReattachKeeps, StopKeeps
  <2>3. CASE \E id \in Ids, m \in Modes : SetMode(r, id, m)
    BY <2>3, SetModeKeeps
  <2>4. CASE \E id \in Ids, t \in Turns : SendMessage(r, id, t)
    BY <2>4, SendKeeps
  <2>5. CASE \E o \in Objs : ReadTranscript(r, o)
    BY <2>5, ReadTranscriptKeeps
  <2>6. CASE ReadEntry(r) \/ Built(r) \/ BuildFails(r) \/ OldBackendStopped(r) \/ Rebuilt(r)
    BY <2>6, ReadEntryKeeps, BuiltKeeps, BuildFailsKeeps, OldStoppedKeeps, RebuiltKeeps
  <2>7. CASE RebuildFails(r) \/ AwaitTurn(r) \/ StopBackend(r) \/ ForgetSession(r)
    BY <2>7, RebuildFailsKeeps, AwaitTurnKeeps, StopBackendKeeps, ForgetKeeps
  <2> QED BY <1>1, <2>1, <2>2, <2>3, <2>4, <2>5, <2>6, <2>7 DEF RequestStep
<1>2. ASSUME NEW t \in Turns, TurnStart(t) \/ TurnEnds(t)  PROVE ChatInv'
  BY <1>2, TurnStartKeeps, TurnEndsKeeps
<1>3. CASE Close
  <2>1. UNCHANGED <<live, obj, turn, request, made>>
    BY <1>3 DEF Close
  <2> QED BY <2>1, SameChat
<1> QED BY <1>1, <1>2, <1>3 DEF NextChat

(* The inductive invariant of chat sessions.                               *)
THEOREM ChatIsSound == ChatSpec => []ChatInv
<1>1. ChatInv /\ UNCHANGED chatVars => ChatInv'
  BY SameChat DEF chatVars
<1>2. ChatInv /\ [NextChat]_chatVars => ChatInv'
  BY <1>1, ChatStepKeeps
<1> QED BY <1>2, InitChatSound, PTL DEF ChatSpec

(* A turn runs on an agent of the mode its message was sent in, and the    *)
(* session has that mode (chat set_mode, send_message).                    *)
THEOREM TurnsRunInMode == ChatSpec => []TurnRunsInMode
<1>1. ChatInv => TurnRunsInMode
  <2> SUFFICES ASSUME ChatInv, NEW t \in Turns, turn[t].st = "running"
               PROVE  obj[turn[t].obj].backend = turn[t].mode /\ obj[turn[t].obj].mode = turn[t].mode
    BY DEF TurnRunsInMode
  <2>1. Runs /\ TurnMode
    BY DEF ChatInv
  <2> QED BY <2>1 DEF Runs, TurnMode
<1> QED BY <1>1, ChatIsSound, PTL

(* A stopped session has no turn running (chat stop_session).              *)
THEOREM StoppedStaysQuiet == ChatSpec => []StoppedIsQuiet
<1>1. ChatInv => StoppedIsQuiet
  <2> SUFFICES ASSUME ChatInv, NEW r \in Requests, NEW t \in Turns, At(r, "flush"),
                      turn[t].st = "running", turn[t].obj = request[r].obj
               PROVE  FALSE
    BY DEF StoppedIsQuiet
  <2>1. Runs /\ Flushed /\ turn[t].mode \in Modes
    BY DEF ChatInv, ChatTyped, TurnSet
  <2> QED BY <2>1 DEF Runs, Flushed, Modes
<1> QED BY <1>1, ChatIsSound, PTL

-----------------------------------------------------------------------------
(* Commands that start and stop the service.                               *)
CommandPoints ==
  {"new", "lock", "inspect", "reclaim", "recreate", "owner", "status", "doctor", "spawn",
   "stable", "save", "unlock", "stop", "backends", "clear", "done", "killed"}
CommandSet ==
  [pc : CommandPoints, kind : Kinds \cup {"none", "stale"}, pid : Pids \cup {NoOne}]

ServiceTyped ==
  /\ cmd \in [Commands -> CommandSet] /\ overlap \in BOOLEAN /\ kills \in Nat
  /\ proc \in [Pids -> {"unused", "booting", "up", "dead"}]
  /\ record \in Pids \cup {NoOne} /\ backends \subseteq Pids

Started(p) == p \in Pids /\ proc[p] # "unused"

\* What a record or a command names was started, and what a command has
\* stopped stays stopped.
Stops ==
  /\ record # NoOne => Started(record)
  /\ \A c \in Commands :
       /\ cmd[c].pid # NoOne => Started(cmd[c].pid)
       /\ cmd[c].pc \in {"stable", "save", "stop", "backends", "clear"} => cmd[c].pid # NoOne
       /\ cmd[c].pc \in {"backends", "clear"} => ~Alive(cmd[c].pid)
       /\ cmd[c].pc = "clear" /\ Forced(c) => cmd[c].pid \notin backends

\* One command at a time, and where the orchestrator is that may be alive.
OneByOne ==
  ~overlap /\ kills = 0 =>
    /\ \A c, d \in Commands : Underway(c) /\ Underway(d) => c = d
    /\ \A p \in Pids : Alive(p) =>
         record = p \/ \E c \in Commands : cmd[c].pc \in {"stable", "save"} /\ cmd[c].pid = p
    /\ \A c \in Commands :
         /\ cmd[c].pc \in {"doctor", "spawn", "backends", "clear"} => \A p \in Pids : ~Alive(p)
         /\ cmd[c].pc \in {"stable", "save"} => \A p \in Pids : Alive(p) => cmd[c].pid = p
         /\ cmd[c].pc = "stop" => cmd[c].pid = record

ServiceInv == ServiceTyped /\ Stops /\ OneByOne

-----------------------------------------------------------------------------
LEMMA ServiceStarts == InitService => ServiceInv
<1> SUFFICES ASSUME InitService PROVE ServiceInv
  OBVIOUS
<1> USE ServiceAssumption DEF InitService, NoOne
<1>1. ServiceTyped
  BY DEF ServiceTyped, CommandSet, CommandPoints
<1>2. Stops
  BY DEF Stops, Started
<1>3. OneByOne
  BY DEF OneByOne, Underway, Alive
<1> QED BY <1>1, <1>2, <1>3 DEF ServiceInv

\* Every step of a command that is under way or begins.
LEMMA CommandStepKeeps ==
  ASSUME ServiceInv, NEW c \in Commands, CommandStep(c)
  PROVE  ServiceInv'
<1> USE ServiceAssumption DEF ServiceInv, ServiceTyped, CommandSet, CommandPoints, NoOne, Alive,
        Underway, AtPoint, Advance, os
<1>1. ASSUME NEW kind \in Kinds, Invoke(c, kind) PROVE ServiceInv'
  <2> DEFINE x == cmd'[c]
  <2>1. /\ x \in CommandSet /\ cmd' = [cmd EXCEPT ![c] = x]
        /\ x.pc \in {"lock", "done", "stop"} /\ x.pid \in {record, NoOne}
        /\ x.pc = "stop" => x.pid = record /\ record # NoOne
    <3>1. /\ cmd' = [cmd EXCEPT ![c] = x]
          /\ x = [kind |-> x.kind, pid |-> x.pid, pc |-> x.pc]
          /\ x.kind \in Kinds /\ x.pid \in {record, NoOne}
      BY <1>1 DEF Invoke, Kinds
    <3>2. CASE kind \in {"start", "replace"}
      BY <1>1, <3>1, <3>2 DEF Invoke
    <3>3. CASE kind = "open"
      BY <1>1, <3>1, <3>3 DEF Invoke
    <3>4. CASE kind \notin {"start", "replace", "open"}
      BY <1>1, <3>1, <3>4 DEF Invoke
    <3> QED BY <3>2, <3>3, <3>4
  <2> HIDE DEF x
  <2>2. /\ UNCHANGED <<record, proc, backends, port, kills>> /\ overlap' \in BOOLEAN
        /\ ~overlap' => ~overlap /\ \A d \in Commands : ~Underway(d)
    BY <1>1 DEF Invoke
  <2>3. ServiceTyped'
    BY <2>1, <2>2
  <2>4. Stops'
    BY <2>1, <2>2 DEF Stops, Started, Forced
  <2>5. OneByOne'
    BY <2>1, <2>2 DEF OneByOne
  <2> QED BY <2>3, <2>4, <2>5
<1>2. CASE CheckStatus(c)
  <2> DEFINE x == cmd'[c]
  <2>1. /\ cmd' = [cmd EXCEPT ![c] = x] /\ cmd[c].pc = "status"
        /\ UNCHANGED <<record, proc, backends, port, overlap, kills>>
    BY <1>2 DEF CheckStatus
  <2>2. /\ x \in CommandSet /\ x.pc \in {"doctor", "stop", "unlock"}
        /\ x.pid \in {record, cmd[c].pid}
        /\ x.pc = "stop" => x.pid = record /\ record # NoOne
        /\ x.pc = "doctor" => record = NoOne
    <3>1. CASE record = NoOne
      BY <1>2, <3>1 DEF CheckStatus
    <3>2. CASE record # NoOne /\ (Alive(record) \/ port = record) /\ cmd[c].kind = "replace"
      BY <1>2, <3>2 DEF CheckStatus
    <3>3. CASE record # NoOne /\ (Alive(record) \/ port = record) /\ cmd[c].kind # "replace"
      BY <1>2, <3>3 DEF CheckStatus
    <3>4. CASE record # NoOne /\ ~(Alive(record) \/ port = record)
      <4>1. x = [kind |-> "stale", pid |-> record, pc |-> "stop"]
        BY <1>2, <3>4 DEF CheckStatus
      <4> QED BY <4>1, <3>4
    <3> QED BY <3>1, <3>2, <3>3, <3>4
  <2> HIDE DEF x
  <2>3. ServiceTyped'
    BY <2>1, <2>2
  <2>4. Stops'
    BY <2>1, <2>2 DEF Stops, Started, Forced
  <2>5. OneByOne'
    BY <2>1, <2>2 DEF OneByOne
  <2> QED BY <2>3, <2>4, <2>5
<1>3. CASE CreateLock(c)
  <2>1. ServiceTyped'
    BY <1>3 DEF CreateLock
  <2>2. Stops'
    BY <1>3 DEF Stops, Started, CreateLock, Forced
  <2>3. OneByOne'
    BY <1>3 DEF OneByOne, CreateLock
  <2> QED BY <2>1, <2>2, <2>3
<1>4. CASE InspectLock(c)
  <2>1. ServiceTyped'
    BY <1>4 DEF InspectLock
  <2>2. Stops'
    BY <1>4 DEF Stops, Started, InspectLock, Forced
  <2>3. OneByOne'
    BY <1>4 DEF OneByOne, InspectLock
  <2> QED BY <2>1, <2>2, <2>3
<1>5. CASE UnlinkStale(c)
  <2>1. ServiceTyped'
    BY <1>5 DEF UnlinkStale
  <2>2. Stops'
    BY <1>5 DEF Stops, Started, UnlinkStale, Forced
  <2>3. OneByOne'
    BY <1>5 DEF OneByOne, UnlinkStale
  <2> QED BY <2>1, <2>2, <2>3
<1>6. CASE RecreateLock(c)
  <2>1. ServiceTyped'
    BY <1>6 DEF RecreateLock
  <2>2. Stops'
    BY <1>6 DEF Stops, Started, RecreateLock, Forced
  <2>3. OneByOne'
    BY <1>6 DEF OneByOne, RecreateLock
  <2> QED BY <2>1, <2>2, <2>3
<1>7. CASE WriteOwner(c)
  <2>1. ServiceTyped'
    BY <1>7 DEF WriteOwner
  <2>2. Stops'
    BY <1>7 DEF Stops, Started, WriteOwner, Forced
  <2>3. OneByOne'
    BY <1>7 DEF OneByOne, WriteOwner
  <2> QED BY <2>1, <2>2, <2>3
<1>8. CASE Doctor(c)
  <2>1. ServiceTyped'
    BY <1>8 DEF Doctor
  <2>2. Stops'
    BY <1>8 DEF Stops, Started, Doctor, Forced
  <2>3. OneByOne'
    BY <1>8 DEF OneByOne, Doctor
  <2> QED BY <2>1, <2>2, <2>3
<1>9. CASE Spawn(c)
  <2>1. ServiceTyped'
    BY <1>9 DEF Spawn
  <2>2. Stops'
    BY <1>9 DEF Stops, Started, Spawn, Forced
  <2>3. OneByOne'
    BY <1>9 DEF OneByOne, Spawn
  <2> QED BY <2>1, <2>2, <2>3
<1>10. CASE Stable(c)
  <2>1. ServiceTyped'
    BY <1>10 DEF Stable
  <2>2. Stops'
    BY <1>10 DEF Stops, Started, Stable, Forced
  <2>3. OneByOne'
    BY <1>10 DEF OneByOne, Stable
  <2> QED BY <2>1, <2>2, <2>3
<1>11. CASE SaveRecord(c)
  <2>1. ServiceTyped'
    BY <1>11 DEF SaveRecord
  <2>2. Stops'
    BY <1>11 DEF Stops, Started, SaveRecord, Forced
  <2>3. OneByOne'
    BY <1>11 DEF OneByOne, SaveRecord
  <2> QED BY <2>1, <2>2, <2>3
<1>12. CASE SaveFails(c)
  <2>1. ServiceTyped'
    BY <1>12 DEF SaveFails, Kill
  <2>2. Stops'
    BY <1>12 DEF Stops, Started, SaveFails, Kill, Forced
  <2>3. OneByOne'
    BY <1>12 DEF OneByOne, SaveFails, Kill
  <2> QED BY <2>1, <2>2, <2>3
<1>13. CASE Unlock(c)
  <2>1. ServiceTyped'
    BY <1>13 DEF Unlock
  <2>2. Stops'
    BY <1>13 DEF Stops, Started, Unlock, Forced
  <2>3. OneByOne'
    BY <1>13 DEF OneByOne, Unlock
  <2> QED BY <2>1, <2>2, <2>3
<1>14. CASE StopOrchestrator(c)
  <2>1. ServiceTyped'
    BY <1>14 DEF StopOrchestrator, Forced, Kill
  <2>2. Stops'
    BY <1>14 DEF Stops, Started, StopOrchestrator, Forced, Kill
  <2>3. OneByOne'
    BY <1>14 DEF OneByOne, StopOrchestrator, Forced, Kill
  <2> QED BY <2>1, <2>2, <2>3
<1>15. CASE StopBackends(c)
  <2>1. ServiceTyped'
    BY <1>15 DEF StopBackends, Forced, Nested
  <2>2. Stops'
    BY <1>15 DEF Stops, Started, StopBackends, Forced, Nested
  <2>3. OneByOne'
    BY <1>15 DEF OneByOne, StopBackends, Forced, Nested
  <2> QED BY <2>1, <2>2, <2>3
<1>16. CASE ClearRecord(c)
  <2>1. ServiceTyped'
    BY <1>16 DEF ClearRecord, Nested, Restarts
  <2>2. Stops'
    BY <1>16 DEF Stops, Started, ClearRecord, Nested, Restarts, Forced
  <2>3. OneByOne'
    BY <1>16 DEF OneByOne, ClearRecord, Nested, Restarts
  <2> QED BY <2>1, <2>2, <2>3
<1>17. CASE KillCommand(c)
  <2>1. ServiceTyped'
    BY <1>17 DEF KillCommand
  <2>2. Stops'
    BY <1>17 DEF Stops, Started, KillCommand, Forced
  <2>3. OneByOne'
    BY <1>17 DEF OneByOne, KillCommand
  <2> QED BY <2>1, <2>2, <2>3
<1> QED BY <1>1, <1>2, <1>3, <1>4, <1>5, <1>6, <1>7, <1>8, <1>9, <1>10, <1>11, <1>12, <1>13, <1>14, <1>15, <1>16, <1>17 DEF CommandStep

\* An orchestrator that boots, starts an agent or dies.
LEMMA OrchestratorKeeps ==
  ASSUME ServiceInv, NEW p \in Pids, Boot(p) \/ StartAgent(p) \/ Die(p)
  PROVE  ServiceInv'
<1> USE ServiceAssumption DEF ServiceInv, NoOne, Alive
<1>1. ServiceTyped'
  BY DEF ServiceTyped, Boot, StartAgent, Die, Kill
<1>2. Stops'
  BY DEF ServiceTyped, CommandSet, Stops, Started, Boot, StartAgent, Die, Kill, Forced
<1>3. OneByOne'
  BY DEF ServiceTyped, CommandSet, OneByOne, Underway, Boot, StartAgent, Die, Kill
<1> QED BY <1>1, <1>2, <1>3

LEMMA ServiceRests ==
  ASSUME ServiceInv, UNCHANGED serviceVars
  PROVE  ServiceInv'
BY DEF ServiceInv, ServiceTyped, Stops, OneByOne, Started, Underway, Alive, Forced, CommandSet,
       serviceVars

(* The inductive invariant of the service commands: what a record or a     *)
(* command names was started; what a stop has stopped stays stopped; and   *)
(* with commands one at a time and none killed, an orchestrator that may   *)
(* be alive is in the record or in the hands of the start that spawned it. *)
THEOREM ServiceIsSound == ServiceSpec => []ServiceInv
<1>1. InitService => ServiceInv
  BY ServiceStarts
<1>2. ServiceInv /\ [NextService]_serviceVars => ServiceInv'
  BY CommandStepKeeps, OrchestratorKeeps, ServiceRests DEF NextService
<1> QED BY <1>1, <1>2, PTL DEF ServiceSpec

(* With commands one at a time and none of them killed, an orchestrator    *)
(* that is alive is the one the record names, so that stop and status find *)
(* it (service.py _start_locked, _stop), for any number of commands and    *)
(* orchestrators.                                                          *)
THEOREM ServiceStaysManaged == ServiceSpec => []ServiceIsManaged
<1>1. ServiceInv => ServiceIsManaged
  <2> SUFFICES ASSUME ServiceInv, ~overlap, kills = 0, \A c \in Commands : ~Underway(c),
                      NEW p \in Pids, Alive(p)
               PROVE  record = p
    BY DEF ServiceIsManaged
  <2> QED BY DEF ServiceInv, OneByOne, Underway
<1> QED BY <1>1, ServiceIsSound, PTL

(* A stop clears the record only when the orchestrator it found there is   *)
(* gone, a forced one only when the agents it left behind are gone too     *)
(* (service.py _stop, _terminate_active_backend_processes), however many   *)
(* commands run at once and however many of them are killed.               *)
THEOREM StopsAreComplete == ServiceSpec => []StopIsComplete
<1>1. ServiceInv => StopIsComplete
  BY DEF ServiceInv, Stops, StopIsComplete, AtPoint
<1> QED BY <1>1, ServiceIsSound, PTL

-----------------------------------------------------------------------------
(* Setups of projects.                                                     *)
\* A directory that is missing holds nothing, one without a repository has
\* nothing staged, committed or excluded.
Coherent(r) ==
  /\ r \in Repos
  /\ ~r.dir => r = Absent
  /\ ~r.git => r.index = {} /\ r.head = {} /\ ~r.exclude

Transaction ==
  {"root", "git", "copy", "stage", "commit", "register", "register_committed", "unstage", "undo"}
JobPoints ==
  {"idle", "confirmed", "refused", "registered", "kept", "failed", "dead"} \cup Transaction
JobSet ==
  [pc : JobPoints, target : Targets \cup {Nothing}, port : Ports \cup {Nothing},
   before : Repos \cup {Nothing}, seen : [dir : BOOLEAN, git : BOOLEAN] \cup {Nothing},
   made : SUBSET {"root", "git"}, done : SUBSET Files, left : SUBSET Files, stuck : BOOLEAN]

\* What setup j has made of target h, which held b before.
Made(b, h, j) ==
  /\ IF "root" \in j.made THEN ~b.dir ELSE h.dir = b.dir
  /\ IF "git" \in j.made THEN ~b.git ELSE h.git = b.git
  /\ \A f \in Files :
       IF f \in j.done \cup j.left THEN b.work[f] = Nothing /\ h.work[f] = "setup"
                                   ELSE h.work[f] = b.work[f]
  /\ j.done \cap j.left = {}
  /\ j.pc \notin {"unstage", "undo"} => j.left = {}
  /\ h.deleted = b.deleted
  /\ b.exclude => h.exclude
  /\ j.pc # "register_committed" => h.head = b.head
  /\ h.index \ j.done = b.index
  /\ j.stuck => j.pc = "undo"
  /\ j.pc = "undo" /\ ~j.stuck /\ "git" \notin j.made => h.index = b.index
  /\ j.pc \in {"root", "git"} => j.done = {} /\ "git" \notin j.made
  /\ j.pc = "root" => j.made = {}
  /\ j.pc \in {"copy", "stage", "commit", "register", "register_committed"} => h.git
  /\ j.pc \in {"git", "copy", "stage", "commit", "register", "register_committed"} => h.dir
  /\ j.done \cup j.left # {} => h.git /\ h.dir

Unmade(j) == j.made = {} /\ j.done = {} /\ j.left = {} /\ ~j.stuck

SetupInv ==
  /\ repo \in [Targets -> Repos] /\ \A t \in Targets : Coherent(repo[t])
  /\ txn \in Setups \cup {Nothing}
  /\ job \in [Setups -> JobSet]
  /\ \A s \in Setups :
       /\ job[s].pc \in {"idle", "confirmed"} => Unmade(job[s])
       /\ job[s].pc # "idle" => job[s].target \in Targets
       /\ job[s].pc \in Transaction <=> txn = s
       /\ job[s].pc \in Transaction =>
            Coherent(job[s].before) /\ Made(job[s].before, repo[job[s].target], job[s])

-----------------------------------------------------------------------------
(* Steps of the setup in its transaction. *)

\* A step of the setup that has the transaction keeps the invariant if it
\* leaves the target coherent and knows what it has made.
LEMMA Transacts ==
  ASSUME SetupInv, NEW s \in Setups, txn = s, NEW h, NEW j,
         repo' = [repo EXCEPT ![job[s].target] = h], job' = [job EXCEPT ![s] = j],
         Coherent(h), j \in JobSet, j.target = job[s].target, j.before = job[s].before,
         j.pc \notin {"idle", "confirmed"},
         txn' \in {s, Nothing}, j.pc \in Transaction <=> txn' = s,
         j.pc \in Transaction => Made(j.before, h, j)
  PROVE  SetupInv'
<1> DEFINE t == job[s].target
<1>1. t \in Targets /\ j \in JobSet /\ h \in Repos /\ s # Nothing /\ Coherent(j.before)
  BY SetupAssumption DEF SetupInv, Coherent, Transaction, JobPoints, Nothing
<1>2. /\ repo' \in [Targets -> Repos] /\ repo'[t] = h
      /\ \A u \in Targets : u # t => repo'[u] = repo[u]
      /\ job' \in [Setups -> JobSet] /\ job'[s] = j
      /\ \A u \in Setups : u # s => job'[u] = job[u]
  BY <1>1 DEF SetupInv
<1>3. \A u \in Targets : Coherent(repo'[u])
  BY <1>2 DEF SetupInv
<1>4. txn' \in Setups \cup {Nothing}
  OBVIOUS
<1>5. ASSUME NEW u \in Setups
      PROVE  /\ job'[u].pc \in {"idle", "confirmed"} => Unmade(job'[u])
             /\ job'[u].pc # "idle" => job'[u].target \in Targets
             /\ job'[u].pc \in Transaction <=> txn' = u
             /\ job'[u].pc \in Transaction =>
                  /\ Coherent(job'[u].before)
                  /\ Made(job'[u].before, repo'[job'[u].target], job'[u])
  <2>1. CASE u = s
    BY <2>1, <1>1, <1>2
  <2>2. CASE u # s
    <3>1. job'[u] = job[u] /\ job[u].pc \notin Transaction
      BY <2>2, <1>2 DEF SetupInv
    <3>2. txn' # u
      BY <2>2, SetupAssumption DEF Nothing
    <3> QED BY <3>1, <3>2 DEF SetupInv
  <2> QED BY <2>1, <2>2
<1> HIDE DEF t
<1>6. /\ \A u \in Targets : Coherent(repo[u])'
      /\ \A u \in Setups : /\ Coherent(job[u].before)' <=> Coherent(job'[u].before)
                           /\ Unmade(job[u])' <=> Unmade(job'[u])
                           /\ Made(job[u].before, repo[job[u].target], job[u])'
                                <=> Made(job'[u].before, repo'[job'[u].target], job'[u])
  BY <1>3 DEF Coherent, Unmade, Made
<1> QED BY <1>2, <1>3, <1>4, <1>5, <1>6 DEF SetupInv

\* What the setup in the transaction knows of its target.
LEMMA InTransaction ==
  ASSUME SetupInv, NEW s \in Setups, job[s].pc \in Transaction
  PROVE  /\ txn = s /\ job[s] \in JobSet /\ job[s].target \in Targets
         /\ repo[job[s].target] \in Repos /\ Coherent(repo[job[s].target])
         /\ job[s].before \in Repos /\ Coherent(job[s].before)
         /\ Made(job[s].before, repo[job[s].target], job[s])
BY DEF SetupInv, Transaction, JobPoints, Coherent

LEMMA MakeRootKeeps ==
  ASSUME SetupInv, NEW s \in Setups, MakeRoot(s)
  PROVE  SetupInv'
<1> DEFINE k == job[s]
           r == repo[k.target]
           h == [r EXCEPT !.dir = TRUE]
           j == [k EXCEPT !.pc = "git", !.made = IF r.dir THEN {} ELSE {"root"}]
<1>1. k.pc = "root"
  BY DEF MakeRoot, SetupAt
<1>2. /\ txn = s /\ k \in JobSet /\ k.target \in Targets /\ r \in Repos /\ Coherent(r)
      /\ k.before \in Repos /\ Coherent(k.before) /\ Made(k.before, r, k)
  BY <1>1, InTransaction DEF Transaction
<1>3. repo' = [repo EXCEPT ![k.target] = h] /\ job' = [job EXCEPT ![s] = j] /\ txn' = s
  BY <1>1, <1>2 DEF MakeRoot, SetupInv, SetupAt, SetupGoto, Change, Here, Target, JobSet
<1>4. j \in JobSet /\ j.target = k.target /\ j.before = k.before
  BY <1>1, <1>2 DEF JobSet, JobPoints, Transaction
<1>5. Coherent(h)
  <2>1. h \in Repos
    BY <1>1, <1>2 DEF Repos, JobSet
  <2>2. ~h.dir => h = Absent
    BY <1>1, <1>2 DEF Coherent, Repos, Absent, Made
  <2>3. ~h.git => h.index = {} /\ h.head = {} /\ ~h.exclude
    BY <1>1, <1>2 DEF Coherent, Repos, Made
  <2> QED BY <2>1, <2>2, <2>3 DEF Coherent
<1>6. j.pc \in Transaction => Made(k.before, h, j)
  BY <1>1, <1>2 DEF Coherent, Repos, Absent, Made, JobSet, Transaction
<1>7. j.pc \notin {"idle", "confirmed"} /\ (j.pc \in Transaction <=> txn' = s)
  BY <1>1, <1>2, <1>3, SetupAssumption DEF JobSet, Transaction, Nothing
<1> HIDE DEF h, j
<1> QED BY <1>2, <1>3, <1>4, <1>5, <1>6, <1>7, Transacts DEF k

LEMMA GitInitKeeps ==
  ASSUME SetupInv, NEW s \in Setups, GitInit(s)
  PROVE  SetupInv'
<1> DEFINE k == job[s]
           r == repo[k.target]
           h == [r EXCEPT !.git = TRUE]
           j == [k EXCEPT !.pc = "copy", !.made = IF r.git THEN @ ELSE @ \cup {"git"}]
<1>1. k.pc = "git"
  BY DEF GitInit, SetupAt
<1>2. /\ txn = s /\ k \in JobSet /\ k.target \in Targets /\ r \in Repos /\ Coherent(r)
      /\ k.before \in Repos /\ Coherent(k.before) /\ Made(k.before, r, k)
  BY <1>1, InTransaction DEF Transaction
<1>3. repo' = [repo EXCEPT ![k.target] = h] /\ job' = [job EXCEPT ![s] = j] /\ txn' = s
  BY <1>1, <1>2 DEF GitInit, SetupInv, SetupAt, SetupGoto, Change, Here, Target, JobSet
<1>4. j \in JobSet /\ j.target = k.target /\ j.before = k.before
  BY <1>1, <1>2 DEF JobSet, JobPoints, Transaction
<1>5. Coherent(h)
  <2>1. h \in Repos
    BY <1>1, <1>2 DEF Repos, JobSet
  <2>2. ~h.dir => h = Absent
    BY <1>1, <1>2 DEF Coherent, Repos, Absent, Made
  <2>3. ~h.git => h.index = {} /\ h.head = {} /\ ~h.exclude
    BY <1>1, <1>2 DEF Coherent, Repos, Made
  <2> QED BY <2>1, <2>2, <2>3 DEF Coherent
<1>6. j.pc \in Transaction => Made(k.before, h, j)
  BY <1>1, <1>2 DEF Coherent, Repos, Absent, Made, JobSet, Transaction
<1>7. j.pc \notin {"idle", "confirmed"} /\ (j.pc \in Transaction <=> txn' = s)
  BY <1>1, <1>2, <1>3, SetupAssumption DEF JobSet, Transaction, Nothing
<1> HIDE DEF h, j
<1> QED BY <1>2, <1>3, <1>4, <1>5, <1>6, <1>7, Transacts DEF k

LEMMA CheckResourcesKeeps ==
  ASSUME SetupInv, NEW s \in Setups, CheckResources(s)
  PROVE  SetupInv'
<1>0. PICK listed \in {repo[Target(s)].exclude, TRUE} :
        Change(s, [repo[Target(s)] EXCEPT !.exclude = listed])
  BY DEF CheckResources, Here
<1> DEFINE k == job[s]
           r == repo[k.target]
           h == [r EXCEPT !.exclude = listed]
           j == [k EXCEPT !.pc = IF k.done = {} THEN "register" ELSE "stage"]
<1>1. k.pc = "copy"
  BY DEF CheckResources, SetupAt
<1>2. /\ txn = s /\ k \in JobSet /\ k.target \in Targets /\ r \in Repos /\ Coherent(r)
      /\ k.before \in Repos /\ Coherent(k.before) /\ Made(k.before, r, k)
  BY <1>1, InTransaction DEF Transaction
<1>3. repo' = [repo EXCEPT ![k.target] = h] /\ job' = [job EXCEPT ![s] = j] /\ txn' = s
  BY <1>0, <1>1, <1>2
     DEF CheckResources, SetupInv, SetupAt, SetupGoto, Change, Here, Target, JobSet
<1>4. j \in JobSet /\ j.target = k.target /\ j.before = k.before
  BY <1>1, <1>2 DEF JobSet, JobPoints, Transaction
<1>5. Coherent(h)
  <2>1. h \in Repos
    BY <1>0, <1>1, <1>2 DEF Repos, JobSet, Target
  <2>2. ~h.dir => h = Absent
    BY <1>1, <1>2 DEF Coherent, Repos, Absent, Made
  <2>3. ~h.git => h.index = {} /\ h.head = {} /\ ~h.exclude
    BY <1>1, <1>2 DEF Coherent, Repos, Made
  <2> QED BY <2>1, <2>2, <2>3 DEF Coherent
<1>6. j.pc \in Transaction => Made(k.before, h, j)
  BY <1>0, <1>1, <1>2 DEF Coherent, Repos, Absent, Made, JobSet, Transaction, Target
<1>7. j.pc \notin {"idle", "confirmed"} /\ (j.pc \in Transaction <=> txn' = s)
  BY <1>1, <1>2, <1>3, SetupAssumption DEF JobSet, Transaction, Nothing
<1> HIDE DEF h, j
<1> QED BY <1>2, <1>3, <1>4, <1>5, <1>6, <1>7, Transacts DEF k

LEMMA StageFilesKeeps ==
  ASSUME SetupInv, NEW s \in Setups, StageFiles(s)
  PROVE  SetupInv'
<1> DEFINE k == job[s]
           r == repo[k.target]
           h == [r EXCEPT !.index = @ \cup k.done]
           j == [k EXCEPT !.pc = "commit"]
<1>1. k.pc = "stage"
  BY DEF StageFiles, SetupAt
<1>2. /\ txn = s /\ k \in JobSet /\ k.target \in Targets /\ r \in Repos /\ Coherent(r)
      /\ k.before \in Repos /\ Coherent(k.before) /\ Made(k.before, r, k)
  BY <1>1, InTransaction DEF Transaction
<1>3. repo' = [repo EXCEPT ![k.target] = h] /\ job' = [job EXCEPT ![s] = j] /\ txn' = s
  BY <1>1, <1>2 DEF StageFiles, SetupInv, SetupAt, SetupGoto, Change, Here, Target, JobSet
<1>4. j \in JobSet /\ j.target = k.target /\ j.before = k.before
  BY <1>1, <1>2 DEF JobSet, JobPoints, Transaction
<1>5. Coherent(h)
  <2>1. h \in Repos
    BY <1>1, <1>2 DEF Repos, JobSet
  <2>2. ~h.dir => h = Absent
    BY <1>1, <1>2 DEF Coherent, Repos, Absent, Made
  <2>3. ~h.git => h.index = {} /\ h.head = {} /\ ~h.exclude
    BY <1>1, <1>2 DEF Coherent, Repos, Made
  <2> QED BY <2>1, <2>2, <2>3 DEF Coherent
<1>6. j.pc \in Transaction => Made(k.before, h, j)
  BY <1>1, <1>2 DEF Coherent, Repos, Absent, Made, JobSet, Transaction
<1>7. j.pc \notin {"idle", "confirmed"} /\ (j.pc \in Transaction <=> txn' = s)
  BY <1>1, <1>2, <1>3, SetupAssumption DEF JobSet, Transaction, Nothing
<1> HIDE DEF h, j
<1> QED BY <1>2, <1>3, <1>4, <1>5, <1>6, <1>7, Transacts DEF k

LEMMA CommitKeeps ==
  ASSUME SetupInv, NEW s \in Setups, Commit(s)
  PROVE  SetupInv'
<1> DEFINE k == job[s]
           r == repo[k.target]
           h == [r EXCEPT !.index = @ \ k.done, !.head = @ \cup k.done]
           j == [k EXCEPT !.pc = "register_committed"]
<1>1. k.pc = "commit"
  BY DEF Commit, SetupAt
<1>2. /\ txn = s /\ k \in JobSet /\ k.target \in Targets /\ r \in Repos /\ Coherent(r)
      /\ k.before \in Repos /\ Coherent(k.before) /\ Made(k.before, r, k)
  BY <1>1, InTransaction DEF Transaction
<1>3. repo' = [repo EXCEPT ![k.target] = h] /\ job' = [job EXCEPT ![s] = j] /\ txn' = s
  BY <1>1, <1>2 DEF Commit, SetupInv, SetupAt, SetupGoto, Change, Here, Target, JobSet
<1>4. j \in JobSet /\ j.target = k.target /\ j.before = k.before
  BY <1>1, <1>2 DEF JobSet, JobPoints, Transaction
<1>5. Coherent(h)
  <2>1. h \in Repos
    BY <1>1, <1>2 DEF Repos, JobSet
  <2>2. ~h.dir => h = Absent
    BY <1>1, <1>2 DEF Coherent, Repos, Absent, Made
  <2>3. ~h.git => h.index = {} /\ h.head = {} /\ ~h.exclude
    BY <1>1, <1>2 DEF Coherent, Repos, Made
  <2> QED BY <2>1, <2>2, <2>3 DEF Coherent
<1>6. j.pc \in Transaction => Made(k.before, h, j)
  BY <1>1, <1>2 DEF Coherent, Repos, Absent, Made, JobSet, Transaction
<1>7. j.pc \notin {"idle", "confirmed"} /\ (j.pc \in Transaction <=> txn' = s)
  BY <1>1, <1>2, <1>3, SetupAssumption DEF JobSet, Transaction, Nothing
<1> HIDE DEF h, j
<1> QED BY <1>2, <1>3, <1>4, <1>5, <1>6, <1>7, Transacts DEF k

LEMMA UnstageKeeps ==
  ASSUME SetupInv, NEW s \in Setups, Unstage(s)
  PROVE  SetupInv'
<1> DEFINE k == job[s]
           r == repo[k.target]
           h == [r EXCEPT !.index = IF "git" \in k.made THEN @ ELSE @ \ k.done]
           j == [k EXCEPT !.pc = "undo"]
<1>1. k.pc = "unstage"
  BY DEF Unstage, SetupAt
<1>2. /\ txn = s /\ k \in JobSet /\ k.target \in Targets /\ r \in Repos /\ Coherent(r)
      /\ k.before \in Repos /\ Coherent(k.before) /\ Made(k.before, r, k)
  BY <1>1, InTransaction DEF Transaction
<1>3. repo' = [repo EXCEPT ![k.target] = h] /\ job' = [job EXCEPT ![s] = j] /\ txn' = s
  BY <1>1, <1>2 DEF Unstage, SetupInv, SetupAt, SetupGoto, Change, Here, Target, JobSet
<1>4. j \in JobSet /\ j.target = k.target /\ j.before = k.before
  BY <1>1, <1>2 DEF JobSet, JobPoints, Transaction
<1>5. Coherent(h)
  <2>1. h \in Repos
    BY <1>1, <1>2 DEF Repos, JobSet
  <2>2. ~h.dir => h = Absent
    BY <1>1, <1>2 DEF Coherent, Repos, Absent, Made
  <2>3. ~h.git => h.index = {} /\ h.head = {} /\ ~h.exclude
    BY <1>1, <1>2 DEF Coherent, Repos, Made
  <2> QED BY <2>1, <2>2, <2>3 DEF Coherent
<1>6. j.pc \in Transaction => Made(k.before, h, j)
  BY <1>1, <1>2 DEF Coherent, Repos, Absent, Made, JobSet, Transaction
<1>7. j.pc \notin {"idle", "confirmed"} /\ (j.pc \in Transaction <=> txn' = s)
  BY <1>1, <1>2, <1>3, SetupAssumption DEF JobSet, Transaction, Nothing
<1> HIDE DEF h, j
<1> QED BY <1>2, <1>3, <1>4, <1>5, <1>6, <1>7, Transacts DEF k

LEMMA CopyFileKeeps ==
  ASSUME SetupInv, NEW s \in Setups, NEW f \in Files, CopyFile(s, f)
  PROVE  SetupInv'
<1> DEFINE k == job[s]
           r == repo[k.target]
           h == [r EXCEPT !.work[f] = "setup"]
           j == [k EXCEPT !.done = @ \cup {f}]
<1>1. k.pc = "copy"
  BY DEF CopyFile, Wanted, SetupAt
<1>2. /\ txn = s /\ k \in JobSet /\ k.target \in Targets /\ r \in Repos /\ Coherent(r)
      /\ k.before \in Repos /\ Coherent(k.before) /\ Made(k.before, r, k)
  BY <1>1, InTransaction DEF Transaction
<1>3. repo' = [repo EXCEPT ![k.target] = h] /\ job' = [job EXCEPT ![s] = j] /\ txn' = s
  BY <1>1, <1>2 DEF CopyFile, Wanted, SetupInv, SetupAt, SetupGoto, Change, Here, Target, JobSet
<1>4. j \in JobSet /\ j.target = k.target /\ j.before = k.before
  BY <1>1, <1>2 DEF JobSet, JobPoints, Transaction
<1>5. Coherent(h)
  <2>1. h \in Repos
    BY <1>1, <1>2 DEF Repos, JobSet
  <2>2. ~h.dir => h = Absent
    BY <1>1, <1>2 DEF Coherent, Repos, Absent, Made
  <2>3. ~h.git => h.index = {} /\ h.head = {} /\ ~h.exclude
    BY <1>1, <1>2 DEF Coherent, Repos, Made
  <2> QED BY <2>1, <2>2, <2>3 DEF Coherent
<1>6. j.pc \in Transaction => Made(k.before, h, j)
  <2>1. r.work[f] = Nothing /\ f \notin r.index
    BY <1>2 DEF CopyFile, Wanted, Here, Target, Coherent
  <2>2. f \notin k.done /\ k.before.work[f] = Nothing
    BY <1>2, <2>1 DEF Made, Nothing
  <2>3. /\ h.work = [r.work EXCEPT ![f] = "setup"] /\ h.dir = r.dir /\ h.git = r.git
        /\ h.index = r.index /\ h.head = r.head /\ h.deleted = r.deleted
        /\ h.exclude = r.exclude
        /\ j.done = k.done \cup {f} /\ j.pc = k.pc /\ j.made = k.made
        /\ j.left = {} /\ j.stuck = k.stuck
    BY <1>1, <1>2 DEF Repos, JobSet, Made
  <2>4. \A g \in Files : IF g \in j.done \cup j.left
                        THEN k.before.work[g] = Nothing /\ h.work[g] = "setup"
                        ELSE h.work[g] = k.before.work[g]
    BY <1>2, <2>2, <2>3 DEF Made, Repos
  <2>5. h.index \ j.done = k.before.index
    BY <1>2, <2>1, <2>3 DEF Made
  <2> HIDE DEF h, j
  <2> QED BY <1>1, <1>2, <2>3, <2>4, <2>5 DEF Made
<1>7. j.pc \notin {"idle", "confirmed"} /\ (j.pc \in Transaction <=> txn' = s)
  BY <1>1, <1>2, <1>3, SetupAssumption DEF JobSet, Transaction, Nothing
<1> HIDE DEF h, j
<1> QED BY <1>2, <1>3, <1>4, <1>5, <1>6, <1>7, Transacts DEF k

LEMMA CopyBreaksKeeps ==
  ASSUME SetupInv, NEW s \in Setups, NEW f \in Files, CopyBreaks(s, f)
  PROVE  SetupInv'
<1> DEFINE k == job[s]
           r == repo[k.target]
           h == [r EXCEPT !.work[f] = "setup"]
           j == [k EXCEPT !.pc = "unstage", !.left = {f}]
<1>1. k.pc = "copy"
  BY DEF CopyBreaks, SetupAt
<1>2. /\ txn = s /\ k \in JobSet /\ k.target \in Targets /\ r \in Repos /\ Coherent(r)
      /\ k.before \in Repos /\ Coherent(k.before) /\ Made(k.before, r, k)
  BY <1>1, InTransaction DEF Transaction
<1>3. repo' = [repo EXCEPT ![k.target] = h] /\ job' = [job EXCEPT ![s] = j] /\ txn' = s
  BY <1>1, <1>2 DEF CopyBreaks, SetupInv, Change, Here, Target, JobSet
<1>4. j \in JobSet /\ j.target = k.target /\ j.before = k.before
  BY <1>1, <1>2 DEF JobSet, JobPoints, Transaction
<1>5. Coherent(h)
  BY <1>1, <1>2 DEF Coherent, Repos, Absent, Made
<1>6. Made(k.before, h, j)
  <2>1. r.work[f] = Nothing /\ k.left = {}
    BY <1>1, <1>2 DEF CopyBreaks, Wanted, Here, Target, Made
  <2>2. f \notin k.done /\ k.before.work[f] = Nothing
    BY <1>2, <2>1 DEF Made, Nothing
  <2>3. /\ h.work = [r.work EXCEPT ![f] = "setup"] /\ h.dir = r.dir /\ h.git = r.git
        /\ h.index = r.index /\ h.head = r.head /\ h.deleted = r.deleted
        /\ h.exclude = r.exclude /\ j.done = k.done /\ j.made = k.made
        /\ j.pc = "unstage" /\ j.left = {f} /\ j.stuck = k.stuck
    BY <1>2 DEF Repos, JobSet
  <2>4. \A g \in Files : IF g \in j.done \cup j.left
                        THEN k.before.work[g] = Nothing /\ h.work[g] = "setup"
                        ELSE h.work[g] = k.before.work[g]
    BY <1>2, <2>1, <2>2, <2>3 DEF Made, Repos
  <2> HIDE DEF h, j
  <2> QED BY <1>1, <1>2, <2>2, <2>3, <2>4 DEF Made
<1>7. j.pc = "unstage"
  BY <1>2 DEF JobSet
<1> HIDE DEF h, j
<1> QED BY <1>2, <1>3, <1>4, <1>5, <1>6, <1>7, Transacts DEF k, Transaction

LEMMA UnstageFailsKeeps ==
  ASSUME SetupInv, NEW s \in Setups, UnstageFails(s)
  PROVE  SetupInv'
<1> DEFINE k == job[s]
           r == repo[k.target]
           j == [k EXCEPT !.pc = "undo", !.stuck = TRUE]
<1>1. k.pc = "unstage"
  BY DEF UnstageFails, SetupAt
<1>2. /\ txn = s /\ k \in JobSet /\ k.target \in Targets /\ r \in Repos /\ Coherent(r)
      /\ k.before \in Repos /\ Coherent(k.before) /\ Made(k.before, r, k)
  BY <1>1, InTransaction DEF Transaction
<1>3. repo' = [repo EXCEPT ![k.target] = r] /\ job' = [job EXCEPT ![s] = j] /\ txn' = s
  BY <1>1, <1>2 DEF UnstageFails, SetupInv, JobSet
<1>4. /\ j \in JobSet /\ j.target = k.target /\ j.before = k.before
      /\ j.pc = "undo" /\ Made(k.before, r, j)
  BY <1>1, <1>2 DEF JobSet, JobPoints, Transaction, Made
<1> HIDE DEF j
<1> QED BY <1>2, <1>3, <1>4, Transacts DEF k, Transaction

LEMMA RegisterKeeps ==
  ASSUME SetupInv, NEW s \in Setups, Register(s)
  PROVE  SetupInv'
<1> DEFINE k == job[s]
           r == repo[k.target]
           h == r
           j == [k EXCEPT !.pc = "registered"]
<1>1. k.pc \in {"register", "register_committed"}
  BY DEF Register, SetupAt
<1>2. /\ txn = s /\ k \in JobSet /\ k.target \in Targets /\ r \in Repos /\ Coherent(r)
      /\ k.before \in Repos /\ Coherent(k.before) /\ Made(k.before, r, k)
  BY <1>1, InTransaction DEF Transaction
<1>3. repo' = [repo EXCEPT ![k.target] = h] /\ job' = [job EXCEPT ![s] = j] /\ txn' = Nothing
  BY <1>1, <1>2 DEF Register, SetupInv, SetupAt, SetupGoto, Change, Here, Target, JobSet
<1>4. j \in JobSet /\ j.target = k.target /\ j.before = k.before
  BY <1>1, <1>2 DEF JobSet, JobPoints, Transaction
<1>5. Coherent(h)
  <2>1. h \in Repos
    BY <1>1, <1>2 DEF Repos, JobSet
  <2>2. ~h.dir => h = Absent
    BY <1>1, <1>2 DEF Coherent, Repos, Absent, Made
  <2>3. ~h.git => h.index = {} /\ h.head = {} /\ ~h.exclude
    BY <1>1, <1>2 DEF Coherent, Repos, Made
  <2> QED BY <2>1, <2>2, <2>3 DEF Coherent
<1>6. j.pc \in Transaction => Made(k.before, h, j)
  BY <1>1, <1>2 DEF Coherent, Repos, Absent, Made, JobSet, Transaction
<1>7. j.pc \notin {"idle", "confirmed"} /\ (j.pc \in Transaction <=> txn' = s)
  BY <1>1, <1>2, <1>3, SetupAssumption DEF JobSet, Transaction, Nothing
<1> HIDE DEF h, j
<1> QED BY <1>2, <1>3, <1>4, <1>5, <1>6, <1>7, Transacts DEF k

LEMMA FailKeeps ==
  ASSUME SetupInv, NEW s \in Setups, Fail(s)
  PROVE  SetupInv'
<1> DEFINE k == job[s]
           r == repo[k.target]
           h == r
           j == [k EXCEPT !.pc = IF k.pc = "register_committed" THEN "kept" ELSE "unstage"]
<1>1. k.pc \in Transaction \ {"unstage", "undo"}
  BY DEF Fail, Transaction, SetupAt
<1>2. /\ txn = s /\ k \in JobSet /\ k.target \in Targets /\ r \in Repos /\ Coherent(r)
      /\ k.before \in Repos /\ Coherent(k.before) /\ Made(k.before, r, k)
  BY <1>1, InTransaction DEF Transaction
<1>3. repo' = [repo EXCEPT ![k.target] = h] /\ job' = [job EXCEPT ![s] = j] /\ txn' = IF k.pc = "register_committed" THEN Nothing ELSE s
  BY <1>1, <1>2 DEF Fail, Transaction, SetupInv, SetupAt, SetupGoto, Change, Here, Target, JobSet
<1>4. j \in JobSet /\ j.target = k.target /\ j.before = k.before
  BY <1>1, <1>2 DEF JobSet, JobPoints, Transaction
<1>5. Coherent(h)
  <2>1. h \in Repos
    BY <1>1, <1>2 DEF Repos, JobSet
  <2>2. ~h.dir => h = Absent
    BY <1>1, <1>2 DEF Coherent, Repos, Absent, Made
  <2>3. ~h.git => h.index = {} /\ h.head = {} /\ ~h.exclude
    BY <1>1, <1>2 DEF Coherent, Repos, Made
  <2> QED BY <2>1, <2>2, <2>3 DEF Coherent
<1>6. j.pc \in Transaction => Made(k.before, h, j)
  BY <1>1, <1>2 DEF Coherent, Repos, Absent, Made, JobSet, Transaction
<1>7. j.pc \notin {"idle", "confirmed"} /\ (j.pc \in Transaction <=> txn' = s)
  BY <1>1, <1>2, <1>3, SetupAssumption DEF JobSet, Transaction, Nothing
<1> HIDE DEF h, j
<1> QED BY <1>2, <1>3, <1>4, <1>5, <1>6, <1>7, Transacts DEF k


LEMMA SetupCrashKeeps ==
  ASSUME SetupInv, NEW s \in Setups, SetupCrash(s)
  PROVE  SetupInv'
<1> DEFINE k == job[s]
           j == [k EXCEPT !.pc = "dead"]
<1>1. k.pc \in Transaction
  BY DEF SetupCrash, SetupInv
<1>2. txn = s /\ k \in JobSet /\ k.target \in Targets /\ Coherent(repo[k.target])
  BY <1>1, InTransaction
<1>3. /\ repo' = [repo EXCEPT ![k.target] = repo[k.target]] /\ job' = [job EXCEPT ![s] = j]
      /\ txn' = Nothing
  BY <1>2 DEF SetupCrash, SetupInv, SetupGoto, JobSet
<1>4. j \in JobSet /\ j.target = k.target /\ j.before = k.before /\ j.pc = "dead"
  BY <1>2 DEF JobSet, JobPoints
<1>5. s # Nothing
  BY SetupAssumption DEF Nothing
<1> HIDE DEF j
<1> QED BY <1>2, <1>3, <1>4, <1>5, Transacts DEF Transaction

\* Undoing gives the target back, but for what the rollback cannot take away.
LEMMA UndoRestores ==
  ASSUME SetupInv, NEW s \in Setups, Undo(s)
  PROVE  /\ SetupInv'
         /\ RolledBack(job[s].before, repo'[Target(s)], job'[s])
         /\ \A t \in Targets \ {Target(s)} : repo'[t] = repo[t]
         /\ job'[s].left \subseteq job[s].done \cup job[s].left
<1> DEFINE k == job[s]
           b == k.before
           r == repo[k.target]
           took == k.done \cup k.left
<1>1. k.pc = "undo"
  BY DEF Undo, SetupAt
<1>2. /\ txn = s /\ k \in JobSet /\ k.target \in Targets /\ r \in Repos /\ Coherent(r)
      /\ b \in Repos /\ Coherent(b) /\ Made(b, r, k)
  BY <1>1, InTransaction DEF Transaction
<1>3. PICK kept \in SUBSET took :
        LET stays == IF "root" \in k.made THEN kept ELSE kept \cup k.left
            rest == [r EXCEPT !.dir = @ /\ ("root" \in k.made => stays # {}),
                       !.work = [f \in Files |-> IF f \in took \ stays THEN Nothing ELSE @[f]]]
        IN /\ Change(s, IF "git" \notin k.made THEN rest
                        ELSE [rest EXCEPT !.git = FALSE, !.index = {}, !.head = {},
                                          !.exclude = FALSE])
           /\ job' = [job EXCEPT ![s].pc = "failed", ![s].left = stays]
  BY DEF Undo, Here, Target
<1> DEFINE stays == IF "root" \in k.made THEN kept ELSE kept \cup k.left
           own == "git" \in k.made
           work == [f \in Files |-> IF f \in took \ stays THEN Nothing ELSE r.work[f]]
           h == [dir |-> r.dir /\ ("root" \in k.made => stays # {}),
                 git |-> r.git /\ ~own, work |-> work,
                 index |-> IF own THEN {} ELSE r.index, head |-> IF own THEN {} ELSE r.head,
                 deleted |-> r.deleted, exclude |-> r.exclude /\ ~own]
           j == [k EXCEPT !.pc = "failed", !.left = stays]
<1>4. stays \in SUBSET took /\ stays \in SUBSET Files
  BY <1>2 DEF JobSet
<1>5. repo' = [repo EXCEPT ![k.target] = h]
  <2> DEFINE rest == [r EXCEPT !.dir = @ /\ ("root" \in k.made => stays # {}), !.work = work]
  <2>0. repo' = [repo EXCEPT ![k.target] =
                   IF ~own THEN rest
                   ELSE [rest EXCEPT !.git = FALSE, !.index = {}, !.head = {}, !.exclude = FALSE]]
    BY <1>3 DEF Change, Target
  <2> DEFINE up == r.dir /\ ("root" \in k.made => stays # {})
  <2> HIDE DEF work, stays, up
  <2>1. rest = [dir |-> up, git |-> r.git, work |-> work, index |-> r.index, head |-> r.head,
                deleted |-> r.deleted, exclude |-> r.exclude]
    <3>1. rest = [r EXCEPT !.dir = up, !.work = work]
      BY DEF up
    <3> HIDE DEF rest
    <3> QED BY <3>1, <1>2 DEF Repos
  <2>3. r.git \in BOOLEAN /\ r.exclude \in BOOLEAN
    BY <1>2 DEF Repos
  <2>4. h = IF ~own THEN rest
            ELSE [rest EXCEPT !.git = FALSE, !.index = {}, !.head = {}, !.exclude = FALSE]
    <3>1. h.dir = up
      BY DEF up
    <3>2. h = [dir |-> up, git |-> r.git /\ ~own, work |-> work,
               index |-> IF own THEN {} ELSE r.index, head |-> IF own THEN {} ELSE r.head,
               deleted |-> r.deleted, exclude |-> r.exclude /\ ~own]
      BY DEF up
    <3> HIDE DEF h, rest
    <3>3. CASE own
      <4>1. (r.git /\ ~own) = FALSE /\ (r.exclude /\ ~own) = FALSE
        BY <3>3
      <4>2. h = [dir |-> up, git |-> FALSE, work |-> work, index |-> {}, head |-> {},
                 deleted |-> r.deleted, exclude |-> FALSE]
        BY <3>2, <3>3, <4>1
      <4> QED BY <2>1, <3>3, <4>2
    <3>4. CASE ~own
      <4>1. (r.git /\ ~own) = r.git /\ (r.exclude /\ ~own) = r.exclude
        BY <2>3, <3>4
      <4>2. h = rest
        BY <2>1, <3>2, <3>4, <4>1
      <4> QED BY <3>4, <4>2
    <3> QED BY <3>3, <3>4
  <2> HIDE DEF h, rest
  <2> QED BY <2>0, <2>4
<1>6. job' = [job EXCEPT ![s] = j] /\ txn' = Nothing
  BY <1>2, <1>3 DEF Undo, SetupInv, JobSet
<1>7. work \in [Files -> {Nothing, "operator", "setup"}] /\ h \in Repos
  BY <1>2 DEF Repos
<1>8. work = [f \in Files |-> IF f \in stays THEN "setup" ELSE b.work[f]]
  <2>1. \A f \in Files : work[f] = IF f \in stays THEN "setup" ELSE b.work[f]
    BY <1>2, <1>4 DEF Made
  <2> QED BY <2>1
<1>9. /\ h.dir = (b.dir \/ stays # {}) /\ h.git = b.git /\ h.head = b.head
      /\ h.deleted = b.deleted
  <2>1. /\ r.dir \in BOOLEAN /\ r.git \in BOOLEAN /\ b.dir \in BOOLEAN /\ b.git \in BOOLEAN
    BY <1>2 DEF Repos
  <2>2. stays # {} => r.dir
    BY <1>2, <1>4 DEF Made
  <2>3. "root" \notin k.made => r.dir = b.dir
    BY <1>2 DEF Made
  <2>4. "root" \in k.made => ~b.dir
    BY <1>2 DEF Made
  <2>5. IF own THEN ~b.git /\ b.head = {} ELSE r.git = b.git
    BY <1>2 DEF Made, Coherent
  <2>6. r.head = b.head /\ r.deleted = b.deleted
    BY <1>1, <1>2 DEF Made
  <2> HIDE DEF stays, work
  <2> QED BY <2>1, <2>2, <2>3, <2>4, <2>5, <2>6
<1>10. /\ h.index \ (IF k.stuck THEN k.done ELSE {}) = b.index
       /\ (b.exclude => h.exclude) /\ (h.exclude => b.git)
  <2>1. own => b.index = {} /\ ~b.exclude
    BY <1>2 DEF Made, Coherent
  <2>2. ~own => r.index \ (IF k.stuck THEN k.done ELSE {}) = b.index
    BY <1>1, <1>2 DEF Made
  <2>3. (b.exclude => r.exclude) /\ (r.exclude => r.git) /\ (~own => r.git = b.git)
    BY <1>2 DEF Made, Coherent
  <2> HIDE DEF stays, work
  <2> QED BY <2>1, <2>2, <2>3
<1>11. Coherent(h)
  <2>1. ~h.dir => stays = {} /\ ~b.dir
    BY <1>9
  <2>2. ~b.dir => b = Absent
    BY <1>2 DEF Coherent
  <2>3. ~h.dir => /\ work = [f \in Files |-> Nothing] /\ ~h.git /\ h.head = {}
                  /\ h.deleted = {}
    BY <1>8, <1>9, <2>1, <2>2 DEF Absent
  <2>4. ~h.git => h.index = {} /\ h.head = {} /\ ~h.exclude
    BY <1>2 DEF Coherent, Repos
  <2> HIDE DEF stays, work
  <2>5. ~h.dir => h = Absent
    BY <2>3, <2>4, <1>7 DEF Absent, Repos
  <2> HIDE DEF h
  <2> QED BY <1>7, <2>4, <2>5 DEF Coherent
<1>12. /\ j \in JobSet /\ j.target = k.target /\ j.before = b /\ j.pc = "failed"
       /\ j.left = stays /\ j.stuck = k.stuck /\ j.done = k.done
  BY <1>2, <1>4 DEF JobSet, JobPoints
<1>13. s # Nothing
  BY SetupAssumption DEF Nothing
<1>14. h.work = work
  OBVIOUS
<1> HIDE DEF h, j, work, stays
<1>15. SetupInv'
  BY <1>2, <1>5, <1>6, <1>11, <1>12, <1>13, Transacts DEF Transaction
<1>16. repo'[Target(s)] = h /\ job'[s] = j /\ \A t \in Targets \ {Target(s)} : repo'[t] = repo[t]
  BY <1>2, <1>5, <1>6 DEF SetupInv, Target
<1> QED BY <1>4, <1>8, <1>9, <1>10, <1>12, <1>14, <1>15, <1>16 DEF RolledBack

-----------------------------------------------------------------------------
(* Steps outside the transaction. *)

LEMMA ProposeKeeps ==
  ASSUME SetupInv, NEW s \in Setups, NEW t \in Targets, Propose(s, t)
  PROVE  SetupInv'
<1> DEFINE j == [job[s] EXCEPT !.pc = "confirmed", !.target = t, !.seen = Expectation(t)]
<1>1. job[s] \in JobSet /\ job[s].pc = "idle" /\ Unmade(job[s]) /\ txn # s
  BY DEF SetupInv, Propose, SetupAt, Transaction
<1>2. job' = [job EXCEPT ![s] = j] /\ UNCHANGED <<repo, txn>>
  BY <1>1 DEF Propose, SetupInv, JobSet
<1>3. j \in JobSet /\ j.pc = "confirmed" /\ j.target = t /\ Unmade(j)
  BY <1>1 DEF JobSet, JobPoints, Expectation, SetupInv, Repos, Unmade
<1> HIDE DEF j
<1> QED BY <1>1, <1>2, <1>3 DEF SetupInv, Coherent, Unmade, Made, Transaction

LEMMA BeginSetupKeeps ==
  ASSUME SetupInv, NEW s \in Setups, BeginSetup(s)
  PROVE  SetupInv'
<1> DEFINE k == job[s]
           r == repo[k.target]
<1>1. /\ k \in JobSet /\ k.pc = "confirmed" /\ k.target \in Targets /\ Unmade(k) /\ txn = Nothing
      /\ r \in Repos /\ Coherent(r) /\ UNCHANGED repo
  BY DEF SetupInv, BeginSetup, SetupAt
<1>2. CASE job' = [job EXCEPT ![s].pc = "refused"] /\ txn' = txn
  <2> DEFINE j == [k EXCEPT !.pc = "refused"]
  <2>1. job' = [job EXCEPT ![s] = j] /\ j \in JobSet /\ j.pc = "refused" /\ j.target = k.target
    BY <1>1, <1>2 DEF SetupInv, JobSet, JobPoints
  <2>2. s # Nothing
    BY SetupAssumption DEF Nothing
  <2> HIDE DEF j
  <2> QED BY <1>1, <1>2, <2>1, <2>2 DEF SetupInv, Coherent, Unmade, Made, Transaction
<1>3. ASSUME NEW free \in FreePorts, txn' = s,
             job' = [job EXCEPT ![s].pc = "root", ![s].port = free, ![s].before = Here(s)]
      PROVE  SetupInv'
  <2> DEFINE j == [k EXCEPT !.pc = "root", !.port = free, !.before = r]
  <2>1. /\ job' = [job EXCEPT ![s] = j] /\ j \in JobSet /\ j.pc = "root" /\ j.target = k.target
        /\ j.before = r /\ Unmade(j)
    <3>1. job' = [job EXCEPT ![s] = j]
      BY <1>1, <1>3 DEF SetupInv, JobSet, Here, Target
    <3> QED BY <1>1, <1>3, <3>1 DEF JobSet, JobPoints, Transaction, FreePorts, Unmade
  <2>2. Made(j.before, r, j)
    BY <1>1, <2>1 DEF Made, Unmade, Coherent, Repos
  <2>3. \A u \in Setups : job[u].pc \notin Transaction
    BY <1>1, SetupAssumption DEF SetupInv, Nothing
  <2> HIDE DEF j
  <2>4. /\ job' \in [Setups -> JobSet] /\ job'[s] = j
        /\ \A u \in Setups : u # s => job'[u] = job[u]
    BY <2>1 DEF SetupInv
  <2>5. ASSUME NEW u \in Setups
        PROVE  /\ job'[u].pc \in {"idle", "confirmed"} => Unmade(job'[u])
               /\ job'[u].pc # "idle" => job'[u].target \in Targets
               /\ job'[u].pc \in Transaction <=> txn' = u
               /\ job'[u].pc \in Transaction =>
                    /\ Coherent(job'[u].before)
                    /\ Made(job'[u].before, repo[job'[u].target], job'[u])
    <3>1. CASE u = s
      BY <1>1, <1>3, <2>1, <2>2, <2>4, <3>1 DEF Transaction
    <3>2. CASE u # s
      BY <1>3, <2>3, <2>4, <3>2 DEF SetupInv
    <3> QED BY <3>1, <3>2
  <2>6. \A u \in Setups : /\ Coherent(job[u].before)' <=> Coherent(job'[u].before)
                          /\ Unmade(job[u])' <=> Unmade(job'[u])
                          /\ Made(job[u].before, repo[job[u].target], job[u])'
                               <=> Made(job'[u].before, repo[job'[u].target], job'[u])
    BY <1>1 DEF Coherent, Unmade, Made
  <2>7. \A u \in Targets : Coherent(repo[u])'
    BY <1>1 DEF SetupInv, Coherent
  <2> QED BY <1>1, <1>3, <2>4, <2>5, <2>6, <2>7 DEF SetupInv
<1> QED BY <1>2, <1>3 DEF BeginSetup, SetupGoto

LEMMA OperatorCreatesKeeps ==
  ASSUME SetupInv, NEW t \in Targets, OperatorCreates(t)
  PROVE  SetupInv'
<1> DEFINE r == repo[t]
           h == [r EXCEPT !.dir = TRUE, !.git = r.dir]
<1>1. r \in Repos /\ Coherent(r) /\ ~r.git /\ txn = Nothing /\ UNCHANGED <<txn, job>>
  BY DEF SetupInv, OperatorCreates
<1>2. repo' = [repo EXCEPT ![t] = h] /\ h \in Repos
  BY <1>1 DEF OperatorCreates, SetupInv, Repos
<1>3. Coherent(h)
  BY <1>1, <1>2 DEF Coherent, Repos, Absent
<1>4. \A u \in Setups : job[u].pc \notin Transaction
  BY <1>1, SetupAssumption DEF SetupInv, Nothing
<1> HIDE DEF h
<1>5. repo' \in [Targets -> Repos] /\ \A u \in Targets : Coherent(repo'[u])
  BY <1>2, <1>3 DEF SetupInv
<1> QED BY <1>1, <1>4, <1>5 DEF SetupInv, Coherent, Unmade

LEMMA SetupStarts == InitSetup => SetupInv
<1> SUFFICES ASSUME InitSetup PROVE SetupInv
  OBVIOUS
<1>1. Absent \in Repos /\ Coherent(Absent)
  BY DEF Absent, Repos, Coherent, Nothing
<1>2. \A own \in SUBSET Files : Plain(own) \in Repos /\ Coherent(Plain(own))
  <2> SUFFICES ASSUME NEW own \in SUBSET Files
               PROVE  Plain(own) \in Repos /\ Coherent(Plain(own))
    OBVIOUS
  <2> DEFINE w == [f \in Files |-> IF f \in own THEN "operator" ELSE Nothing]
  <2>1. w \in [Files -> {Nothing, "operator", "setup"}]
    OBVIOUS
  <2>2. Plain(own) = [Absent EXCEPT !.dir = TRUE, !.work = w]
    BY DEF Plain
  <2>3. Absent \in Repos /\ Absent.index = {} /\ Absent.head = {} /\ ~Absent.exclude
    BY <1>1 DEF Absent
  <2> HIDE DEF w
  <2> QED BY <2>1, <2>2, <2>3 DEF Repos, Coherent
<1>3. \A own, gone \in SUBSET Files, listed \in BOOLEAN : Coherent(Tracked(own, gone, listed))
  <2> SUFFICES ASSUME NEW own \in SUBSET Files, NEW gone \in SUBSET Files, NEW listed \in BOOLEAN
               PROVE  Coherent(Tracked(own, gone, listed))
    OBVIOUS
  <2> DEFINE p == [Plain(own) EXCEPT !.git = TRUE]
             q == [p EXCEPT !.head = gone]
             r == [q EXCEPT !.deleted = gone]
             k == [r EXCEPT !.exclude = listed]
  <2>1. Plain(own) \in Repos /\ Plain(own).dir
    BY <1>2 DEF Plain, Absent
  <2>2. p \in Repos /\ p.dir /\ p.git
    BY <2>1 DEF Repos
  <2>3. Tracked(own, gone, listed) = k
    BY DEF Tracked
  <2> HIDE DEF p
  <2>4. q \in Repos /\ q.dir /\ q.git
    BY <2>2 DEF Repos
  <2> HIDE DEF q
  <2>5. r \in Repos /\ r.dir /\ r.git
    BY <2>4 DEF Repos
  <2> HIDE DEF r
  <2>6. k \in Repos /\ k.dir /\ k.git
    BY <2>5 DEF Repos
  <2> HIDE DEF k
  <2> QED BY <2>3, <2>6 DEF Coherent
<1>4. \A t \in Targets : Coherent(repo[t])
  <2> SUFFICES ASSUME NEW t \in Targets PROVE Coherent(repo[t])
    OBVIOUS
  <2> DEFINE kinds == {q \in (SUBSET Files) \X (SUBSET Files) \X BOOLEAN : q[1] \cap q[2] = {}}
  <2>1. repo[t] \in {Absent} \cup {Plain(own) : own \in SUBSET Files}
                  \cup {Tracked(p[1], p[2], p[3]) : p \in kinds}
    BY DEF InitSetup
  <2>2. CASE repo[t] \in {Tracked(p[1], p[2], p[3]) : p \in kinds}
    <3>1. PICK p \in kinds : repo[t] = Tracked(p[1], p[2], p[3])
      BY <2>2
    <3>2. p[1] \in SUBSET Files /\ p[2] \in SUBSET Files /\ p[3] \in BOOLEAN
      BY <3>1
    <3> QED BY <1>3, <3>1, <3>2
  <2> QED BY <1>1, <1>2, <2>1, <2>2
<1>5. repo \in [Targets -> Repos]
  <2>1. \A t \in Targets : repo[t] \in Repos
    BY <1>4 DEF Coherent
  <2>2. repo = [t \in Targets |-> repo[t]]
    BY DEF InitSetup
  <2> QED BY <2>1, <2>2
<1>6. job \in [Setups -> JobSet]
  BY DEF InitSetup, JobSet, JobPoints, Nothing
<1>7. \A s \in Setups : job[s].pc = "idle" /\ Unmade(job[s]) /\ s # Nothing
  BY SetupAssumption DEF InitSetup, Unmade, Nothing
<1> QED BY <1>4, <1>5, <1>6, <1>7 DEF SetupInv, InitSetup, Transaction

LEMMA SetupStepKeeps == SetupInv /\ [NextSetup]_setupVars => SetupInv'
<1> SUFFICES ASSUME SetupInv, [NextSetup]_setupVars PROVE SetupInv'
  OBVIOUS
<1>1. ASSUME NEW s \in Setups, ProjectStep(s) PROVE SetupInv'
  BY <1>1, ProposeKeeps, BeginSetupKeeps, MakeRootKeeps, GitInitKeeps, CheckResourcesKeeps,
     StageFilesKeeps, CommitKeeps, RegisterKeeps, UnstageKeeps, UnstageFailsKeeps, UndoRestores,
     CopyFileKeeps, CopyBreaksKeeps DEF ProjectStep
<1>2. ASSUME NEW t \in Targets, Remove(t) PROVE SetupInv'
  BY <1>2 DEF Remove, SetupInv, Coherent, Unmade, Made
<1>3. CASE UNCHANGED setupVars
  BY <1>3 DEF setupVars, SetupInv, Coherent, Unmade, Made
<1> QED BY <1>1, <1>2, <1>3, FailKeeps, SetupCrashKeeps, OperatorCreatesKeeps DEF NextSetup

(* The inductive invariant of project setups: what the setup that has the  *)
(* transaction has made of its target so far, step by step.                *)
THEOREM SetupIsSound == SetupSpec => []SetupInv
<1> QED BY SetupStarts, SetupStepKeeps, PTL DEF SetupSpec

(* A setup that fails before its commit leaves the target as it found it   *)
(* but for the excludes it wrote, the file a copy broke off in, what could *)
(* not be removed and, if Git refused to unstage, what it had staged       *)
(* (projects.py _create_or_adopt_project_locked and _cleanup_created), for *)
(* any setups, targets, bundle files, ports and failures.                  *)
THEOREM RollbacksAreExact == SetupSpec => RollbackIsExact
<1>1. ASSUME SetupInv, [NextSetup]_setupVars, NEW s \in Setups,
             job[s].pc = "undo", job'[s].pc = "failed"
      PROVE  RolledBack(job[s].before, repo'[Target(s)], job'[s])
  <2>1. CASE Undo(s)
    BY <1>1, <2>1, UndoRestores
  <2>2. CASE ~Undo(s)
    <3>1. job \in [Setups -> JobSet]
      BY <1>1 DEF SetupInv
    <3>2. ASSUME NEW u \in Setups, ProjectStep(u) \/ Fail(u) \/ SetupCrash(u), u # s PROVE FALSE
      BY <1>1, <3>1, <3>2
         DEF ProjectStep, Propose, BeginSetup, MakeRoot, GitInit, CheckResources, StageFiles,
             Commit, Register, Unstage, UnstageFails, Undo, CopyFile, CopyBreaks, Fail,
             SetupCrash, SetupGoto
    <3>3. ASSUME ProjectStep(s) \/ Fail(s) \/ SetupCrash(s) PROVE FALSE
      BY <1>1, <2>2, <3>1, <3>3
         DEF ProjectStep, Propose, BeginSetup, MakeRoot, GitInit, CheckResources, StageFiles,
             Commit, Register, Unstage, UnstageFails, CopyFile, CopyBreaks, Fail, SetupCrash, SetupGoto, SetupAt, JobSet
    <3> QED BY <1>1, <3>2, <3>3 DEF NextSetup, Remove, OperatorCreates, setupVars
  <2> QED BY <2>1, <2>2
<1>2. SetupInv /\ [NextSetup]_setupVars =>
        \A s \in Setups : job[s].pc = "undo" /\ job'[s].pc = "failed" =>
          RolledBack(job[s].before, repo'[Target(s)], job'[s])
  BY <1>1
<1> QED BY <1>2, SetupIsSound, PTL DEF SetupSpec, RollbackIsExact

(* No setup, failed, interrupted or repeated, overwrites or removes a      *)
(* bundle file the operator already had (projects.py _copy_missing_file).  *)
THEOREM OperatorFilesAreKept == SetupSpec => OperatorFilesStay
<1>1. ASSUME SetupInv, [NextSetup]_setupVars, NEW t \in Targets, NEW f \in Files,
             repo[t].work[f] = "operator"
      PROVE  repo'[t].work[f] = "operator"
  <2>1. repo \in [Targets -> Repos] /\ \A s \in Setups : job[s] \in JobSet
    BY <1>1 DEF SetupInv
  <2>2. ASSUME NEW s \in Setups, job[s].pc \in Transaction,
               NEW h \in Repos, h.work = repo[Target(s)].work, Change(s, h)
        PROVE  repo'[t].work[f] = "operator"
    BY <1>1, <2>1, <2>2, InTransaction DEF Change, Target
  <2>3. ASSUME NEW s \in Setups,
               \/ MakeRoot(s) \/ GitInit(s) \/ CheckResources(s) \/ StageFiles(s)
               \/ Commit(s) \/ Unstage(s)
        PROVE  repo'[t].work[f] = "operator"
    <3>1. job[s].pc \in Transaction
      BY <2>3
         DEF MakeRoot, GitInit, CheckResources, StageFiles, Commit, Unstage, SetupAt, Transaction
    <3>2. repo[Target(s)] \in Repos /\ job[s] \in JobSet
      BY <1>1, <3>1, InTransaction DEF Target
    <3> QED BY <2>2, <2>3, <3>1, <3>2
            DEF MakeRoot, GitInit, CheckResources, StageFiles, Commit, Unstage, Here, Repos, JobSet
  <2>4. ASSUME NEW s \in Setups, NEW g \in Files, CopyFile(s, g) \/ CopyBreaks(s, g)
        PROVE  repo'[t].work[f] = "operator"
    <3>1. job[s].pc \in Transaction /\ repo[Target(s)].work[g] = Nothing
      BY <2>4 DEF CopyFile, CopyBreaks, SetupAt, Transaction, Wanted, Here
    <3>2. repo[Target(s)] \in Repos /\ Target(s) \in Targets
      BY <1>1, <3>1, InTransaction DEF Target
    <3>3. t = Target(s) => f # g
      BY <1>1, <3>1 DEF Nothing
    <3> QED BY <1>1, <2>1, <2>4, <3>2, <3>3 DEF CopyFile, CopyBreaks, Change, Here, Repos
  <2>5. ASSUME NEW s \in Setups, Undo(s)
        PROVE  repo'[t].work[f] = "operator"
    <3>1. job[s].pc \in Transaction
      BY <2>5 DEF Undo, SetupAt, Transaction
    <3>2. t = Target(s) =>
            f \notin job[s].done \cup job[s].left /\ job[s].before.work[f] = "operator"
      BY <1>1, <3>1, InTransaction DEF Made, Target
    <3>3. job'[s].left \subseteq job[s].done \cup job[s].left
      BY <1>1, <2>5, UndoRestores
    <3>4. CASE t = Target(s)
      <4>1. RolledBack(job[s].before, repo'[t], job'[s])
        BY <1>1, <2>5, <3>4, UndoRestores
      <4> QED BY <3>2, <3>3, <3>4, <4>1 DEF RolledBack
    <3>5. CASE t # Target(s)
      BY <1>1, <2>5, <3>5, UndoRestores
    <3> QED BY <3>4, <3>5
  <2>6. ASSUME NEW u \in Targets, OperatorCreates(u)
        PROVE  repo'[t].work[f] = "operator"
    BY <1>1, <2>1, <2>6 DEF OperatorCreates, Repos
  <2>7. ASSUME NEW s \in Setups,
               (\E u \in Targets : Propose(s, u)) \/ BeginSetup(s) \/ UnstageFails(s)
               \/ Register(s) \/ Fail(s) \/ SetupCrash(s)
        PROVE  UNCHANGED repo
    BY <2>7 DEF Propose, BeginSetup, UnstageFails, Register, Fail, SetupCrash
  <2> QED BY <1>1, <2>3, <2>4, <2>5, <2>6, <2>7 DEF NextSetup, ProjectStep, Remove, setupVars
<1>2. SetupInv /\ [NextSetup]_setupVars =>
        \A t \in Targets, f \in Files :
          repo[t].work[f] = "operator" => repo'[t].work[f] = "operator"
  BY <1>1
<1> QED BY <1>2, SetupIsSound, PTL DEF SetupSpec, OperatorFilesStay

-----------------------------------------------------------------------------
(* Cards of chat sessions.                                                 *)
IntentSet == [st : Statuses, task : {"none", "file", "artifact"}, due : BOOLEAN, seq : Nat]
SetupSet == [st : Statuses, task : BOOLEAN, due : BOOLEAN, seq : Nat,
             choice : Choices \cup {CHOOSE c \in Choices : TRUE}, active : BOOLEAN]

\* A card that is being filed is running; every ticket of a card but one is
\* owed to an artifact that was not written, and the one not yet excused to a
\* filing that goes on or ended well.
Filing(c, n) ==
  /\ c.task # "none" => c.st = "running"
  /\ n <= diskFaults + (IF c.task = "artifact" \/ c.st \in {"approved", "removed"} THEN 1 ELSE 0)

IntentsSound ==
  /\ intent \in [Intents -> IntentSet] /\ tickets \in [Intents -> Nat] /\ diskFaults \in Nat
  /\ \A i \in Intents : Filing(intent[i], tickets[i])
  /\ \A i, j \in Intents : intent[i].st = "pending" /\ intent[j].st = "pending" => i = j

\* A setup under way is running; a number selects a pending one.
Numbered(s, c) ==
  /\ c.task => c.st = "running"
  /\ c.active => c.st = "pending" /\ s \in fresh

NumbersSound ==
  /\ setup \in [SetupCards -> SetupSet]
  /\ \A s \in SetupCards : Numbered(s, setup[s])
  /\ \A s, u \in SetupCards :
       setup[s].active /\ setup[u].active /\ setup[s].choice = setup[u].choice => s = u

\* A setup that ran when the stop began is in the transcript, or the stop
\* still waits for it.
StopSound ==
  /\ session \in {"live", "turn", "setups", "backend", "flush", "gone"}
  /\ atStop \subseteq SetupCards /\ (session = "live" => atStop = {})
  /\ \A s \in atStop :
       s \in transcript \/ (setup[s].task /\ (session \in {"turn", "setups"} => s \in left))
  /\ session \in {"backend", "flush", "gone"} => atStop \subseteq transcript

CardsInv == clock \in Nat /\ IntentsSound /\ NumbersSound /\ StopSound

-----------------------------------------------------------------------------
(* What tidying does to a card. *)

Tidied(c, d) ==
  /\ d \in IntentSet /\ d.task = c.task
  /\ d.st = c.st \/ /\ c.st \in {"pending", "failed", "approved", "expired", "superseded"}
                    /\ d.st \in {"expired", "superseded", "removed"}
                    /\ c.st = "approved" => d.st = "removed"

Trimmed(c, d) ==
  /\ d \in SetupSet /\ d.task = c.task /\ d.choice = c.choice
  /\ d.st = c.st \/ (c.st # "running" /\ c.st # "none")
  /\ d.active => c.active /\ d.st = c.st

LEMMA PruneIs ==
  ASSUME NEW cards, NEW settled, "none" \notin settled, "removed" \notin settled
  PROVE  \A a \in DOMAIN cards :
           \/ Prune(cards, settled)[a] = cards[a]
           \/ /\ cards[a].st \in settled
              /\ Prune(cards, settled)[a] = [cards[a] EXCEPT !.st = "removed"]
<1>1. \A a \in Evicted(cards, settled) : cards[a].st \in settled
  BY DEF Evicted
<1>2. \A a \in DOMAIN cards :
        Prune(cards, settled)[a] = IF a \in Evicted(cards, settled)
                                   THEN [cards[a] EXCEPT !.st = "removed"] ELSE cards[a]
  BY DEF Prune
<1> QED BY <1>1, <1>2

LEMMA ExpiryTidies ==
  ASSUME intent \in [Intents -> IntentSet]
  PROVE  /\ ExpireIntents \in [Intents -> IntentSet]
         /\ \A i \in Intents : Tidied(intent[i], ExpireIntents[i])
<1>1. ASSUME NEW i \in Intents
      PROVE  ExpireIntents[i] \in IntentSet /\ Tidied(intent[i], ExpireIntents[i])
  BY DEF ExpireIntents, Expired, IntentSet, Statuses, Tidied
<1>2. ExpireIntents = [i \in Intents |-> Expired(intent[i])]
  BY DEF ExpireIntents
<1> QED BY <1>1, <1>2

\* No pending card is left once the pending ones have given way.
LEMMA SupersedingTidies ==
  ASSUME NEW cards \in [Intents -> IntentSet],
         \A i \in Intents : cards[i].st = "pending" => cards[i].task = "none"
  PROVE  /\ Supersede(cards) \in [Intents -> IntentSet]
         /\ \A i \in Intents : /\ Tidied(cards[i], Supersede(cards)[i])
                               /\ Supersede(cards)[i].st # "pending"
<1>1. ASSUME NEW i \in Intents
      PROVE  /\ Supersede(cards)[i] \in IntentSet /\ Tidied(cards[i], Supersede(cards)[i])
             /\ Supersede(cards)[i].st # "pending"
  BY DEF Supersede, IntentSet, Statuses, Tidied
<1>2. Supersede(cards) = [i \in Intents |->
        IF cards[i].st = "pending" /\ cards[i].task = "none"
        THEN [cards[i] EXCEPT !.st = "superseded"] ELSE cards[i]]
  BY DEF Supersede
<1> QED BY <1>1, <1>2

LEMMA PruningTidies ==
  ASSUME NEW cards \in [Intents -> IntentSet]
  PROVE  LET kept == Prune(cards, {"approved", "expired", "superseded"})
         IN  /\ kept \in [Intents -> IntentSet]
             /\ \A i \in Intents : Tidied(cards[i], kept[i])
<1> DEFINE settled == {"approved", "expired", "superseded"}
           kept == Prune(cards, settled)
<1>1. \A i \in Intents : \/ kept[i] = cards[i]
                         \/ /\ cards[i].st \in settled
                            /\ kept[i] = [cards[i] EXCEPT !.st = "removed"]
  BY PruneIs
<1>2. \A i \in Intents : kept[i] \in IntentSet /\ Tidied(cards[i], kept[i])
  <2> SUFFICES ASSUME NEW i \in Intents
               PROVE  kept[i] \in IntentSet /\ Tidied(cards[i], kept[i])
    OBVIOUS
  <2> HIDE DEF kept
  <2> QED BY <1>1 DEF IntentSet, Statuses, Tidied
<1>3. kept = [i \in Intents |-> kept[i]]
  BY DEF Prune
<1> HIDE DEF kept
<1> QED BY <1>2, <1>3 DEF kept

LEMMA TidyingComposes ==
  ASSUME NEW c \in IntentSet, NEW d \in IntentSet, NEW e, Tidied(c, d), Tidied(d, e)
  PROVE  Tidied(c, e)
BY DEF Tidied

LEMMA TidyingKeepsFiling ==
  ASSUME NEW c \in IntentSet, NEW d, NEW n \in Nat, diskFaults \in Nat, Tidied(c, d), Filing(c, n)
  PROVE  Filing(d, n)
BY DEF Tidied, Filing, IntentSet

LEMMA ExpiryTrims ==
  ASSUME NumbersSound
  PROVE  /\ ExpireSetups \in [SetupCards -> SetupSet]
         /\ \A s \in SetupCards : Trimmed(setup[s], ExpireSetups[s])
<1>1. ASSUME NEW s \in SetupCards
      PROVE  ExpireSetups[s] \in SetupSet /\ Trimmed(setup[s], ExpireSetups[s])
  <2>1. setup[s] \in SetupSet /\ Numbered(s, setup[s])
    BY DEF NumbersSound
  <2>2. CASE setup[s].st \in {"pending", "failed"} /\ setup[s].due
    <3>1. ExpireSetups[s] = [setup[s] EXCEPT !.st = "expired", !.active = FALSE]
      BY <2>1, <2>2 DEF ExpireSetups, Expired, SetupSet
    <3> QED BY <2>1, <2>2, <3>1 DEF SetupSet, Statuses, Trimmed
  <2>3. CASE ~(setup[s].st \in {"pending", "failed"} /\ setup[s].due)
    <3>1. ExpireSetups[s] \in {setup[s], [setup[s] EXCEPT !.active = FALSE]}
      BY <2>3 DEF ExpireSetups, Expired
    <3> QED BY <2>1, <3>1 DEF SetupSet, Statuses, Trimmed
  <2> QED BY <2>2, <2>3
<1>2. ExpireSetups = [s \in SetupCards |-> ExpireSetups[s]]
  BY DEF ExpireSetups
<1> HIDE DEF ExpireSetups
<1> QED BY <1>1, <1>2

\* Cards that trimming has gone over are numbered as before.
LEMMA TrimmedIsSound ==
  ASSUME NumbersSound, NEW cards \in [SetupCards -> SetupSet],
         \A s \in SetupCards : Trimmed(setup[s], cards[s])
  PROVE  /\ \A s \in SetupCards : Numbered(s, cards[s])
         /\ \A s, u \in SetupCards :
              cards[s].active /\ cards[u].active /\ cards[s].choice = cards[u].choice => s = u
BY DEF NumbersSound, Numbered, Trimmed, SetupSet

LEMMA PruningTrims ==
  ASSUME NumbersSound, NEW cards \in [SetupCards -> SetupSet],
         \A s \in SetupCards : Trimmed(setup[s], cards[s])
  PROVE  LET kept == Prune(cards, {"succeeded", "expired"})
         IN  /\ kept \in [SetupCards -> SetupSet]
             /\ \A s \in SetupCards : /\ Trimmed(setup[s], kept[s])
                                      /\ kept[s].active => cards[s].active
<1> DEFINE settled == {"succeeded", "expired"}
           kept == Prune(cards, settled)
<1>1. \A s \in SetupCards : \/ kept[s] = cards[s]
                            \/ /\ cards[s].st \in settled
                               /\ kept[s] = [cards[s] EXCEPT !.st = "removed"]
  BY PruneIs
<1>2. ASSUME NEW s \in SetupCards
      PROVE  /\ kept[s] \in SetupSet /\ Trimmed(setup[s], kept[s])
             /\ kept[s].active => cards[s].active
  <2>1. Numbered(s, setup[s]) /\ setup[s] \in SetupSet /\ Trimmed(setup[s], cards[s])
        /\ cards[s] \in SetupSet
    BY DEF NumbersSound
  <2>2. CASE kept[s] = cards[s]
    BY <2>1, <2>2
  <2>3. CASE cards[s].st \in settled /\ kept[s] = [cards[s] EXCEPT !.st = "removed"]
    <3>1. ~cards[s].active /\ cards[s].st # "running" /\ setup[s].st # "running" /\ setup[s].st # "none"
      BY <2>1, <2>3 DEF Numbered, Trimmed
    <3>2. /\ kept[s] \in SetupSet /\ ~kept[s].active /\ kept[s].task = cards[s].task
          /\ kept[s].choice = cards[s].choice
      <4> HIDE DEF kept
      <4> QED BY <2>1, <2>3, <3>1 DEF SetupSet, Statuses
    <3> HIDE DEF kept
    <3> QED BY <2>1, <3>1, <3>2 DEF Trimmed
  <2> HIDE DEF kept
  <2> QED BY <1>1, <2>2, <2>3
<1>3. kept = [s \in SetupCards |-> kept[s]]
  BY DEF Prune
<1> HIDE DEF kept
<1> QED BY <1>2, <1>3 DEF kept

-----------------------------------------------------------------------------
(* Steps of intents. *)

setupCardVars == <<setup, session, left, transcript, atStop, fresh>>

LEMMA SetupsRest ==
  ASSUME CardsInv, UNCHANGED setupCardVars
  PROVE  NumbersSound' /\ StopSound'
BY DEF CardsInv, NumbersSound, StopSound, Numbered, setupCardVars

LEMMA IntentsRest ==
  ASSUME CardsInv, UNCHANGED <<intent, tickets, diskFaults>>
  PROVE  IntentsSound'
BY DEF CardsInv, IntentsSound, Filing

LEMMA ProposeIntentKeeps ==
  ASSUME CardsInv, NEW i \in Intents, ProposeIntent(i)
  PROVE  CardsInv'
<1> DEFINE e == ExpireIntents
           u == Supersede(e)
           kept == Prune(u, {"approved", "expired", "superseded"})
<1>1. e \in [Intents -> IntentSet] /\ \A j \in Intents : Tidied(intent[j], e[j])
  BY ExpiryTidies DEF CardsInv, IntentsSound
<1>2. \A j \in Intents : intent[j] \in IntentSet /\ Filing(intent[j], tickets[j]) /\ tickets[j] \in Nat
  BY DEF CardsInv, IntentsSound
<1>3. \A j \in Intents : e[j].st = "pending" => e[j].task = "none"
  BY <1>1, <1>2 DEF Tidied, Filing, IntentSet
<1> HIDE DEF e
<1>4. /\ u \in [Intents -> IntentSet]
      /\ \A j \in Intents : Tidied(e[j], u[j]) /\ u[j].st # "pending"
  BY <1>1, <1>3, SupersedingTidies
<1> HIDE DEF u
<1>5. kept \in [Intents -> IntentSet] /\ \A j \in Intents : Tidied(u[j], kept[j])
  BY <1>4, PruningTidies
<1> HIDE DEF kept
<1>6. ASSUME NEW j \in Intents
      PROVE  Tidied(intent[j], kept[j]) /\ kept[j].st # "pending" /\ Filing(kept[j], tickets[j])
  <2>1. Tidied(intent[j], u[j])
    BY <1>1, <1>2, <1>4, TidyingComposes
  <2>2. Tidied(intent[j], kept[j])
    BY <1>2, <1>4, <1>5, <2>1, TidyingComposes
  <2>3. kept[j].st # "pending"
    BY <1>4, <1>5 DEF Tidied
  <2>4. diskFaults \in Nat
    BY DEF CardsInv, IntentsSound
  <2> QED BY <1>2, <2>2, <2>3, <2>4, TidyingKeepsFiling
<1>7. intent[i].st = "none" /\ kept[i].st = "none" /\ clock \in Nat
  BY <1>6 DEF ProposeIntent, IsNew, Tidied, CardsInv
<1>8. intent' \in {kept, [kept EXCEPT ![i] = [@ EXCEPT !.st = "pending", !.seq = clock]]}
  BY DEF ProposeIntent, kept, u, e
<1>9. UNCHANGED <<tickets, diskFaults>> /\ UNCHANGED setupCardVars /\ clock' \in Nat
  BY <1>7 DEF ProposeIntent, setupCardVars
<1>10. IntentsSound'
  <2>1. diskFaults \in Nat /\ tickets \in [Intents -> Nat]
    BY DEF CardsInv, IntentsSound
  <2>2. CASE intent' = kept
    BY <1>5, <1>6, <1>9, <2>1, <2>2 DEF IntentsSound, Filing
  <2>3. CASE intent' = [kept EXCEPT ![i] = [@ EXCEPT !.st = "pending", !.seq = clock]]
    <3> DEFINE d == [kept[i] EXCEPT !.st = "pending", !.seq = clock]
    <3>1. d \in IntentSet /\ d.st = "pending" /\ d.task = kept[i].task
      BY <1>5, <1>7 DEF IntentSet, Statuses
    <3>2. intent' = [kept EXCEPT ![i] = d]
      BY <2>3
    <3>3. Filing(d, tickets[i])
      BY <1>2, <1>6, <1>7, <2>1, <3>1 DEF Filing
    <3> HIDE DEF d
    <3>4. /\ intent' \in [Intents -> IntentSet] /\ intent'[i] = d
          /\ \A j \in Intents : j # i => intent'[j] = kept[j]
      BY <1>5, <3>1, <3>2
    <3>5. \A j \in Intents : Filing(intent'[j], tickets[j])
      BY <1>6, <3>3, <3>4
    <3>6. \A j, l \in Intents : intent'[j].st = "pending" /\ intent'[l].st = "pending" => j = l
      BY <1>6, <3>4
    <3> QED BY <1>9, <2>1, <3>4, <3>5, <3>6 DEF IntentsSound, Filing
  <2> QED BY <1>8, <2>2, <2>3
<1> QED BY <1>9, <1>10, SetupsRest DEF CardsInv

\* One card moves on.
LEMMA CardMoves ==
  ASSUME CardsInv, NEW i \in Intents,
         intent' = [intent EXCEPT ![i] = intent'[i]], tickets' = [tickets EXCEPT ![i] = tickets'[i]],
         intent'[i] \in IntentSet, tickets'[i] \in Nat, diskFaults' \in Nat, diskFaults' >= diskFaults,
         intent'[i].task # "none" => intent'[i].st = "running",
         \/ tickets'[i] <= diskFaults'
         \/ /\ tickets'[i] <= diskFaults' + 1
            /\ intent'[i].task = "artifact" \/ intent'[i].st \in {"approved", "removed"},
         intent'[i].st # "pending" \/ intent'[i].st = intent[i].st
  PROVE  IntentsSound'
<1>1. /\ intent' \in [Intents -> IntentSet] /\ tickets' \in [Intents -> Nat]
      /\ \A j \in Intents : j # i => intent'[j] = intent[j] /\ tickets'[j] = tickets[j]
  BY DEF CardsInv, IntentsSound
<1>2. ASSUME NEW j \in Intents PROVE Filing(intent[j], tickets[j])'
  <2>1. CASE j = i
    BY <1>1, <2>1 DEF Filing
  <2>2. CASE j # i
    <3>1. Filing(intent[j], tickets[j]) /\ tickets[j] \in Nat /\ diskFaults \in Nat
      BY DEF CardsInv, IntentsSound
    <3> QED BY <1>1, <2>2, <3>1 DEF Filing
  <2> QED BY <2>1, <2>2
<1>3. \A j, l \in Intents : intent'[j].st = "pending" /\ intent'[l].st = "pending" => j = l
  BY <1>1 DEF CardsInv, IntentsSound
<1> QED BY <1>1, <1>2, <1>3 DEF IntentsSound

LEMMA IntentStepKeeps ==
  ASSUME CardsInv, NEW i \in Intents,
         ConfirmIntent(i) \/ FileTicket(i) \/ TicketFails(i) \/ WriteArtifact(i)
  PROVE  CardsInv'
<1> DEFINE c == intent[i]
<1>1. /\ c \in IntentSet /\ tickets[i] \in Nat /\ diskFaults \in Nat /\ Filing(c, tickets[i])
      /\ intent \in [Intents -> IntentSet] /\ tickets \in [Intents -> Nat] /\ clock \in Nat
  BY DEF CardsInv, IntentsSound
<1>2. UNCHANGED setupCardVars /\ UNCHANGED clock
  BY DEF ConfirmIntent, FileTicket, TicketFails, WriteArtifact, setupCardVars
<1>3. CASE ConfirmIntent(i)
  <2> DEFINE d == [c EXCEPT !.st = "running", !.task = "file"]
  <2>1. intent' = [intent EXCEPT ![i] = d] /\ tickets' = [tickets EXCEPT ![i] = tickets[i]]
        /\ diskFaults' = diskFaults
    BY <1>1, <1>3 DEF ConfirmIntent, IntentSet
  <2>2. d \in IntentSet /\ d.st = "running" /\ d.task = "file"
    BY <1>1 DEF IntentSet, Statuses
  <2>3. tickets[i] <= diskFaults' + (IF d.task = "artifact" \/ d.st \in {"approved", "removed"} THEN 1 ELSE 0)
    BY <1>1, <1>3, <2>1, <2>2 DEF ConfirmIntent, MayApprove, Filing
  <2> HIDE DEF d
  <2>4. IntentsSound'
    <3>1. /\ intent'[i] = d /\ tickets' = [tickets EXCEPT ![i] = tickets'[i]]
          /\ intent' = [intent EXCEPT ![i] = intent'[i]] /\ tickets'[i] \in Nat
          /\ diskFaults' \in Nat /\ diskFaults' >= diskFaults
      BY <1>1, <1>2, <2>1, <2>2, <2>3
    <3>2. \/ tickets'[i] <= diskFaults'
          \/ /\ tickets'[i] <= diskFaults' + 1
             /\ d.task = "artifact" \/ d.st \in {"approved", "removed"}
      BY <1>1, <1>2, <2>1, <2>2, <2>3, <3>1
    <3> QED BY <1>1, <3>1, <3>2, <2>2, CardMoves
  <2> QED BY <1>1, <1>2, <2>4, SetupsRest DEF CardsInv
<1>4. CASE FileTicket(i)
  <2> DEFINE d == [c EXCEPT !.task = "artifact"]
  <2>1. intent' = [intent EXCEPT ![i] = d] /\ tickets' = [tickets EXCEPT ![i] = tickets[i] + 1]
        /\ diskFaults' = diskFaults /\ c.task = "file"
    BY <1>1, <1>4 DEF FileTicket, IntentSet
  <2>2. d \in IntentSet /\ d.st = "running" /\ d.task = "artifact"
    BY <1>1, <2>1 DEF IntentSet, Filing
  <2>3. tickets[i] + 1 <= diskFaults + 1
    BY <1>1, <2>1 DEF Filing
  <2> HIDE DEF d
  <2>4. tickets[i] + 1 <= diskFaults' + (IF d.task = "artifact" \/ d.st \in {"approved", "removed"} THEN 1 ELSE 0)
    BY <1>1, <2>1, <2>2, <2>3 DEF Filing
  <2>5. IntentsSound'
    <3>1. /\ intent'[i] = d /\ tickets' = [tickets EXCEPT ![i] = tickets'[i]]
          /\ intent' = [intent EXCEPT ![i] = intent'[i]] /\ tickets'[i] \in Nat
          /\ diskFaults' \in Nat /\ diskFaults' >= diskFaults
      BY <1>1, <1>2, <2>1, <2>2, <2>4
    <3>2. \/ tickets'[i] <= diskFaults'
          \/ /\ tickets'[i] <= diskFaults' + 1
             /\ d.task = "artifact" \/ d.st \in {"approved", "removed"}
      BY <1>1, <1>2, <2>1, <2>2, <2>4, <3>1
    <3> QED BY <1>1, <3>1, <3>2, <2>2, CardMoves
  <2> QED BY <1>1, <1>2, <2>5, SetupsRest DEF CardsInv
<1>5. CASE TicketFails(i)
  <2> DEFINE d == [c EXCEPT !.st = "failed", !.task = "none"]
  <2>1. intent' = [intent EXCEPT ![i] = d] /\ tickets' = [tickets EXCEPT ![i] = tickets[i]]
        /\ diskFaults' = diskFaults /\ c.task = "file"
    BY <1>1, <1>5 DEF TicketFails, IntentSet
  <2>2. d \in IntentSet /\ d.st = "failed" /\ d.task = "none"
    BY <1>1 DEF IntentSet, Statuses
  <2>3. tickets[i] <= diskFaults
    BY <1>1, <2>1 DEF Filing
  <2> HIDE DEF d
  <2>4. tickets[i] <= diskFaults' + (IF d.task = "artifact" \/ d.st \in {"approved", "removed"} THEN 1 ELSE 0)
    BY <1>1, <2>1, <2>2, <2>3 DEF Filing
  <2>5. IntentsSound'
    <3>1. /\ intent'[i] = d /\ tickets' = [tickets EXCEPT ![i] = tickets'[i]]
          /\ intent' = [intent EXCEPT ![i] = intent'[i]] /\ tickets'[i] \in Nat
          /\ diskFaults' \in Nat /\ diskFaults' >= diskFaults
      BY <1>1, <1>2, <2>1, <2>2, <2>4
    <3>2. \/ tickets'[i] <= diskFaults'
          \/ /\ tickets'[i] <= diskFaults' + 1
             /\ d.task = "artifact" \/ d.st \in {"approved", "removed"}
      BY <1>1, <1>2, <2>1, <2>2, <2>4, <3>1
    <3> QED BY <1>1, <3>1, <3>2, <2>2, CardMoves
  <2> QED BY <1>1, <1>2, <2>5, SetupsRest DEF CardsInv
<1>6. CASE WriteArtifact(i)
  <2>1. c.task = "artifact" /\ tickets' = [tickets EXCEPT ![i] = tickets[i]]
        /\ tickets[i] <= diskFaults + 1
    BY <1>1, <1>6 DEF WriteArtifact, Filing
  <2>2. CASE intent' = [intent EXCEPT ![i].st = "approved", ![i].task = "none"] /\ UNCHANGED diskFaults
    <3> DEFINE d == [c EXCEPT !.st = "approved", !.task = "none"]
    <3>1. intent' = [intent EXCEPT ![i] = d] /\ diskFaults' = diskFaults
      BY <1>1, <2>2 DEF IntentSet
    <3>2. d \in IntentSet /\ d.st = "approved" /\ d.task = "none"
      BY <1>1 DEF IntentSet, Statuses
    <3> HIDE DEF d
    <3>3. tickets[i] <= diskFaults' + (IF d.task = "artifact" \/ d.st \in {"approved", "removed"} THEN 1 ELSE 0)
      BY <1>1, <2>1, <2>2, <3>2 DEF Filing
    <3>4. IntentsSound'
      <4>1. /\ intent'[i] = d /\ tickets' = [tickets EXCEPT ![i] = tickets'[i]]
            /\ intent' = [intent EXCEPT ![i] = intent'[i]] /\ tickets'[i] \in Nat
            /\ diskFaults' \in Nat /\ diskFaults' >= diskFaults
        BY <1>1, <2>1, <3>1, <3>2, <3>3
      <4>2. \/ tickets'[i] <= diskFaults'
            \/ /\ tickets'[i] <= diskFaults' + 1
               /\ d.task = "artifact" \/ d.st \in {"approved", "removed"}
        BY <1>1, <2>1, <3>1, <3>2, <3>3, <4>1
      <4> QED BY <1>1, <4>1, <4>2, <3>2, CardMoves
    <3> QED BY <1>1, <1>2, <3>4, SetupsRest DEF CardsInv
  <2>3. CASE /\ intent' = [intent EXCEPT ![i].st = "failed", ![i].task = "none"]
             /\ diskFaults' = diskFaults + 1
    <3> DEFINE d == [c EXCEPT !.st = "failed", !.task = "none"]
    <3>1. intent' = [intent EXCEPT ![i] = d] /\ diskFaults' = diskFaults + 1
      BY <1>1, <2>3 DEF IntentSet
    <3>2. d \in IntentSet /\ d.st = "failed" /\ d.task = "none"
      BY <1>1 DEF IntentSet, Statuses
    <3> HIDE DEF d
    <3>3. tickets[i] <= diskFaults' + (IF d.task = "artifact" \/ d.st \in {"approved", "removed"} THEN 1 ELSE 0)
      BY <1>1, <2>1, <2>3, <3>2 DEF Filing
    <3>4. IntentsSound'
      <4>1. /\ intent'[i] = d /\ tickets' = [tickets EXCEPT ![i] = tickets'[i]]
            /\ intent' = [intent EXCEPT ![i] = intent'[i]] /\ tickets'[i] \in Nat
            /\ diskFaults' \in Nat /\ diskFaults' >= diskFaults
        BY <1>1, <2>1, <3>1, <3>2, <3>3
      <4>2. \/ tickets'[i] <= diskFaults'
            \/ /\ tickets'[i] <= diskFaults' + 1
               /\ d.task = "artifact" \/ d.st \in {"approved", "removed"}
        BY <1>1, <2>1, <3>1, <3>2, <3>3, <4>1
      <4> QED BY <1>1, <4>1, <4>2, <3>2, CardMoves
    <3> QED BY <1>1, <1>2, <3>4, SetupsRest DEF CardsInv
  <2> QED BY <1>6, <2>2, <2>3 DEF WriteArtifact
<1> QED BY <1>3, <1>4, <1>5, <1>6


LEMMA TidyingKeeps ==
  ASSUME CardsInv, intent' \in [Intents -> IntentSet],
         \A i \in Intents : Tidied(intent[i], intent'[i]), UNCHANGED <<tickets, diskFaults>>
  PROVE  IntentsSound'
<1>1. diskFaults \in Nat /\ tickets \in [Intents -> Nat] /\ intent \in [Intents -> IntentSet]
  BY DEF CardsInv, IntentsSound
<1>2. \A i \in Intents : Filing(intent'[i], tickets[i])
  <2> SUFFICES ASSUME NEW i \in Intents PROVE Filing(intent'[i], tickets[i])
    OBVIOUS
  <2>1. Filing(intent[i], tickets[i]) /\ intent[i] \in IntentSet /\ tickets[i] \in Nat
    BY <1>1 DEF CardsInv, IntentsSound
  <2> QED BY <1>1, <2>1, TidyingKeepsFiling
<1>3. \A i, j \in Intents : intent'[i].st = "pending" /\ intent'[j].st = "pending" => i = j
  BY DEF Tidied, CardsInv, IntentsSound
<1> QED BY <1>1, <1>2, <1>3 DEF IntentsSound, Filing

-----------------------------------------------------------------------------
(* Steps of setups. *)

LEMMA TrimmingKeeps ==
  ASSUME CardsInv, setup' \in [SetupCards -> SetupSet],
         \A s \in SetupCards : Trimmed(setup[s], setup'[s]),
         fresh' = fresh \/ \A s \in SetupCards : ~setup'[s].active,
         UNCHANGED <<session, left, transcript, atStop>>
  PROVE  NumbersSound' /\ StopSound'
<1>1. NumbersSound /\ StopSound
  BY DEF CardsInv
<1>2. NumbersSound'
  BY <1>1 DEF NumbersSound, Numbered, Trimmed, SetupSet
<1>3. StopSound'
  BY <1>1 DEF StopSound, Trimmed
<1> QED BY <1>2, <1>3

LEMMA ConfirmExpiredKeeps ==
  ASSUME CardsInv, NEW a, ConfirmExpired(a)
  PROVE  CardsInv'
<1>1. CASE /\ a \in Intents /\ intent[a].st \in {"pending", "failed"} /\ UNCHANGED setup
           /\ intent' = [intent EXCEPT ![a].st = "expired"]
  <2> DEFINE d == [intent[a] EXCEPT !.st = "expired"]
  <2>1. intent[a] \in IntentSet /\ intent \in [Intents -> IntentSet] /\ clock \in Nat
    BY <1>1 DEF CardsInv, IntentsSound
  <2>2. /\ intent' = [intent EXCEPT ![a] = d] /\ d \in IntentSet /\ Tidied(intent[a], d)
        /\ UNCHANGED <<tickets, diskFaults, clock>> /\ UNCHANGED setupCardVars
    BY <1>1, <2>1 DEF ConfirmExpired, IntentSet, Statuses, Tidied, setupCardVars
  <2> HIDE DEF d
  <2>3. /\ intent' \in [Intents -> IntentSet]
        /\ \A i \in Intents : Tidied(intent[i], intent'[i])
    BY <2>1, <2>2 DEF Tidied
  <2>4. IntentsSound'
    BY <2>2, <2>3, TidyingKeeps
  <2> QED BY <2>1, <2>2, <2>4, SetupsRest DEF CardsInv
<1>2. CASE /\ a \in SetupCards /\ ~setup[a].task /\ setup[a].st \in {"pending", "failed"}
           /\ setup' = [setup EXCEPT ![a].st = "expired", ![a].active = FALSE] /\ UNCHANGED intent
  <2> DEFINE d == [setup[a] EXCEPT !.st = "expired", !.active = FALSE]
  <2>1. setup[a] \in SetupSet /\ setup \in [SetupCards -> SetupSet] /\ clock \in Nat
    BY <1>2 DEF CardsInv, NumbersSound
  <2>2. /\ setup' = [setup EXCEPT ![a] = d] /\ d \in SetupSet /\ Trimmed(setup[a], d)
    BY <1>2, <2>1 DEF SetupSet, Statuses, Trimmed
  <2>3. /\ UNCHANGED <<intent, tickets, diskFaults, clock>>
        /\ UNCHANGED <<session, left, transcript, atStop>> /\ UNCHANGED fresh
    BY <1>2 DEF ConfirmExpired
  <2> HIDE DEF d
  <2>4. /\ setup' \in [SetupCards -> SetupSet]
        /\ \A s \in SetupCards : Trimmed(setup[s], setup'[s])
    BY <2>1, <2>2 DEF Trimmed
  <2>5. NumbersSound' /\ StopSound'
    BY <2>3, <2>4, TrimmingKeeps
  <2> QED BY <2>1, <2>3, <2>5, IntentsRest DEF CardsInv
<1> QED BY <1>1, <1>2 DEF ConfirmExpired

LEMMA ElapseKeeps ==
  ASSUME CardsInv, Elapse
  PROVE  CardsInv'
<1>1. /\ UNCHANGED <<tickets, diskFaults, clock>> /\ clock \in Nat
      /\ UNCHANGED <<session, left, transcript, atStop>> /\ UNCHANGED fresh
  BY DEF Elapse, CardsInv
<1>2. ASSUME NEW i \in Intents, intent' = [intent EXCEPT ![i].due = TRUE], UNCHANGED setup
      PROVE  CardsInv'
  <2> DEFINE d == [intent[i] EXCEPT !.due = TRUE]
  <2>1. intent[i] \in IntentSet /\ intent \in [Intents -> IntentSet]
    BY DEF CardsInv, IntentsSound
  <2>2. intent' = [intent EXCEPT ![i] = d] /\ d \in IntentSet /\ Tidied(intent[i], d)
    BY <1>2, <2>1 DEF IntentSet, Tidied
  <2> HIDE DEF d
  <2>3. /\ intent' \in [Intents -> IntentSet]
        /\ \A j \in Intents : Tidied(intent[j], intent'[j])
    BY <2>1, <2>2 DEF Tidied
  <2>4. IntentsSound'
    BY <1>1, <2>3, TidyingKeeps
  <2> QED BY <1>1, <1>2, <2>4, SetupsRest DEF CardsInv, setupCardVars
<1>3. ASSUME NEW s \in SetupCards, setup' = [setup EXCEPT ![s].due = TRUE], UNCHANGED intent
      PROVE  CardsInv'
  <2> DEFINE d == [setup[s] EXCEPT !.due = TRUE]
  <2>1. setup[s] \in SetupSet /\ setup \in [SetupCards -> SetupSet]
    BY DEF CardsInv, NumbersSound
  <2>2. setup' = [setup EXCEPT ![s] = d] /\ d \in SetupSet /\ Trimmed(setup[s], d)
    BY <1>3, <2>1 DEF SetupSet, Trimmed
  <2> HIDE DEF d
  <2>3. /\ setup' \in [SetupCards -> SetupSet]
        /\ \A u \in SetupCards : Trimmed(setup[u], setup'[u])
    BY <2>1, <2>2 DEF Trimmed
  <2>4. NumbersSound' /\ StopSound'
    BY <1>1, <2>3, TrimmingKeeps
  <2> QED BY <1>1, <1>3, <2>4, IntentsRest DEF CardsInv
<1> QED BY <1>2, <1>3 DEF Elapse

\* No number selects a card whose window is closed.
LEMMA ClosingTrims ==
  ASSUME NEW cards \in [SetupCards -> SetupSet], NEW olds,
         \A s \in SetupCards : Trimmed(olds[s], cards[s])
  PROVE  /\ CloseWindows(cards) \in [SetupCards -> SetupSet]
         /\ \A s \in SetupCards : /\ Trimmed(olds[s], CloseWindows(cards)[s])
                                  /\ ~CloseWindows(cards)[s].active
<1>1. ASSUME NEW s \in SetupCards
      PROVE  /\ CloseWindows(cards)[s] \in SetupSet /\ Trimmed(olds[s], CloseWindows(cards)[s])
             /\ ~CloseWindows(cards)[s].active
  BY DEF CloseWindows, SetupSet, Trimmed
<1>2. CloseWindows(cards) = [s \in SetupCards |-> [cards[s] EXCEPT !.active = FALSE]]
  BY DEF CloseWindows
<1> QED BY <1>1, <1>2

LEMMA MessageKeeps ==
  ASSUME CardsInv, PostMessage \/ SwitchMode
  PROVE  CardsInv'
<1>1. /\ UNCHANGED <<tickets, diskFaults, clock>> /\ clock \in Nat
      /\ UNCHANGED <<session, left, transcript, atStop>>
  BY DEF PostMessage, SwitchMode, CardsInv
<1>2. CASE PostMessage
  <2> DEFINE e == ExpireIntents
             es == ExpireSetups
  <2>1. e \in [Intents -> IntentSet] /\ \A j \in Intents : Tidied(intent[j], e[j])
    BY ExpiryTidies DEF CardsInv, IntentsSound
  <2>2. \A j \in Intents : intent[j] \in IntentSet /\ Filing(intent[j], tickets[j])
    BY DEF CardsInv, IntentsSound
  <2>3. es \in [SetupCards -> SetupSet] /\ \A s \in SetupCards : Trimmed(setup[s], es[s])
    BY ExpiryTrims DEF CardsInv
  <2>4. intent' = Supersede(e) /\ setup' = CloseWindows(es)
    BY <1>2 DEF PostMessage
  <2> HIDE DEF e, es
  <2>5. \A j \in Intents : e[j].st = "pending" => e[j].task = "none"
    BY <2>1, <2>2 DEF Tidied, Filing, IntentSet
  <2>6. /\ intent' \in [Intents -> IntentSet]
        /\ \A j \in Intents : Tidied(e[j], intent'[j])
    BY <2>1, <2>4, <2>5, SupersedingTidies
  <2>7. \A j \in Intents : Tidied(intent[j], intent'[j])
    BY <2>1, <2>2, <2>6, TidyingComposes
  <2>8. IntentsSound'
    BY <1>1, <2>6, <2>7, TidyingKeeps
  <2>9. /\ setup' \in [SetupCards -> SetupSet]
        /\ \A s \in SetupCards : Trimmed(setup[s], setup'[s]) /\ ~setup'[s].active
    BY <2>3, <2>4, ClosingTrims
  <2>10. NumbersSound' /\ StopSound'
    BY <1>1, <2>9, TrimmingKeeps
  <2> QED BY <1>1, <2>8, <2>10 DEF CardsInv
<1>3. CASE SwitchMode
  <2>1. setup \in [SetupCards -> SetupSet] /\ \A s \in SetupCards : Trimmed(setup[s], setup[s])
    BY DEF CardsInv, NumbersSound, Trimmed
  <2>2. setup' = CloseWindows(setup) /\ UNCHANGED intent
    BY <1>3 DEF SwitchMode
  <2>3. /\ setup' \in [SetupCards -> SetupSet]
        /\ \A s \in SetupCards : Trimmed(setup[s], setup'[s]) /\ ~setup'[s].active
    BY <2>1, <2>2, ClosingTrims
  <2>4. NumbersSound' /\ StopSound'
    BY <1>1, <2>3, TrimmingKeeps
  <2> QED BY <1>1, <2>2, <2>4, IntentsRest DEF CardsInv
<1> QED BY <1>2, <1>3

\* What becomes of the stop when no setup that runs is dropped.
LEMMA StopRests ==
  ASSUME CardsInv, \A s \in SetupCards : setup[s].task => setup'[s].task,
         UNCHANGED <<session, left, transcript, atStop>>
  PROVE  StopSound'
BY DEF CardsInv, StopSound

LEMMA ProposeSetupKeeps ==
  ASSUME CardsInv, NEW s \in SetupCards, NEW choice \in Choices, ProposeSetup(s, choice)
  PROVE  CardsInv'
<1> DEFINE e == ExpireSetups
           kept == Prune(e, {"succeeded", "expired"})
           d == [kept[s] EXCEPT !.st = "pending", !.seq = clock, !.choice = choice,
                                !.active = TRUE]
<1>1. /\ UNCHANGED <<intent, tickets, diskFaults>> /\ clock \in Nat /\ clock' = clock + 1
      /\ UNCHANGED <<session, left, transcript, atStop>> /\ setup[s].st = "none"
      /\ NumbersSound
  BY DEF ProposeSetup, IsNew, CardsInv
<1>2. e \in [SetupCards -> SetupSet] /\ \A u \in SetupCards : Trimmed(setup[u], e[u])
  BY <1>1, ExpiryTrims
<1>3. \/ setup' = e /\ UNCHANGED fresh
      \/ setup' = kept /\ UNCHANGED fresh
      \/ setup' = [kept EXCEPT ![s] = d] /\ fresh' = fresh \cup {s} /\ ~Taken(choice)
  BY DEF ProposeSetup
<1>4. ~Taken(choice) =>
        \A u \in SetupCards : ~(e[u].choice = choice /\ e[u].st = "pending" /\ e[u].active)
  BY DEF Taken
<1> HIDE DEF e
<1>5. /\ kept \in [SetupCards -> SetupSet]
      /\ \A u \in SetupCards : Trimmed(setup[u], kept[u]) /\ (kept[u].active => e[u].active)
  BY <1>1, <1>2, PruningTrims
<1> HIDE DEF kept
<1>6. CASE setup' = e /\ UNCHANGED fresh
  <2>1. NumbersSound' /\ StopSound'
    BY <1>1, <1>2, <1>6, TrimmingKeeps
  <2> QED BY <1>1, <2>1, IntentsRest DEF CardsInv
<1>7. CASE setup' = kept /\ UNCHANGED fresh
  <2>1. NumbersSound' /\ StopSound'
    BY <1>1, <1>5, <1>7, TrimmingKeeps
  <2> QED BY <1>1, <2>1, IntentsRest DEF CardsInv
<1>8. CASE setup' = [kept EXCEPT ![s] = d] /\ fresh' = fresh \cup {s} /\ ~Taken(choice)
  <2>1. /\ d \in SetupSet /\ d.st = "pending" /\ d.choice = choice /\ d.task = kept[s].task
        /\ kept[s].task = setup[s].task /\ ~setup[s].task
    <3>1. kept[s] \in SetupSet /\ setup[s] \in SetupSet /\ Numbered(s, setup[s])
          /\ Trimmed(setup[s], kept[s])
      BY <1>1, <1>5 DEF NumbersSound
    <3> QED BY <1>1, <3>1 DEF SetupSet, Statuses, Numbered, Trimmed
  <2> HIDE DEF d
  <2>2. /\ setup' \in [SetupCards -> SetupSet] /\ setup'[s] = d
        /\ \A u \in SetupCards : u # s => setup'[u] = kept[u]
    BY <1>5, <1>8, <2>1
  <2>3. /\ \A u \in SetupCards : Numbered(u, kept[u])
        /\ \A u, v \in SetupCards :
             kept[u].active /\ kept[v].active /\ kept[u].choice = kept[v].choice => u = v
    BY <1>1, <1>5, TrimmedIsSound
  <2>4. \A u \in SetupCards : kept[u].active => kept[u].choice # choice
    <3> SUFFICES ASSUME NEW u \in SetupCards, kept[u].active, kept[u].choice = choice
                 PROVE  FALSE
      OBVIOUS
    <3>1. e[u].active /\ setup[u].active /\ Trimmed(setup[u], kept[u]) /\ Trimmed(setup[u], e[u])
      BY <1>2, <1>5 DEF Trimmed
    <3>2. setup[u].st = "pending"
      BY <1>1, <3>1 DEF NumbersSound, Numbered
    <3>3. e[u].choice = choice /\ e[u].st = "pending"
      BY <3>1, <3>2 DEF Trimmed
    <3> QED BY <1>4, <1>8, <3>1, <3>3
  <2>5. \A u \in SetupCards : (Numbered(u, setup[u]))'
    BY <1>8, <2>1, <2>2, <2>3 DEF Numbered
  <2>6. \A u, v \in SetupCards :
          setup'[u].active /\ setup'[v].active /\ setup'[u].choice = setup'[v].choice => u = v
    BY <2>1, <2>2, <2>3, <2>4
  <2>7. NumbersSound'
    BY <2>2, <2>5, <2>6 DEF NumbersSound
  <2>8. \A u \in SetupCards : setup[u].task => setup'[u].task
    BY <1>5, <2>1, <2>2 DEF Trimmed
  <2>9. StopSound'
    BY <1>1, <2>8, StopRests
  <2> QED BY <1>1, <2>7, <2>9, IntentsRest DEF CardsInv
<1> QED BY <1>3, <1>6, <1>7, <1>8

LEMMA ConfirmSetupKeeps ==
  ASSUME CardsInv, NEW s \in SetupCards, ConfirmSetup(s)
  PROVE  CardsInv'
<1> DEFINE d == [setup[s] EXCEPT !.st = "running", !.task = TRUE, !.active = FALSE]
<1>1. /\ setup \in [SetupCards -> SetupSet] /\ setup[s] \in SetupSet /\ clock \in Nat
      /\ NumbersSound
  BY DEF CardsInv, NumbersSound
<1>2. /\ setup' = [setup EXCEPT ![s] = d] /\ UNCHANGED <<intent, tickets, diskFaults>>
      /\ UNCHANGED <<session, left, transcript, atStop>> /\ UNCHANGED <<clock, fresh>>
  BY <1>1 DEF ConfirmSetup, SetupSet
<1>3. d \in SetupSet /\ d.st = "running" /\ d.task /\ ~d.active
  BY <1>1 DEF SetupSet, Statuses
<1> HIDE DEF d
<1>4. /\ setup' \in [SetupCards -> SetupSet] /\ setup'[s] = d
      /\ \A u \in SetupCards : u # s => setup'[u] = setup[u]
  BY <1>1, <1>2, <1>3
<1>5. NumbersSound'
  BY <1>1, <1>2, <1>3, <1>4 DEF NumbersSound, Numbered
<1>6. \A u \in SetupCards : setup[u].task => setup'[u].task
  BY <1>3, <1>4
<1>7. StopSound'
  BY <1>2, <1>6, StopRests
<1> QED BY <1>1, <1>2, <1>5, <1>7, IntentsRest DEF CardsInv

LEMMA RunSetupKeeps ==
  ASSUME CardsInv, NEW s \in SetupCards, RunSetup(s)
  PROVE  CardsInv'
<1>1. /\ setup \in [SetupCards -> SetupSet] /\ setup[s] \in SetupSet /\ clock \in Nat
      /\ NumbersSound /\ StopSound /\ setup[s].task /\ Numbered(s, setup[s])
  BY DEF CardsInv, NumbersSound, RunSetup
<1>2. PICK st \in {"succeeded", "failed"} :
        setup' = [setup EXCEPT ![s].st = st, ![s].task = FALSE]
  BY DEF RunSetup
<1> DEFINE d == [setup[s] EXCEPT !.st = st, !.task = FALSE]
<1>3. setup' = [setup EXCEPT ![s] = d]
  BY <1>1, <1>2 DEF SetupSet
<1>4. d \in SetupSet /\ d.st # "running" /\ ~d.task /\ ~d.active
  BY <1>1 DEF SetupSet, Statuses, Numbered
<1>5. /\ UNCHANGED <<intent, tickets, diskFaults>> /\ UNCHANGED <<session, left, atStop>>
      /\ UNCHANGED <<clock, fresh>>
      /\ transcript' = IF session \in {"flush", "gone"} THEN transcript ELSE transcript \cup {s}
  BY DEF RunSetup, Record
<1> HIDE DEF d
<1>6. /\ setup' \in [SetupCards -> SetupSet] /\ setup'[s] = d
      /\ \A u \in SetupCards : u # s => setup'[u] = setup[u]
  BY <1>1, <1>3, <1>4
<1>7. NumbersSound'
  BY <1>1, <1>4, <1>5, <1>6 DEF NumbersSound, Numbered
<1>8. StopSound'
  <2>1. CASE session \in {"flush", "gone"}
    BY <1>1, <1>5, <2>1 DEF StopSound
  <2>2. CASE session \notin {"flush", "gone"}
    BY <1>1, <1>5, <1>6, <2>2 DEF StopSound
  <2> QED BY <2>1, <2>2
<1> QED BY <1>1, <1>5, <1>7, <1>8, IntentsRest DEF CardsInv

-----------------------------------------------------------------------------
(* The stop of the session. *)

LEMMA StopStepKeeps ==
  ASSUME CardsInv, Stop \/ AwaitSetups \/ StopChatAgent \/ LeaveSession
  PROVE  CardsInv'
<1>1. /\ UNCHANGED <<intent, tickets, diskFaults>> /\ UNCHANGED <<setup, clock, fresh, transcript>>
      /\ NumbersSound /\ StopSound /\ clock \in Nat
  BY DEF CardsInv, Stop, AwaitSetups, StopChatAgent, LeaveSession
<1>2. NumbersSound'
  BY <1>1 DEF NumbersSound, Numbered
<1>3. \A s \in SetupCards : setup[s].task => s \in Shown(setup)
  BY <1>1 DEF NumbersSound, Numbered, Shown
<1>4. StopSound'
  <2>1. CASE Stop
    BY <1>1, <1>3, <2>1 DEF Stop, StopSound
  <2>2. CASE AwaitSetups
    <3>1. /\ session \in {"turn", "setups"} /\ UNCHANGED atStop
          /\ session' = IF left' = {} THEN "backend" ELSE "setups"
      BY <2>2 DEF AwaitSetups
    <3>2. \A s \in left \cap SetupCards : setup[s].task => ~Passed(s)
      <4> SUFFICES ASSUME NEW s \in left \cap SetupCards, setup[s].task, Passed(s) PROVE FALSE
        OBVIOUS
      <4>1. setup[s].seq <= setup[s].seq => ~setup[s].task
        BY DEF Passed
      <4>2. setup[s].seq <= setup[s].seq
        BY <1>1 DEF NumbersSound, SetupSet
      <4> QED BY <4>1, <4>2
    <3>3. ASSUME NEW s \in atStop, s \notin transcript
          PROVE  s \in left'
      <4>1. s \in SetupCards /\ setup[s].task /\ s \in left
        BY <1>1, <3>1, <3>3 DEF StopSound
      <4>2. ~Passed(s) /\ s \in Shown(setup)
        BY <1>3, <3>2, <4>1
      <4>3. left' = {u \in (IF session = "turn" THEN Shown(setup) ELSE left) : ~Passed(u)}
        BY <2>2 DEF AwaitSetups
      <4> QED BY <4>1, <4>2, <4>3
    <3>4. session' = "backend" => atStop \subseteq transcript
      BY <3>1, <3>3
    <3> QED BY <1>1, <3>1, <3>3, <3>4 DEF StopSound
  <2>3. CASE StopChatAgent \/ LeaveSession
    BY <1>1, <2>3 DEF StopChatAgent, LeaveSession, StopSound
  <2> QED BY <2>1, <2>2, <2>3
<1> QED BY <1>1, <1>2, <1>4, IntentsRest DEF CardsInv

-----------------------------------------------------------------------------
LEMMA CardsStart == InitCards => CardsInv
<1> SUFFICES ASSUME InitCards PROVE CardsInv
  OBVIOUS
<1> USE DEF InitCards
<1>1. IntentsSound
  BY DEF IntentsSound, IntentSet, Statuses, Filing
<1>2. NumbersSound
  BY DEF NumbersSound, SetupSet, Statuses, Numbered
<1>3. StopSound
  BY DEF StopSound
<1> QED BY <1>1, <1>2, <1>3 DEF CardsInv

\* The cards of a session are sound, whatever is proposed, confirmed, expires,
\* fails or is being stopped (chat _queue_intent, confirm_intent,
\* confirm_setup, stop).
THEOREM CardsAreSound == CardsSpec => []CardsInv
<1>1. CardsInv /\ [NextCards]_cardVars => CardsInv'
  <2> SUFFICES ASSUME CardsInv, [NextCards]_cardVars PROVE CardsInv'
    OBVIOUS
  <2>1. ASSUME NEW i \in Intents, IntentStep(i) PROVE CardsInv'
    BY <2>1, ProposeIntentKeeps, IntentStepKeeps, ConfirmExpiredKeeps DEF IntentStep, Approve
  <2>2. ASSUME NEW s \in SetupCards, SetupCardStep(s) PROVE CardsInv'
    BY <2>2, ProposeSetupKeeps, ConfirmSetupKeeps, ConfirmExpiredKeeps, RunSetupKeeps
    DEF SetupCardStep
  <2>3. ASSUME NEW choice \in Choices, Number(choice) PROVE CardsInv'
    BY <2>3, ConfirmSetupKeeps DEF Number
  <2>4. CASE Elapse \/ PostMessage \/ SwitchMode
    BY <2>4, ElapseKeeps, MessageKeeps
  <2>5. CASE Stop \/ AwaitSetups \/ StopChatAgent \/ LeaveSession
    BY <2>5, StopStepKeeps
  <2>6. CASE UNCHANGED cardVars
    BY <2>6 DEF cardVars, CardsInv, IntentsSound, NumbersSound, StopSound, Filing, Numbered
  <2> QED BY <2>1, <2>2, <2>3, <2>4, <2>5, <2>6 DEF NextCards
<1> QED BY <1>1, CardsStart, PTL DEF CardsSpec

\* However often and from wherever an intent is approved, requests share one
\* filing: only an artifact that could not be written leads to a second ticket
\* (chat confirm_intent, _run_intent_approval).
THEOREM ApprovalsShare == CardsSpec => []ApprovalsShareFiling
<1>1. CardsInv => ApprovalsShareFiling
  BY DEF CardsInv, IntentsSound, Filing, ApprovalsShareFiling
<1> QED BY <1>1, CardsAreSound, PTL

\* A pending intent is the latest draft, and a bare number names one proposal
\* made since the operator last said anything else (chat/__init__.py:1537).
THEOREM RepliesAreCurrent == CardsSpec => [](LatestDraft /\ NumberIsCurrent)
<1>1. CardsInv => LatestDraft /\ NumberIsCurrent
  BY DEF CardsInv, IntentsSound, NumbersSound, Numbered, LatestDraft, NumberIsCurrent
<1> QED BY <1>1, CardsAreSound, PTL

\* The outcome of a setup that ran when its session was stopped reaches the
\* transcript before the writer closes (chat/__init__.py:846-848).
THEOREM SetupsSurviveStops == CardsSpec => []SetupSurvivesStop
<1>1. CardsInv => SetupSurvivesStop
  BY DEF CardsInv, StopSound, SetupSurvivesStop
<1> QED BY <1>1, CardsAreSound, PTL

=============================================================================
