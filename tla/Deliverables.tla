----------------------------- MODULE Deliverables -----------------------------
(***************************************************************************)
(* The deliverables of one ticket: a worker leaves files in its workspace,  *)
(* the orchestrator copies them into a host-owned store with an index, the  *)
(* board lists them, and the tick's two sweeps archive an old ticket and    *)
(* drop the store of a ticket that left the board.  The store has a lock;   *)
(* the worker's own processes write without one.                            *)
(***************************************************************************)
EXTENDS Integers, FiniteSets, FiniteSetsExt

CONSTANTS Sources,      \* 1..n: files whose sanitised names collide, in path order
          MaxFile, MaxTicket,   \* caps, in units of size
          MaxWrites,    \* files a worker writes
          MaxMishaps,   \* crashes, failed copies and removals, unreadable boards
          MaxMoves      \* moves of the ticket, lapses of the time to live

VARIABLES srcs,      \* the workspace: content of every source, or None
          store,     \* files/: content by number of the name; 0 is a temporary copy
          index,     \* index.json: missing, corrupt, or its records
          job,       \* the collection under way; it holds the store's lock
          tick,      \* the sweeps of a tick
          onBoard,   \* open, terminal, archived or gone
          aged,      \* nothing in the ticket's directory is younger than the TTL
          sighted,   \* history: the states in which the artifact sweep saw the ticket
          rested,    \* history: the ticket has been archived for the TTL
          raced,     \* history: a file changed while it was being collected
          torn,      \* history: a copy or a removal stopped half way
          writes, mishaps, moves

storeVars == <<srcs, store, index, job, tick, onBoard, aged, sighted, rested, raced, torn,
               writes, mishaps, moves>>

None == [v |-> 0, size |-> 0]
Names == 0..3
Idle == [pc |-> "idle", todo |-> {}, size |-> 0, v |-> 0, recs |-> {}, total |-> 0, new |-> FALSE]
NoIndex == [is |-> "missing", recs |-> {}]
IndexOf(recs) == [is |-> "written", recs |-> recs]
NoTick == [pc |-> "idle", stale |-> FALSE, listed |-> {}]

InitStore ==
  /\ srcs = [s \in Sources |-> None] /\ store = [k \in Names |-> None] /\ index = NoIndex
  /\ job = Idle /\ tick = NoTick /\ onBoard = "open" /\ aged = FALSE
  /\ sighted = {} /\ rested = FALSE /\ raced = FALSE /\ torn = FALSE
  /\ writes = 0 /\ mishaps = 0 /\ moves = 0

Mishap == mishaps < MaxMishaps /\ mishaps' = mishaps + 1
Move == moves < MaxMoves /\ moves' = moves + 1
Board == <<tick, onBoard, sighted, rested>>
Budgets == <<writes, mishaps, moves>>
Bytes(recs) == MapThenSumSet(LAMBDA r : r.size, recs)

-----------------------------------------------------------------------------
(* The index.                                                                *)

\* Every file is listed, with what it holds, when the index cannot be read.
Rebuilt == {[name |-> k, v |-> store[k].v, size |-> store[k].size] :
              k \in {k \in Names : store[k] # None}}

LoadIndex == IF index.is = "written" THEN index.recs ELSE Rebuilt

\* A corrupt index is written anew; a missing one is not.
Reindexed == IF index.is = "corrupt" /\ Rebuilt # {} THEN IndexOf(Rebuilt) ELSE index

ListFor ==
  /\ job.pc = "idle" /\ index' = Reindexed /\ aged' = (aged /\ index' = index)
  /\ UNCHANGED <<srcs, store, job, Board, raced, torn, Budgets>>

-----------------------------------------------------------------------------
(* Collection, after every turn and once more after the last.               *)

\* The manifest, links and hidden files are no deliverables.
Found == {s \in Sources : srcs[s] # None}

Collect ==
  /\ job.pc = "idle" /\ Found # {}
  /\ job' = [pc |-> "stat", todo |-> Found, size |-> 0, v |-> 0,
             recs |-> LoadIndex, total |-> Bytes(LoadIndex), new |-> FALSE]
  /\ index' = Reindexed /\ aged' = (aged /\ index' = index)
  /\ UNCHANGED <<srcs, store, Board, raced, torn, Budgets>>

Source == Min(job.todo)
Skip == [job EXCEPT !.pc = "stat", !.todo = @ \ {Source}]
Fits(size) == size <= MaxFile /\ job.total + size <= MaxTicket

Stat ==
  /\ job.pc = "stat" /\ job.todo # {}
  /\ job' = IF Fits(srcs[Source].size) THEN [job EXCEPT !.pc = "hash", !.size = srcs[Source].size]
            ELSE Skip
  /\ UNCHANGED <<srcs, store, index, Board, aged, raced, torn, Budgets>>

Hash ==
  /\ job.pc = "hash"
  /\ job' = IF \E r \in job.recs : r.v = srcs[Source].v THEN Skip
            ELSE [job EXCEPT !.pc = "copy", !.v = srcs[Source].v]
  /\ raced' = (raced \/ srcs[Source].size # job.size)
  /\ UNCHANGED <<srcs, store, index, Board, aged, torn, Budgets>>

\* The first number no record has: files nobody lists do not count.
UniqueName == Min({k \in Names \ {0} : \A r \in job.recs : r.name # k})

\* What was measured before the copy is recorded, whatever the copy wrote; a
\* copy past a cap is discarded.
Copy ==
  /\ job.pc = "copy"
  /\ LET c == srcs[Source]
         k == UniqueName
         r == [name |-> k, v |-> job.v, size |-> job.size]
     IN IF Fits(c.size)
        THEN /\ store' = [store EXCEPT ![k] = c]
             /\ job' = [Skip EXCEPT !.recs = @ \cup {r}, !.total = @ + c.size, !.new = TRUE]
             /\ raced' = (raced \/ c # [v |-> job.v, size |-> job.size])
        ELSE /\ store' = [store EXCEPT ![k] = None]
             /\ job' = Skip /\ UNCHANGED raced
  /\ aged' = FALSE
  /\ UNCHANGED <<srcs, index, Board, torn, Budgets>>

\* The source cannot be read, or its copy fails.
CopyFails ==
  /\ job.pc \in {"stat", "hash", "copy"} /\ job.todo # {} /\ Mishap /\ job' = Skip /\ aged' = (aged /\ job.pc # "copy")
  /\ UNCHANGED <<srcs, store, index, Board, raced, torn, writes, moves>>

WriteIndex ==
  /\ job.pc = "stat" /\ job.todo = {}
  /\ job' = Idle
  /\ index' = IF job.new THEN IndexOf(job.recs) ELSE index
  /\ aged' = (aged /\ ~job.new)
  /\ UNCHANGED <<srcs, store, Board, raced, torn, Budgets>>

-----------------------------------------------------------------------------
(* The sweeps of a tick.                                                     *)

Archivable(old) == onBoard = "terminal" /\ old

ReadTerminal ==
  /\ tick.pc = "idle"
  /\ \E old \in BOOLEAN :
       tick' = [tick EXCEPT !.pc = "archive", !.stale = Archivable(old)]
  /\ UNCHANGED <<srcs, store, index, job, onBoard, sighted, rested, aged, raced, torn, Budgets>>

Archive ==
  /\ tick.pc = "archive" /\ tick' = [tick EXCEPT !.pc = "list"]
  /\ onBoard' = IF tick.stale /\ onBoard # "gone" THEN "archived" ELSE onBoard
  /\ rested' = (rested /\ onBoard' = onBoard)
  /\ UNCHANGED <<srcs, store, index, job, sighted, aged, raced, torn, Budgets>>

\* Every identifier with a file on the board; another ticket is always there.
\* A board that is not mounted lists nothing.
ListAll ==
  /\ tick.pc = "list"
  /\ \/ /\ tick' = [tick EXCEPT !.pc = "subtract",
                                !.listed = IF onBoard = "gone" THEN {"other"} ELSE {"this", "other"}]
        /\ UNCHANGED mishaps
     \/ Mishap /\ tick' = [tick EXCEPT !.pc = "subtract", !.listed = {}]
  /\ sighted' = {onBoard}
  /\ UNCHANGED <<srcs, store, index, job, onBoard, rested, aged, raced, torn, writes, moves>>

MutantNothingKnown(known) == FALSE

\* Nothing listed says nothing of the tickets.
NothingKnown(known) == known = {}

Retained ==
  /\ tick.pc = "subtract"
  /\ LET known == tick.listed \ (IF onBoard = "archived" THEN {"this"} ELSE {})
     IN tick' = IF NothingKnown(known) THEN NoTick
                ELSE [tick EXCEPT !.pc = "sweep", !.listed = known]
  /\ sighted' = sighted \cup {onBoard}
  /\ UNCHANGED <<srcs, store, index, job, onBoard, rested, aged, raced, torn, Budgets>>

\* The directory goes when its ticket is not retained and it is old enough; a
\* removal that fails may already have removed some of it.
Sweep ==
  /\ tick.pc = "sweep" /\ job.pc = "idle" /\ tick' = NoTick
  /\ IF "this" \in tick.listed \/ ~aged THEN UNCHANGED <<store, index, torn, mishaps>>
     ELSE \/ /\ store' = [k \in Names |-> None] /\ index' = NoIndex
             /\ UNCHANGED <<torn, mishaps>>
          \/ /\ Mishap /\ torn' = TRUE
             /\ \E k \in Names : store[k] # None /\ store' = [store EXCEPT ![k] = None]
             /\ UNCHANGED index
  /\ UNCHANGED <<srcs, job, onBoard, aged, sighted, rested, raced, writes, moves>>

-----------------------------------------------------------------------------
(* Workers, operators, time and faults.                                      *)

WorkerWrites ==
  /\ writes < MaxWrites /\ writes' = writes + 1
  /\ \E s \in Sources, size \in 1..(MaxFile + 1) : srcs' = [srcs EXCEPT ![s] = [v |-> writes', size |-> size]]
  /\ UNCHANGED <<store, index, job, Board, aged, raced, torn, mishaps, moves>>

TicketMoves ==
  /\ Move /\ \E s \in {"open", "terminal", "archived", "gone"} \ {onBoard} :
               onBoard # "gone" /\ onBoard' = s
  /\ rested' = FALSE
  /\ UNCHANGED <<srcs, store, index, job, tick, aged, sighted, raced, torn, writes, mishaps>>

\* The time to live passes with nothing under way.
TimePasses ==
  /\ job.pc = "idle" /\ tick.pc = "idle" /\ Move
  /\ aged' = TRUE /\ rested' = (onBoard \in {"archived", "gone"})
  /\ UNCHANGED <<srcs, store, index, job, tick, onBoard, sighted, raced, torn, writes, mishaps>>

\* A crash while a file is copied leaves its temporary copy behind.
Crash ==
  /\ Mishap /\ job' = Idle /\ tick' = NoTick
  /\ IF job.pc = "copy"
     THEN /\ store' = [store EXCEPT ![0] = [srcs[Source] EXCEPT !.size = 1]]
          /\ torn' = TRUE /\ aged' = FALSE
     ELSE UNCHANGED <<store, torn, aged>>
  /\ UNCHANGED <<srcs, index, onBoard, sighted, rested, raced, writes, moves>>

IndexDamaged ==
  /\ index.is = "written" /\ Mishap /\ index' = [is |-> "corrupt", recs |-> {}] /\ aged' = FALSE
  /\ UNCHANGED <<srcs, store, job, Board, raced, torn, writes, moves>>

-----------------------------------------------------------------------------
NextStore ==
  \/ ListFor \/ Collect \/ Stat \/ Hash \/ Copy \/ CopyFails \/ WriteIndex
  \/ ReadTerminal \/ Archive \/ ListAll \/ Retained \/ Sweep
  \/ WorkerWrites \/ TicketMoves \/ TimePasses \/ Crash \/ IndexDamaged

StoreSpec == InitStore /\ [][NextStore]_storeVars

-----------------------------------------------------------------------------
(* What the board lists can be served and is what was collected: every       *)
(* record's file is in the store with the recorded content, through crashes, *)
(* failed copies and rebuilt indexes, unless its source changed while it was *)
(* copied or a removal stopped half way (artifacts.py collect_from_workspace,*)
(* _unique_name, _rebuild_index_from_files).                                 *)
ListedIsStored ==
  ~raced /\ ~torn => \A r \in LoadIndex : store[r.name] = [v |-> r.v, size |-> r.size]

(* "a live ticket never loses its deliverables" (sweeps.py:284): files       *)
(* disappear only for a ticket that a reading of the board found archived or *)
(* absent, never because the board could not be read.                        *)
LiveTicketKeepsFiles ==
  [][(\E k \in Names \ {0} : store[k] # None /\ store'[k] = None /\ job.pc = "idle")
       => sighted \cap {"archived", "gone"} # {}]_storeVars

(* "which would put both caps and the running total below reality. `copied`  *)
(* is the number we record and bill." (artifacts.py:338-340): the recorded   *)
(* sizes are those of the files, so that the next collection's total is the  *)
(* real one and the store keeps its cap.                                     *)
WithinQuota ==
  Bytes({[name |-> r.name, size |-> store[r.name].size] : r \in LoadIndex}) <= MaxTicket

(* "drop artifacts 30 days after a ticket is archived" (docs/reference.md    *)
(* :1276).                                                                   *)
KeptAfterArchive ==
  (\E k \in Names \ {0} : store[k] # None /\ store'[k] = None /\ job.pc = "idle") => rested

===============================================================================
