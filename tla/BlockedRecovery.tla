---------------------------- MODULE BlockedRecovery ----------------------------
(***************************************************************************)
(* Recovery of a Blocked ticket on a file board.  Every tick first checks   *)
(* the fix tickets that reached Done (an unproven one is moved back out, a  *)
(* proven one reopens its source), then fetches candidates, then gives each *)
(* Blocked ticket a rescue of its history and a fix ticket.  An operator's  *)
(* "recover" request opens fix tickets too; fix workers and operators edit  *)
(* the same tickets while the tick waits for its writes.                    *)
(***************************************************************************)
EXTENDS Naturals, Sequences, FiniteSetsExt

CONSTANTS Fixes,        \* 1..n: fix tickets that may be opened, in order
          MaxEdits,     \* edits and requests of fix workers and operators
          MaxStarts,    \* dispatches of the source
          MaxRefusals,  \* refused writes and crashes
          MaxBusy       \* ticks that find no free slot

ASSUME FixesAssumption == Fixes \subseteq Nat \ {0}

VARIABLES
  st,           \* the board: none, Active, Blocked, Review (Human Review) or Done
  notes,        \* last request, resolution and operator headings, in their order
  host,         \* the source carries a "Blocked Fix Resolved" note
  links,        \* the source's blocked_by
  hist,         \* tickets with a sandbox-denied History Failure section
  rec,          \* tickets with a History Recovery section
  rescues,      \* ghost: times the host reopened each ticket for its history
  finished,     \* ghost: fix tickets that have been Done
  running,      \* a worker runs the source
  guard,        \* the source is in _blocked_rca_source_ids
  attempted,    \* _history_recovery_attempted
  point, left, seen, source, target,
  op, issue, fix, lock,   \* the two callers of _open_blocked_rca_for_issue
  edits, starts, refusals, busy

fixVars == <<st, notes, host, links, hist, rec, rescues, finished, running, guard,
          attempted, point, left,
          seen, source, target, op, issue, fix, lock, edits, starts,
          refusals, busy>>

Tickets == {0} \cup Fixes          \* 0 is the source
Callers == {"tick", "manual"}
Marks == {"req", "res", "op"}
States == {"none", "Active", "Blocked", "Review", "Done"}

Board == <<st, notes, host, links, hist, rec, rescues, finished>>
FixBudgets == <<edits, starts, refusals, busy>>
Opening == <<op, issue, fix, lock>>

FixTypeOK ==
  /\ st \in [Tickets -> States] /\ links \subseteq Fixes
  /\ \A t \in Tickets : Len(notes[t]) <= 3 /\ \A k \in DOMAIN notes[t] : notes[t][k] \in Marks
  /\ point \in {"idle", "sweep", "demote", "reblock", "rnote", "rstate", "fetch",
             "dispatch", "list", "recover", "hnote", "hstate", "open"}
  /\ op \in [Callers -> {"none", "lock", "scan", "relink", "renote", "create", "link", "note"}]
  /\ lock \in Callers \cup {"none"}

\* What a list of terminal tickets holds; between its uses the tick knows nothing.
Copy(T) == [st |-> [t \in Tickets |-> IF t \in T THEN st[t] ELSE "none"],
            notes |-> [t \in Tickets |-> IF t \in T THEN notes[t] ELSE <<>>],
            host |-> host /\ 0 \in T, hist |-> hist \cap T, rec |-> rec \cap T]
Nothing == [st |-> [t \in Tickets |-> "none"], notes |-> [t \in Tickets |-> <<>>],
            host |-> FALSE, hist |-> {}, rec |-> {}]
NoSource == [st |-> "none", notes |-> <<>>, host |-> FALSE]

\* A ticket has just been blocked, on its history or on something else.
InitFixes ==
  /\ st = [t \in Tickets |-> IF t = 0 THEN "Blocked" ELSE "none"]
  /\ notes = [t \in Tickets |-> <<>>] /\ host = FALSE /\ links = {}
  /\ hist \in {{}, {0}} /\ rec = {} /\ rescues = [t \in Tickets |-> 0] /\ finished = {}
  /\ running = FALSE /\ guard = FALSE /\ attempted = {}
  /\ point = "idle" /\ left = {} /\ seen = Nothing /\ source = NoSource
  /\ target = "Review"
  /\ op = [a \in Callers |-> "none"] /\ issue = [a \in Callers |-> <<>>]
  /\ fix = [a \in Callers |-> 0] /\ lock = "none"
  /\ edits = 0 /\ starts = 0 /\ refusals = 0 /\ busy = 0

-----------------------------------------------------------------------------
(* What the sections of a ticket say.  Only the order of the last heading of *)
(* each kind matters.                                                        *)

Mark(s, m) == Append(SelectSeq(s, LAMBDA x : x # m), m)
Unmark(s, m) == SelectSeq(s, LAMBDA x : x # m)
At(s, m) == IF \E k \in DOMAIN s : s[k] = m THEN CHOOSE k \in DOMAIN s : s[k] = m ELSE 0

AlreadyRequested(s) == At(s, "req") > At(s, "res")
EpisodeResolved(s) == At(s, "res") > At(s, "req")
NeedsOperator(s) == At(s, "op") > At(s, "res")

\* Both records prove the recovery, and neither asks for an operator.
Proven(f, s) ==
  EpisodeResolved(f) /\ EpisodeResolved(s) /\ ~NeedsOperator(f) /\ ~NeedsOperator(s)

\* A write that may be refused: the board is unreachable or the file is gone.
Written(ok) == /\ ok \/ refusals < MaxRefusals
               /\ refusals' = IF ok THEN refusals ELSE refusals + 1

\* update_state: moving into an active lane strips the "Blocked Fix" warnings.
Moved(t, s) ==
  /\ st' = [st EXCEPT ![t] = s]
  /\ notes' = IF s = "Active" THEN [notes EXCEPT ![t] = Unmark(@, "req")] ELSE notes

-----------------------------------------------------------------------------
(* The tick, part one: fix tickets that reached Done.                        *)

DoneFixes == {f \in Fixes : st[f] = "Done"}

SweepFetch ==
  /\ point = "idle"
  /\ \E ok \in BOOLEAN :
       /\ Written(ok)
       /\ IF ok /\ DoneFixes # {}
          THEN point' = "sweep" /\ seen' = Copy(DoneFixes \cup {0}) /\ left' = DoneFixes
          ELSE point' = (IF ok THEN "fetch" ELSE "idle") /\ UNCHANGED <<seen, left>>
  /\ UNCHANGED <<Board, running, guard, attempted, source, target, Opening, edits, starts, busy>>

current == Min(left)

\* On to the next fix ticket, and from the last one to the candidates.
NextFix ==
  IF left = {current} THEN point' = "fetch" /\ left' = {} /\ seen' = Nothing /\ source' = NoSource
  ELSE point' = "sweep" /\ left' = left \ {current} /\ seen' = seen /\ source' = NoSource

\* The source as the tick knows it: from its list of terminal tickets, or read now.
SourceSeen ==
  IF seen.st[0] # "Active" THEN [st |-> seen.st[0], notes |-> seen.notes[0], host |-> seen.host]
  ELSE [st |-> st[0], notes |-> notes[0], host |-> host]

SweepNext ==
  /\ point = "sweep"
  /\ LET s == SourceSeen IN
       IF Proven(seen.notes[current], s.notes) /\ s.st # "Blocked" THEN NextFix
       ELSE /\ source' = s /\ UNCHANGED <<seen, left>>
            /\ point' = IF ~Proven(seen.notes[current], s.notes) THEN "demote"
                     ELSE IF s.host THEN "rstate" ELSE "rnote"
  /\ UNCHANGED <<Board, running, guard, attempted, target, Opening, FixBudgets>>

\* Demotion is the safety boundary: the tick ends when it cannot be written.
Demote(ok) ==
  IF ~ok THEN /\ point' = "idle" /\ left' = {} /\ seen' = Nothing /\ source' = NoSource
              /\ UNCHANGED <<st, notes>>
  ELSE /\ Moved(current, "Review")
       /\ IF source.st = "Blocked" THEN NextFix
          ELSE point' = "reblock" /\ UNCHANGED <<left, seen, source>>

DemoteFix ==
  /\ point = "demote"
  /\ \E ok \in BOOLEAN : Written(ok) /\ Demote(ok)
  /\ UNCHANGED <<host, links, hist, rec, rescues, finished, running, guard, attempted, target, Opening, edits, starts, busy>>

ReblockSource ==
  /\ point = "reblock" /\ NextFix
  /\ \E ok \in BOOLEAN :
       Written(ok) /\ IF ok THEN Moved(0, "Blocked") ELSE UNCHANGED <<st, notes>>
  /\ UNCHANGED <<host, links, hist, rec, rescues, finished, running, guard, attempted, target, Opening, edits, starts, busy>>

ReopenNote ==
  /\ point = "rnote"
  /\ \E ok \in BOOLEAN :
       /\ Written(ok) /\ point' = IF ok THEN "rstate" ELSE "demote"
       /\ host' = (host \/ ok)
       /\ notes' = IF ok THEN [notes EXCEPT ![0] = Mark(@, "res")] ELSE notes
  /\ UNCHANGED <<st, links, hist, rec, rescues, finished, running, guard, attempted, left, seen, source, target, Opening, edits, starts, busy>>

ReopenSource ==
  /\ point = "rstate"
  /\ \E ok \in BOOLEAN :
       /\ Written(ok)
       /\ IF ok THEN Moved(0, "Active") /\ guard' = TRUE /\ NextFix
          ELSE point' = "demote" /\ UNCHANGED <<st, notes, guard, left, seen, source>>
  /\ UNCHANGED <<host, links, hist, rec, rescues, finished, running, attempted, target, Opening, edits, starts, busy>>

-----------------------------------------------------------------------------
(* Part two: candidates.  A candidate ends the in-memory episode.            *)

FetchCandidates ==
  /\ point = "fetch"
  /\ \E ok \in BOOLEAN :
       /\ Written(ok)
       /\ point' = IF ~ok THEN "idle"
                ELSE IF st[0] = "Active" /\ \A f \in links : st[f] = "Done"
                THEN "dispatch" ELSE "list"
       /\ guard' = (guard /\ ~(ok /\ st[0] = "Active"))
       /\ attempted' = IF ok THEN {t \in attempted : st[t] # "Active"} ELSE attempted
  /\ UNCHANGED <<Board, running, left, seen, source, target, Opening, edits, starts, busy>>

DispatchSource ==
  /\ point = "dispatch" /\ point' = "list"
  /\ IF running \/ starts = MaxStarts THEN UNCHANGED <<running, starts>>
     ELSE running' = TRUE /\ starts' = starts + 1
  /\ UNCHANGED <<Board, guard, attempted, left, seen, source, target, Opening, edits, refusals, busy>>

-----------------------------------------------------------------------------
(* Part three: Blocked tickets, oldest first, when a slot is free.           *)

\* A ticket that left Blocked ends its episode; a fix ticket is only rescued.
ListBlocked ==
  /\ point = "list"
  /\ \E slot \in BOOLEAN, ok \in BOOLEAN :
       /\ slot \/ busy < MaxBusy
       /\ busy' = IF slot THEN busy ELSE busy + 1
       /\ (slot \/ ok) /\ Written(ok)
       /\ IF slot /\ ok
          THEN LET over == {t \in Tickets : st[t] \in {"Review", "Done"}} IN
               /\ attempted' = attempted \ over /\ guard' = (guard /\ 0 \notin over)
               /\ left' = {t \in Tickets : st[t] = "Blocked" /\ (t = 0 \/ t \notin attempted)}
               /\ seen' = Copy(left')
               /\ point' = IF left' = {} THEN "idle" ELSE "recover"
          ELSE point' = "idle" /\ UNCHANGED <<seen, left, attempted, guard>>
  /\ UNCHANGED <<Board, running, source, target, Opening, edits, starts>>

NextTicket ==
  IF left = {current} THEN point' = "idle" /\ left' = {} /\ seen' = Nothing
  ELSE point' = "recover" /\ left' = left \ {current} /\ seen' = seen

\* Only the source may have a fix ticket opened for it.
GoOpen ==
  IF current = 0
  THEN /\ point' = "open" /\ UNCHANGED <<left, seen>>
       /\ op' = [op EXCEPT !["tick"] = "lock"] /\ issue' = [issue EXCEPT !["tick"] = seen.notes[0]]
  ELSE NextTicket /\ UNCHANGED <<op, issue>>

\* One rescue per ticket; a second block of the same kind goes to a human.
RescueTarget(published) == IF published /\ current \notin seen.rec THEN "Active" ELSE "Review"

\* The host looks at the branch: is the work in git history, and published?
TryRescue ==
  /\ point = "recover" /\ current \notin attempted
  /\ attempted' = attempted \cup {current}
  /\ \/ GoOpen /\ UNCHANGED target
     \/ /\ current \in seen.hist
        /\ \E published \in BOOLEAN : target' = RescueTarget(published)
        /\ point' = "hnote" /\ UNCHANGED <<left, seen, op, issue>>
  /\ UNCHANGED <<Board, running, guard, source, fix, lock, FixBudgets>>

RescueNote ==
  /\ point = "hnote"
  /\ \E ok \in BOOLEAN :
       /\ Written(ok) /\ rec' = IF ok THEN rec \cup {current} ELSE rec
       /\ IF ok THEN point' = "hstate" /\ UNCHANGED <<left, seen, op, issue>> ELSE GoOpen
  /\ UNCHANGED <<st, notes, host, links, hist, rescues, finished, running, guard, attempted, source, target, fix, lock, edits, starts, busy>>

RescueMove ==
  /\ point = "hstate"
  /\ \E ok \in BOOLEAN :
       /\ Written(ok)
       /\ IF ok THEN NextTicket /\ Moved(current, target) /\ UNCHANGED <<op, issue>>
          ELSE GoOpen /\ UNCHANGED <<st, notes>>
       /\ target' = "Review"
       /\ rescues' = [rescues EXCEPT ![current] = @ + IF ok /\ target = "Active" THEN 1 ELSE 0]
  /\ UNCHANGED <<host, links, hist, rec, finished, running, guard, attempted, source, fix, lock, edits, starts, busy>>

OpenFix ==
  /\ point = "recover" /\ current \in attempted /\ GoOpen
  /\ UNCHANGED <<Board, running, guard, attempted, source, target, fix, lock, FixBudgets>>

-----------------------------------------------------------------------------
(* Opening a fix ticket, by the tick or for an operator, under one lock.     *)

Edit == edits < MaxEdits /\ edits' = edits + 1

Recover ==
  /\ op["manual"] = "none" /\ Edit
  /\ ~running /\ st[0] = "Blocked"
  /\ op' = [op EXCEPT !["manual"] = "lock"] /\ issue' = [issue EXCEPT !["manual"] = notes[0]]
  /\ UNCHANGED <<Board, running, guard, attempted, point, left, seen, source, target, fix, lock, starts, refusals, busy>>

TakeLock(a) ==
  /\ op[a] = "lock" /\ lock = "none" /\ lock' = a /\ op' = [op EXCEPT ![a] = "scan"]
  /\ UNCHANGED <<Board, running, guard, attempted, point, left, seen, source, target, issue, fix, FixBudgets>>

\* Back to the caller; the tick goes on with its next ticket.
Return(a) ==
  /\ op' = [op EXCEPT ![a] = "none"] /\ lock' = "none"
  /\ issue' = [issue EXCEPT ![a] = <<>>] /\ fix' = [fix EXCEPT ![a] = 0]
  /\ IF a = "tick" THEN NextTicket ELSE UNCHANGED <<point, left, seen>>

OpenFixes == {f \in Fixes : st[f] \notin {"none", "Done"}}

MutantScan(a) == OpenFixes \cap {f \in Fixes : st[f] = "Active"}

\* The board is authoritative; parked fix tickets still count.
Scan(a) == OpenFixes

ScanBoard(a) ==
  /\ op[a] = "scan"
  /\ IF Scan(a) # {}
     THEN /\ fix' = [fix EXCEPT ![a] = Min(Scan(a))] /\ op' = [op EXCEPT ![a] = "relink"]
          /\ UNCHANGED <<guard, point, left, seen, lock, issue>>
     ELSE IF AlreadyRequested(issue[a]) \/ guard THEN guard' = TRUE /\ Return(a)
     ELSE op' = [op EXCEPT ![a] = "create"] /\ UNCHANGED <<guard, point, left, seen, lock, issue, fix>>
  /\ UNCHANGED <<Board, running, attempted, source, target, FixBudgets>>

MutantRelink(a, ok) == links

\* An interrupted create is finished: the edge and then the note.
Relink(a, ok) == IF ok THEN links \cup {fix[a]} ELSE links

RelinkFix(a) ==
  /\ op[a] = "relink"
  /\ \E ok \in BOOLEAN : Written(ok) /\ links' = Relink(a, ok)
  /\ IF AlreadyRequested(issue[a]) THEN guard' = TRUE /\ Return(a)
     ELSE op' = [op EXCEPT ![a] = "renote"] /\ UNCHANGED <<guard, point, left, seen, lock, issue, fix>>
  /\ UNCHANGED <<st, notes, host, hist, rec, rescues, finished, running, attempted, source, target, edits, starts, busy>>

RenoteFix(a) ==
  /\ op[a] = "renote" /\ guard' = TRUE /\ Return(a)
  /\ \E ok \in BOOLEAN :
       Written(ok) /\ notes' = IF ok THEN [notes EXCEPT ![0] = Mark(@, "req")] ELSE notes
  /\ UNCHANGED <<st, host, links, hist, rec, rescues, finished, running, attempted, source, target, edits, starts, busy>>

Unmade == {f \in Fixes : st[f] = "none"}

CreateFix(a) ==
  /\ op[a] = "create"
  /\ \E ok \in BOOLEAN :
       /\ IF Unmade = {} THEN ~ok /\ UNCHANGED refusals ELSE Written(ok)
       /\ IF ok THEN /\ fix' = [fix EXCEPT ![a] = Min(Unmade)]
                     /\ st' = [st EXCEPT ![Min(Unmade)] = "Active"]
                     /\ op' = [op EXCEPT ![a] = "link"] /\ UNCHANGED <<point, left, seen, lock, issue>>
          ELSE Return(a) /\ UNCHANGED st
  /\ UNCHANGED <<notes, host, links, hist, rec, rescues, finished, running, guard, attempted, source, target, edits, starts, busy>>

LinkFix(a) ==
  /\ op[a] = "link" /\ op' = [op EXCEPT ![a] = "note"]
  /\ \E ok \in BOOLEAN : Written(ok) /\ links' = IF ok THEN links \cup {fix[a]} ELSE links
  /\ UNCHANGED <<st, notes, host, hist, rec, rescues, finished, running, guard, attempted, point, left, seen, source, target, issue, fix, lock, edits, starts, busy>>

NoteFix(a) ==
  /\ op[a] = "note" /\ Return(a)
  /\ \E ok \in BOOLEAN :
       /\ Written(ok) /\ guard' = (guard \/ ok)
       /\ notes' = IF ok THEN [notes EXCEPT ![0] = Mark(@, "req")] ELSE notes
  /\ UNCHANGED <<st, host, links, hist, rec, rescues, finished, running, attempted, source, target, edits, starts, busy>>

-----------------------------------------------------------------------------
(* Workers and operators.                                                    *)

EditsOnly == finished' = finished \cup {f \in Fixes : st'[f] = "Done"} /\ UNCHANGED <<host, links, rec, rescues, guard, attempted, point, left, seen, source, target, Opening, refusals, busy>>

\* A fix worker writes its findings on its own ticket or on the source ...
FixNotes ==
  /\ Edit /\ \E f \in Fixes : st[f] = "Active"
  /\ \E t \in Tickets, m \in {"res", "op"} :
       /\ t = 0 \/ st[t] = "Active"
       /\ notes' = [notes EXCEPT ![t] = Mark(@, m)]
  /\ UNCHANGED <<st, hist, running, starts>> /\ EditsOnly

\* ... parks or finishes its ticket ...
FixMoves ==
  /\ Edit /\ \E f \in Fixes :
       /\ st[f] = "Active"
       /\ \E s \in {"Blocked", "Review", "Done"}, h \in BOOLEAN :
            /\ st' = [st EXCEPT ![f] = s]
            /\ h => s = "Blocked"
            /\ hist' = IF h THEN hist \cup {f} ELSE hist
  /\ UNCHANGED <<notes, running, starts>> /\ EditsOnly

\* ... and moves the source back itself, as its instructions ask; so may an operator.
SourceMoved ==
  /\ Edit /\ st[0] = "Blocked" /\ st' = [st EXCEPT ![0] = "Active"]
  /\ UNCHANGED <<notes, hist, running, starts>> /\ EditsOnly

\* An operator answers a parked fix ticket.
OperatorAnswers ==
  /\ Edit /\ \E f \in Fixes :
       /\ st[f] \in {"Review", "Blocked"}
       /\ \E s \in {"Active", "Done"} : st' = [st EXCEPT ![f] = s]
  /\ UNCHANGED <<notes, hist, running, starts>> /\ EditsOnly

\* The source's own run ends.
RunEnds ==
  /\ running /\ running' = FALSE
  /\ \E s \in {"Blocked", "Done"}, h \in BOOLEAN :
       /\ st' = [st EXCEPT ![0] = s] /\ (h => s = "Blocked")
       /\ hist' = IF h THEN hist \cup {0} ELSE hist
  /\ UNCHANGED <<notes, edits, starts>> /\ EditsOnly

ServiceDies ==
  /\ refusals < MaxRefusals /\ refusals' = refusals + 1
  /\ point' = "idle" /\ op' = [a \in Callers |-> "none"] /\ lock' = "none"
  /\ guard' = FALSE /\ attempted' = {} /\ running' = FALSE
  /\ left' = {} /\ seen' = Nothing /\ source' = NoSource /\ target' = "Review"
  /\ issue' = [a \in Callers |-> <<>>] /\ fix' = [a \in Callers |-> 0]
  /\ UNCHANGED <<Board, edits, starts, busy>>

-----------------------------------------------------------------------------
FixTick ==
  \/ SweepFetch \/ SweepNext \/ DemoteFix \/ ReblockSource \/ ReopenNote \/ ReopenSource
  \/ FetchCandidates \/ DispatchSource \/ ListBlocked \/ TryRescue \/ RescueNote
  \/ RescueMove \/ OpenFix

Open(a) ==
  \/ TakeLock(a) \/ ScanBoard(a) \/ RelinkFix(a) \/ RenoteFix(a)
  \/ CreateFix(a) \/ LinkFix(a) \/ NoteFix(a)

NextFixes ==
  \/ FixTick \/ Recover \/ \E a \in Callers : Open(a)
  \/ FixNotes \/ FixMoves \/ SourceMoved \/ OperatorAnswers \/ RunEnds \/ ServiceDies

\* The orchestrator's task and the requests it serves keep running.
FixSpec == InitFixes /\ [][NextFixes]_fixVars /\ WF_fixVars(FixTick) /\ \A a \in Callers : WF_fixVars(Open(a))

-----------------------------------------------------------------------------
(* "One rescue per ticket ... looping a ticket through the pipeline forever  *)
(* is a worse failure mode" (blocked_recovery.py:744-746), whichever write   *)
(* of a rescue fails or is cut off.                                          *)
RescuedOnce == \A t \in Tickets : rescues[t] <= 1

(* "reconcile that partial write rather than suppressing the retry or         *)
(* creating a second FIX ticket" (blocked_recovery.py:856-858): a source has  *)
(* at most one open fix ticket that was never finished, whatever the tick and *)
(* operators ask for and whatever fails.                                      *)
OneOpenFix == \A f, g \in OpenFixes \ finished : f = g

Unlinked == st[0] = "Blocked" /\ OpenFixes # {} /\ OpenFixes \cap links = {}

(* A source that lost the link to its fix ticket, to a refused write or to a  *)
(* crash, gets it back as long as both stay open ("Partial creates are        *)
(* repaired by the active-board path", blocked_recovery.py:948-949).          *)
PartialCreateRepaired == Unlinked ~> ~Unlinked

(* "A source that later blocks again is a new episode and may open a new RCA" *)
(* (core_support.py:254-255): the fix ticket that proved the episode before,  *)
(* and reopened its source, is not what the new episode is held against.      *)
ProvenStaysDone ==
  [][\A f \in Fixes :
       point = "demote" /\ current = f /\ EpisodeResolved(notes[f]) /\ ~NeedsOperator(notes[f])
         /\ host /\ Cardinality(OpenFixes) = 1
       => st'[f] = st[f]]_fixVars

================================================================================
