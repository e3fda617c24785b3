----------------------------- MODULE WorkProofs -----------------------------
(***************************************************************************)
(* Proofs about what an attempt produces.                                  *)
(*                                                                         *)
(* TokenAccounting: a backend which has used up the cap of its phase gets  *)
(* no further turn, for any number of lanes, backends, evicted workers and *)
(* reports that arrive late.  What the entry charges to a phase is never   *)
(* less than the last absolute report it took, whichever backend sent it,  *)
(* nor than what the backend of the phase has used; so the cap is noticed  *)
(* by the report that reaches it.  From then on the entry is cancelled,    *)
(* and a worker whose entry is cancelled is killed before it reaches       *)
(* another turn.                                                           *)
(*                                                                         *)
(* ReleaseContract: a validation that passes is green in every raw line,   *)
(* and a red check that nothing contradicts is red for the runner too, for *)
(* any checks and any number of defects.  The validation looks up the      *)
(* first line of a check; that it speaks for all of them follows from the  *)
(* absence of duplicates in both lists, and their agreement from the       *)
(* coverage of the same checks.                                            *)
(*                                                                         *)
(* Delivery: with preserved workspaces no work of an agent is lost, and    *)
(* what a Done card's agent wrote last is in the target, for any tickets,  *)
(* paths, edits, commits and failures.  A version that is below a branch   *)
(* is its tip's or has been delivered (TipHas), the same holds of the fork *)
(* point and of the worktree, and what one ticket has of another's work    *)
(* came from the target (Apart); so a merge, which takes from each side    *)
(* what the other has not changed, drops nothing that was not delivered.   *)
(*                                                                         *)
(* Deliverables: the sweep removes no stored file of a ticket that it has  *)
(* not seen archived or gone, for any files, sizes, writes and mishaps.    *)
(* A tick that would not retain the ticket has seen it so, unless the      *)
(* board listed nothing at all, and then the tick ends.                    *)
(***************************************************************************)
EXTENDS TokenAccounting, ReleaseContract, Delivery, Deliverables, SequenceTheorems,
        FiniteSetTheorems, WellFoundedInduction, TLAPS

TokenReport == [used : Nat, spoke : BOOLEAN, idle : Nat, live : BOOLEAN]
TokenEntry ==
  [in : {TRUE}, reported : Nat, phase : Nat, total : Nat, stats : Nat, ema : Nat,
   hit : BOOLEAN, cancelled : BOOLEAN, empty : Nat, loop : BOOLEAN, said : BOOLEAN,
   at : Nat, lane : Nat]
Working == {"top", "turn", "returned"}
Worker ==
  [pc : {"off", "leave", "exit"} \cup Working, client : Nat, turn : Nat,
   reason : {"normal", "error", "cancelled"}, kill : BOOLEAN]

Card == [lane : Nat, paused : BOOLEAN, exhausted : BOOLEAN]

Typed == clients \in Seq(TokenReport) /\ w \in Worker /\ ticket \in Card

(* The entry's phase covers its last report, and its cap is noticed.       *)
Sound(e) ==
  /\ e.phase >= e.reported
  /\ e.hit => e.cancelled
  /\ e.phase >= Cap => e.cancelled

(* While a worker has a backend, its entry covers what the backend has     *)
(* used, and a cancelled entry means a killed worker until the worker      *)
(* leaves its loop.                                                        *)
Covered ==
  /\ w.pc = "off" => entry = NoEntry
  /\ w.pc # "off" => entry \in TokenEntry /\ Sound(entry)
  /\ w.pc \in Working \cup {"leave"} =>
       w.client \in 1..Len(clients) /\ clients[w.client].used <= entry.phase
  /\ w.pc \in Working /\ entry.cancelled => w.kill

Inv == Typed /\ Covered

-----------------------------------------------------------------------------
(* The handler's operators. *)

LEMMA TotalsCover ==
  ASSUME NEW e \in TokenEntry, e.phase >= e.reported, NEW usage \in Nat
  PROVE  /\ ApplyTokenTotals(e, usage) \in TokenEntry
         /\ ApplyTokenTotals(e, usage).phase >= usage
         /\ ApplyTokenTotals(e, usage).phase >= e.phase
         /\ ApplyTokenTotals(e, usage).reported = usage
         /\ ApplyTokenTotals(e, usage).hit = e.hit
         /\ ApplyTokenTotals(e, usage).cancelled = e.cancelled
  <1> DEFINE phase == e.phase + Delta(e, usage)
             total == e.total + Delta(e, usage)
  <1>1. phase \in Nat /\ total \in Nat /\ phase >= usage /\ phase >= e.phase
    BY DEF Delta, TokenEntry
  <1>2. ApplyTokenTotals(e, usage) =
          [e EXCEPT !.reported = usage, !.phase = phase, !.total = total]
    BY DEF ApplyTokenTotals, TokenEntry
  <1> HIDE DEF phase, total
  <1> QED BY <1>1, <1>2 DEF TokenEntry

LEMMA ChargeCovers ==
  ASSUME NEW e \in TokenEntry, e.hit => e.cancelled
  PROVE  /\ Charge(e) \in TokenEntry
         /\ Charge(e).phase = e.phase /\ Charge(e).reported = e.reported
         /\ Charge(e).hit => Charge(e).cancelled
         /\ e.phase >= Cap => Charge(e).cancelled
         /\ e.cancelled => Charge(e).cancelled
         /\ Charge(e).cancelled => e.cancelled \/ (Charge(e).hit /\ ~e.hit)
  BY TokenAssumption DEF Charge, Breach, TokenEntry

LEMMA SpokenCovers ==
  ASSUME NEW e \in TokenEntry, Sound(e), NEW said \in BOOLEAN, NEW usage \in Nat
  PROVE  /\ Spoken(e, said, usage) \in TokenEntry /\ Sound(Spoken(e, said, usage))
         /\ Spoken(e, said, usage).phase >= usage
         /\ Spoken(e, said, usage).phase >= e.phase
         /\ Spoken(e, said, usage).cancelled =>
              e.cancelled \/ (Spoken(e, said, usage).hit /\ ~e.hit)
  <1> DEFINE f == Preview(e, said)
             g == ApplyTokenTotals(f, usage)
  <1>1. /\ f \in TokenEntry /\ f.phase = e.phase /\ f.reported = e.reported
        /\ f.hit = e.hit /\ f.cancelled = e.cancelled
    BY DEF Preview, TokenEntry
  <1> HIDE DEF f
  <1>2. /\ g \in TokenEntry /\ g.phase >= usage /\ g.phase >= e.phase /\ g.reported = usage
        /\ g.hit = e.hit /\ g.cancelled = e.cancelled
    BY <1>1, TotalsCover DEF Sound
  <1> HIDE DEF g
  <1>3. /\ Charge(g) \in TokenEntry /\ Charge(g).phase = g.phase /\ Charge(g).reported = g.reported
        /\ Charge(g).hit => Charge(g).cancelled
        /\ g.phase >= Cap => Charge(g).cancelled
        /\ Charge(g).cancelled => g.cancelled \/ (Charge(g).hit /\ ~g.hit)
    BY <1>2, ChargeCovers DEF Sound
  <1>4. Spoken(e, said, usage) = Charge(g)
    BY DEF Spoken, f, g
  <1> QED BY <1>2, <1>3, <1>4 DEF Sound, TokenEntry

LEMMA CountCovers ==
  ASSUME NEW e \in TokenEntry, Sound(e)
  PROVE  /\ CountEmpty(Recorded(e)) \in TokenEntry /\ Sound(CountEmpty(Recorded(e)))
         /\ CountEmpty(Recorded(e)).phase = e.phase
         /\ CountEmpty(Recorded(e)).hit = e.hit
         /\ CountEmpty(Recorded(e)).cancelled = e.cancelled
  <1> DEFINE f == Recorded(e)
             empty == f.empty + 1
             loops == f.loop \/ (f.empty + 1 >= Threshold /\ ~f.cancelled)
  <1>1. /\ f \in TokenEntry /\ f.phase = e.phase /\ f.reported = e.reported
        /\ f.hit = e.hit /\ f.cancelled = e.cancelled
    BY DEF Recorded, TokenEntry
  <1> HIDE DEF f
  <1>2. loops \in BOOLEAN /\ empty \in Nat
    BY <1>1 DEF TokenEntry
  <1>3. CountEmpty(f) = IF f.said THEN [f EXCEPT !.empty = 0, !.loop = FALSE, !.said = FALSE]
                        ELSE [f EXCEPT !.empty = empty, !.loop = loops]
    BY <1>1 DEF CountEmpty, TokenEntry
  <1> HIDE DEF loops, empty
  <1>4. /\ CountEmpty(f) \in TokenEntry /\ CountEmpty(f).phase = f.phase
        /\ CountEmpty(f).reported = f.reported /\ CountEmpty(f).hit = f.hit
        /\ CountEmpty(f).cancelled = f.cancelled
    <2>1. CASE f.said
      <3> DEFINE g == [f EXCEPT !.empty = 0, !.loop = FALSE, !.said = FALSE]
      <3>1. CountEmpty(f) = g
        BY <1>3, <2>1
      <3>2. g \in TokenEntry
        BY <1>1 DEF TokenEntry
      <3>3. /\ g.phase = f.phase /\ g.reported = f.reported /\ g.hit = f.hit
            /\ g.cancelled = f.cancelled
        BY <1>1 DEF TokenEntry
      <3> QED BY <3>1, <3>2, <3>3
    <2>2. CASE ~f.said
      BY <1>1, <1>2, <1>3, <2>2 DEF TokenEntry
    <2> QED BY <2>1, <2>2
  <1> QED BY <1>1, <1>4 DEF Sound, f

(* What the card's writers do to it.                                       *)
LEMMA CardKeeps ==
  ASSUME NEW t \in Card, NEW b \in BOOLEAN, NEW lane \in Nat
  PROVE  /\ [t EXCEPT !.lane = lane] \in Card /\ [t EXCEPT !.lane = 0] \in Card
         /\ [t EXCEPT !.paused = b] \in Card /\ [t EXCEPT !.exhausted = b] \in Card
         /\ [t EXCEPT !.paused = b, !.lane = 0] \in Card
         /\ [t EXCEPT !.paused = @ \/ b] \in Card
  <1> DEFINE p == t.paused \/ b
  <1>1. p \in BOOLEAN /\ [t EXCEPT !.paused = @ \/ b] = [t EXCEPT !.paused = p]
    BY DEF Card
  <1> HIDE DEF p
  <1>2. [t EXCEPT !.paused = p] \in Card
    BY <1>1 DEF Card
  <1> QED BY <1>1, <1>2 DEF Card

LEMMA PersistKeeps ==
  ASSUME NEW t \in Card, Persisted(t)
  PROVE  ticket' \in Card
  BY CardKeeps DEF Persisted, Blocked

LEMMA StopKeeps ==
  ASSUME clients \in Seq(TokenReport), NEW c \in 1..Len(clients)
  PROVE  /\ Stop(c) \in Seq(TokenReport) /\ Len(Stop(c)) = Len(clients)
         /\ \A d \in 1..Len(clients) : Stop(c)[d].used = clients[d].used
  <1>1. [clients[c] EXCEPT !.live = FALSE] \in TokenReport
    <2>1. clients[c] \in TokenReport
      BY ElementOfSeq
    <2> QED BY <2>1 DEF TokenReport
  <1>2. Stop(c) = [clients EXCEPT ![c] = [clients[c] EXCEPT !.live = FALSE]]
    BY DEF Stop
  <1>3. \A d \in 1..Len(clients) : clients[d] \in TokenReport
    BY ElementOfSeq
  <1> QED BY <1>1, <1>2, <1>3, ExceptSeq DEF TokenReport

LEMMA NewBackend ==
  ASSUME NEW s \in Seq(TokenReport)
  PROVE  LET t == Append(s, [used |-> 0, spoke |-> FALSE, idle |-> 0, live |-> TRUE])
         IN  /\ t \in Seq(TokenReport) /\ Len(t) = Len(s) + 1 /\ t[Len(s) + 1].used = 0
             /\ t[Len(t)] = [used |-> 0, spoke |-> FALSE, idle |-> 0, live |-> TRUE]
  <1>1. [used |-> 0, spoke |-> FALSE, idle |-> 0, live |-> TRUE] \in TokenReport
    BY DEF TokenReport
  <1> QED BY <1>1, AppendProperties, LenProperties

(* A backend's record after it used more tokens.                           *)
LEMMA UsesMore ==
  ASSUME NEW c \in TokenReport, NEW used \in 0..1, NEW said \in BOOLEAN
  PROVE  /\ [c EXCEPT !.used = @ + used, !.spoke = @ \/ said] \in TokenReport
         /\ [c EXCEPT !.used = @ + used, !.spoke = FALSE,
                      !.idle = IF c.spoke THEN 0 ELSE @ + 1] \in TokenReport
         /\ [c EXCEPT !.used = @ + used, !.spoke = FALSE,
                      !.idle = IF c.spoke THEN 0 ELSE @ + 1].used = c.used + used
  <1> DEFINE more == c.used + used
             idle == IF c.spoke THEN 0 ELSE c.idle + 1
             spoke == c.spoke \/ said
  <1>1. more \in Nat /\ idle \in Nat /\ spoke \in BOOLEAN
    BY DEF TokenReport
  <1>2. /\ [c EXCEPT !.used = @ + used, !.spoke = @ \/ said]
             = [c EXCEPT !.used = more, !.spoke = spoke]
        /\ [c EXCEPT !.used = @ + used, !.spoke = FALSE,
                      !.idle = IF c.spoke THEN 0 ELSE @ + 1]
             = [c EXCEPT !.used = more, !.spoke = FALSE, !.idle = idle]
    BY DEF TokenReport
  <1>3. [c EXCEPT !.used = more, !.spoke = FALSE, !.idle = idle].used = more
    BY DEF TokenReport
  <1> HIDE DEF more, idle, spoke
  <1>4. /\ [c EXCEPT !.used = more, !.spoke = spoke] \in TokenReport
        /\ [c EXCEPT !.used = more, !.spoke = FALSE, !.idle = idle] \in TokenReport
    BY <1>1 DEF TokenReport
  <1> QED BY <1>2, <1>3, <1>4 DEF more

LEMMA UseCounts ==
  ASSUME clients \in Seq(TokenReport), NEW c \in DOMAIN clients, NEW r \in TokenReport,
         clients' = [clients EXCEPT ![c] = r]
  PROVE  /\ clients' \in Seq(TokenReport) /\ Len(clients') = Len(clients) /\ c \in 1..Len(clients)
         /\ clients'[c] = r
         /\ \A d \in 1..Len(clients) : d # c => clients'[d] = clients[d]
  <1>1. DOMAIN clients = 1..Len(clients)
    BY LenProperties
  <1> QED BY <1>1, ExceptSeq


-----------------------------------------------------------------------------
(* The steps, by what they do to the worker. *)

LEMMA Starts == ASSUME Init PROVE Inv
  <1>1. clients \in Seq(TokenReport)
    BY DEF Init
  <1>2. ticket \in Card
    BY DEF Init, Card
  <1>3. w \in Worker /\ w.pc = "off"
    BY DEF Init, NoWorker, Worker, Working
  <1> QED BY <1>1, <1>2, <1>3 DEF Init, Inv, Typed, Covered, Working

(* Reports of the worker's backend.                                        *)
LEMMA MessageCovers ==
  ASSUME Inv, NEW said \in BOOLEAN, NEW used \in 0..1, Message(said, used)
  PROVE  Inv'
  <1> DEFINE r == [clients[w.client] EXCEPT !.used = @ + used, !.spoke = @ \/ said]
  <1>1. w.client \in 1..Len(clients) /\ entry \in TokenEntry /\ Sound(entry) /\ entry.in
    BY DEF Message, Inv, Covered, Worker, Working, TokenEntry
  <1>2. clients[w.client] \in TokenReport /\ r \in TokenReport
    <2>1. clients[w.client] \in TokenReport
      BY <1>1, ElementOfSeq DEF Inv, Typed
    <2> QED BY <2>1, UsesMore
  <1>3. clients' = [clients EXCEPT ![w.client] = r]
    BY DEF Message, Uses
  <1> HIDE DEF r
  <1>4. /\ clients' \in Seq(TokenReport) /\ Len(clients') = Len(clients)
        /\ clients'[w.client] = r
    BY <1>1, <1>2, <1>3, UseCounts, LenProperties DEF Inv, Typed
  <1> DEFINE e == Spoken(entry, said, r.used)
  <1>5. /\ e \in TokenEntry /\ Sound(e) /\ e.phase >= r.used
        /\ e.cancelled => entry.cancelled \/ (e.hit /\ ~entry.hit)
    BY <1>1, <1>2, SpokenCovers DEF TokenReport
  <1>6. entry' = e /\ w' = [w EXCEPT !.kill = Killed(e)]
    BY <1>1, <1>4 DEF Message, Handled
  <1> HIDE DEF e
  <1>7. Killed(e) \in BOOLEAN /\ (e.cancelled /\ w.pc \in Working => Killed(e))
    BY <1>5 DEF Killed, Inv, Covered, Typed, Worker
  <1>8. w' \in Worker /\ w'.pc = w.pc /\ w'.client = w.client /\ w'.kill = Killed(e)
    BY <1>6, <1>7 DEF Inv, Typed, Worker
  <1> QED BY <1>1, <1>4, <1>5, <1>6, <1>7, <1>8 DEF Inv, Typed, Covered, Message, Working

LEMMA TurnCovers ==
  ASSUME Inv, NEW used \in 0..1, TurnCompleted(used)
  PROVE  Inv'
  <1> DEFINE c == clients[w.client]
             e == Spoken(entry, FALSE, c.used + used)
             r == [c EXCEPT !.used = @ + used, !.spoke = FALSE,
                            !.idle = IF c.spoke THEN 0 ELSE @ + 1]
  <1>1. w.client \in 1..Len(clients) /\ entry \in TokenEntry /\ Sound(entry) /\ w \in Worker
    BY DEF TurnCompleted, Inv, Covered, Typed, Worker, Working, TokenEntry
  <1>2. c \in TokenReport /\ r \in TokenReport /\ r.used = c.used + used
    <2>1. c \in TokenReport
      BY <1>1, ElementOfSeq DEF Inv, Typed
    <2> HIDE DEF c
    <2> QED BY <2>1, UsesMore
  <1>3. /\ e \in TokenEntry /\ Sound(e) /\ e.phase >= c.used + used
        /\ e.cancelled => entry.cancelled \/ (e.hit /\ ~entry.hit)
    BY <1>1, <1>2, SpokenCovers DEF TokenReport
  <1>4. clients' = [clients EXCEPT ![w.client] = r]
    BY DEF TurnCompleted
  <1> HIDE DEF r
  <1>5. /\ clients' \in Seq(TokenReport) /\ Len(clients') = Len(clients)
        /\ clients'[w.client] = r
    BY <1>1, <1>2, <1>4, UseCounts, LenProperties DEF Inv, Typed
  <1>6. entry' = CountEmpty(Recorded(e)) /\ w' = [w EXCEPT !.pc = "returned", !.kill = Killed(e)]
    BY DEF TurnCompleted
  <1> HIDE DEF e
  <1>7. /\ entry' \in TokenEntry /\ Sound(entry') /\ entry'.phase = e.phase
        /\ entry'.cancelled = e.cancelled
    BY <1>3, <1>6, CountCovers
  <1>8. Killed(e) \in BOOLEAN /\ (e.cancelled => Killed(e))
    BY <1>3 DEF Killed, Inv, Covered, Typed, Worker, TurnCompleted, Working
  <1>9. w' \in Worker /\ w'.pc = "returned" /\ w'.client = w.client /\ w'.kill = Killed(e)
    BY <1>1, <1>6, <1>8 DEF Worker, Working
  <1>10. ticket' = ticket /\ ticket \in Card
    BY DEF TurnCompleted, Inv, Typed
  <1> HIDE DEF c
  <1> QED BY <1>1, <1>2, <1>3, <1>5, <1>7, <1>8, <1>9, <1>10 DEF Inv, Typed, Covered, Working

(* Reports of another backend: they charge the entry, never less.          *)
LEMMA LateCovers ==
  ASSUME Inv, NEW c \in DOMAIN clients, NEW used \in 0..1, LateEvent(c, used)
  PROVE  Inv'
  <1> DEFINE r == [clients[c] EXCEPT !.used = @ + used, !.spoke = @ \/ TRUE]
             e == Spoken(entry, TRUE, r.used)
  <1>0. DOMAIN clients = 1..Len(clients)
    BY LenProperties DEF Inv, Typed
  <1>1. clients[c] \in TokenReport /\ r \in TokenReport
    <2>1. clients[c] \in TokenReport
      BY <1>0, ElementOfSeq DEF Inv, Typed
    <2> QED BY <2>1, UsesMore
  <1>2. clients' = [clients EXCEPT ![c] = r]
    BY DEF LateEvent, Uses
  <1> HIDE DEF r
  <1>3. /\ clients' \in Seq(TokenReport) /\ Len(clients') = Len(clients) /\ clients'[c] = r
        /\ \A d \in 1..Len(clients) : d # c => clients'[d] = clients[d]
    BY <1>1, <1>2, UseCounts DEF Inv, Typed
  <1>4. c # w.client /\ ticket' = ticket
        /\ ticket \in Card
    BY DEF LateEvent, Inv, Typed
  <1>5. CASE ~entry.in
    <2>1. entry' = entry /\ w' = w
      BY <1>5 DEF LateEvent, Handled
    <2>2. w.pc \in Working \cup {"leave"} => clients'[w.client] = clients[w.client]
      BY <1>3, <1>4 DEF Inv, Covered
    <2> QED BY <1>3, <1>4, <2>1, <2>2 DEF Inv, Typed, Covered
  <1>6. CASE entry.in
    <2>1. entry \in TokenEntry /\ Sound(entry) /\ w.pc # "off" /\ w \in Worker
      BY <1>6 DEF Inv, Covered, Typed, NoEntry
    <2>2. /\ e \in TokenEntry /\ Sound(e) /\ e.phase >= entry.phase
          /\ e.cancelled => entry.cancelled \/ (e.hit /\ ~entry.hit)
      BY <1>1, <2>1, SpokenCovers DEF TokenReport
    <2>3. entry' = e /\ w' = [w EXCEPT !.kill = Killed(e)]
      BY <1>3, <1>6 DEF LateEvent, Handled
    <2> HIDE DEF e
    <2>4. Killed(e) \in BOOLEAN /\ (e.cancelled /\ w.pc \in Working => Killed(e))
      BY <2>1, <2>2 DEF Killed, Inv, Covered, Typed, Worker
    <2>5. w' \in Worker /\ w'.pc = w.pc /\ w'.client = w.client /\ w'.kill = Killed(e)
      BY <2>1, <2>3, <2>4 DEF Worker
    <2>6. w.pc \in Working \cup {"leave"} =>
            /\ w.client \in 1..Len(clients) /\ clients'[w.client] = clients[w.client]
            /\ clients[w.client] \in TokenReport /\ clients[w.client].used <= entry.phase
      BY <1>3, <1>4, ElementOfSeq DEF Inv, Covered, Typed
    <2>7. w.pc \in Working \cup {"leave"} => clients'[w.client].used <= e.phase
      <3>1. ASSUME w.pc \in Working \cup {"leave"} PROVE clients[w.client].used \in Nat
        BY <2>6, <3>1 DEF TokenReport
      <3>2. e.phase \in Nat /\ entry.phase \in Nat
        BY <2>1, <2>2 DEF TokenEntry
      <3> QED BY <2>2, <2>6, <3>1, <3>2
    <2> QED BY <1>3, <1>4, <2>1, <2>2, <2>3, <2>4, <2>5, <2>6, <2>7 DEF Inv, Typed, Covered
  <1> QED BY <1>5, <1>6

(* A new backend of a new entry or of a new phase has used nothing.        *)
LEMMA BackendCovers ==
  ASSUME Inv, Dispatch \/ Evaluate
  PROVE  Inv'
  <1>0. /\ clients \in Seq(TokenReport) /\ w \in Worker
        /\ ticket \in Card
    BY DEF Inv, Typed
  <1>1. CASE Dispatch
    <2>1. /\ clients' \in Seq(TokenReport) /\ Len(clients') = Len(clients) + 1
          /\ clients'[Len(clients) + 1].used = 0
      BY <1>0, <1>1, NewBackend DEF Dispatch, New
    <2>2. entry' \in TokenEntry /\ entry'.phase = 0 /\ entry'.reported = 0
          /\ ~entry'.hit /\ ~entry'.cancelled
      <3>1. ticket.lane \in Nat /\ entry' = Fresh(ticket.lane)
        BY <1>0, <1>1 DEF Dispatch, Card
      <3> QED BY <3>1 DEF Fresh, TokenEntry
    <2>3. w' \in Worker /\ w'.pc = "top" /\ w'.client = Len(clients) + 1
      <3> DEFINE n == Len(clients) + 1
      <3>1. n \in Nat /\ w' = [NoWorker EXCEPT !.pc = "top", !.client = n]
        BY <1>0, <1>1, LenProperties DEF Dispatch
      <3> HIDE DEF n
      <3>2. w' \in Worker /\ w'.pc = "top" /\ w'.client = n
        BY <3>1 DEF NoWorker, Worker, Working
      <3> QED BY <3>2 DEF n
    <2>4. ticket' = ticket
      BY <1>1 DEF Dispatch
    <2> QED BY <1>0, <2>1, <2>2, <2>3, <2>4, TokenAssumption, LenProperties
            DEF Inv, Typed, Covered, Sound, Working
  <1>2. CASE Evaluate
    <2>1. /\ w.pc = "returned" /\ ~w.kill /\ entry \in TokenEntry /\ Sound(entry) /\ ~entry.cancelled
          /\ w.client \in 1..Len(clients) /\ clients[w.client].used <= entry.phase
          /\ ticket' = ticket
      BY <1>2 DEF Evaluate, Inv, Covered, Working
    <2>2. CASE Go("top") /\ UNCHANGED <<clients, entry>>
      <3>1. w' \in Worker /\ w'.pc = "top" /\ w'.client = w.client
        BY <1>0, <2>2 DEF Go, Worker, Working
      <3> QED BY <1>0, <2>1, <2>2, <3>1 DEF Inv, Typed, Covered, Working
    <2>3. CASE Leave("normal") /\ entry' = [entry EXCEPT !.lane = ticket.lane] /\ UNCHANGED clients
      <3>1. w' \in Worker /\ w'.pc = "leave" /\ w'.client = w.client
        BY <1>0, <2>3 DEF Leave, Worker, Working
      <3>2. entry' \in TokenEntry /\ Sound(entry') /\ entry'.phase = entry.phase
        <4>1. ticket.lane \in Nat
          BY <1>0 DEF Card
        <4> QED BY <2>1, <2>3, <4>1 DEF TokenEntry, Sound
      <3> QED BY <1>0, <2>1, <2>3, <3>1, <3>2 DEF Inv, Typed, Covered, Working
    <2>4. CASE /\ clients' = Append(Stop(w.client), New[Len(New)])
               /\ entry' = ResetPhase(entry, ticket.lane)
               /\ w' = [w EXCEPT !.pc = "top", !.client = Len(clients) + 1]
      <3>1. Stop(w.client) \in Seq(TokenReport) /\ Len(Stop(w.client)) = Len(clients)
        BY <1>0, <2>1, StopKeeps
      <3>2. New[Len(New)] = [used |-> 0, spoke |-> FALSE, idle |-> 0, live |-> TRUE]
        BY <1>0, NewBackend DEF New
      <3>3. /\ clients' \in Seq(TokenReport) /\ Len(clients') = Len(clients) + 1
            /\ clients'[Len(clients) + 1].used = 0
        BY <2>4, <3>1, <3>2, NewBackend
      <3>4. entry' \in TokenEntry /\ entry'.phase = 0 /\ entry'.reported = 0
            /\ ~entry'.hit /\ ~entry'.cancelled
        <4>1. ticket.lane \in Nat
          BY <1>0 DEF Card
        <4> QED BY <2>1, <2>4, <4>1 DEF ResetPhase, TokenEntry
      <3>5. w' \in Worker /\ w'.pc = "top" /\ w'.client = Len(clients) + 1
        <4> DEFINE n == Len(clients) + 1
        <4>1. n \in Nat /\ w' = [w EXCEPT !.pc = "top", !.client = n]
          BY <1>0, <2>4, LenProperties
        <4> HIDE DEF n
        <4>2. w' \in Worker /\ w'.pc = "top" /\ w'.client = n
          BY <1>0, <4>1 DEF Worker, Working
        <4> QED BY <4>2 DEF n
      <3> QED BY <1>0, <2>1, <3>3, <3>4, <3>5, TokenAssumption, LenProperties
              DEF Inv, Typed, Covered, Sound, Working
    <2> QED BY <1>2, <2>2, <2>3, <2>4 DEF Evaluate, NextBackend
  <1> QED BY <1>1, <1>2

(* The worker's other steps towards its exit.                              *)
LEMMA LoopCovers ==
  ASSUME Inv, StartTurn \/ LoopStops \/ TurnFails \/ Cancelled \/ CleanUp
  PROVE  Inv'
  <1>0. /\ clients \in Seq(TokenReport) /\ w \in Worker /\ entry \in TokenEntry /\ Sound(entry)
        /\ ticket \in Card
        /\ w.client \in 1..Len(clients) /\ clients[w.client].used <= entry.phase
        /\ w.pc \in Working /\ entry.cancelled => w.kill
    BY DEF Inv, Typed, Covered, StartTurn, LoopStops, TurnFails, Cancelled, CleanUp, Working
  <1>1. CASE StartTurn
    <2>1. w' \in Worker /\ w'.pc = "turn" /\ w'.client = w.client /\ w'.kill = w.kill
      <3> DEFINE n == w.turn + 1
      <3>1. n \in Nat /\ w' = [w EXCEPT !.pc = "turn", !.turn = n]
        BY <1>0, <1>1 DEF StartTurn, Worker
      <3> HIDE DEF n
      <3> QED BY <1>0, <3>1 DEF Worker, Working
    <2>2. /\ entry' \in TokenEntry /\ Sound(entry') /\ entry'.phase = entry.phase
          /\ entry'.cancelled = entry.cancelled
      BY <1>0, <1>1 DEF StartTurn, TokenEntry, Sound
    <2> QED BY <1>0, <1>1, <2>1, <2>2 DEF Inv, Typed, Covered, StartTurn, Working
  <1>2. CASE LoopStops
    <2>1. w' \in Worker /\ w'.pc = "leave" /\ w'.client = w.client
      BY <1>0, <1>2 DEF LoopStops, Leave, Worker, Working
    <2>2. entry' \in TokenEntry /\ Sound(entry') /\ entry'.phase = entry.phase
      BY <1>0, <1>2 DEF LoopStops, TokenEntry, Sound
    <2>3. ticket' \in Card
      BY <1>0, <1>2, CardKeeps, PersistKeeps DEF LoopStops
    <2> QED BY <1>0, <1>2, <2>1, <2>2, <2>3 DEF Inv, Typed, Covered, LoopStops, Working
  <1>3. CASE TurnFails
    <2>1. w' \in Worker /\ w'.pc = "leave" /\ w'.client = w.client
      BY <1>0, <1>3 DEF TurnFails, Leave, Worker, Working
    <2> QED BY <1>0, <1>3, <2>1 DEF Inv, Typed, Covered, TurnFails, Working
  <1>4. CASE Cancelled \/ CleanUp
    <2>1. clients' \in Seq(TokenReport)
      BY <1>0, <1>4, StopKeeps DEF Cancelled, CleanUp
    <2>2. w' \in Worker /\ w'.pc = "exit"
      BY <1>0, <1>4 DEF Cancelled, CleanUp, Go, Worker, Working
    <2> QED BY <1>0, <1>4, <2>1, <2>2 DEF Inv, Typed, Covered, Cancelled, CleanUp, Working
  <1> QED BY <1>1, <1>2, <1>3, <1>4

(* The ends of a worker, and what moves only the card.                     *)
LEMMA ExitCovers ==
  ASSUME Inv, Evict \/ ExitNormal \/ ExitTerminal \/ ExitError
  PROVE  Inv'
  <1>1. w' = NoWorker /\ entry' = NoEntry /\ clients' = clients
    BY DEF Evict, ExitNormal, ExitTerminal, ExitError, Exits
  <1>2. ticket' \in Card
    <2>0. ticket \in Card /\ (\A b \in BOOLEAN : [ticket EXCEPT !.paused = @ \/ b] \in Card)
      BY CardKeeps DEF Inv, Typed
    <2>1. CASE Evict
      BY <2>0, <2>1 DEF Evict
    <2>2. CASE ExitNormal
      BY <2>0, <2>2, CardKeeps, PersistKeeps DEF ExitNormal
    <2>3. CASE ExitTerminal
      BY <2>0, <2>3, CardKeeps DEF ExitTerminal, Blocked
    <2>4. CASE ExitError
      BY <2>0, <2>4, CardKeeps DEF ExitError
    <2> QED BY <2>1, <2>2, <2>3, <2>4
  <1> QED BY <1>1, <1>2 DEF Inv, Typed, Covered, NoWorker, Worker, Working

LEMMA CardCovers ==
  ASSUME Inv, Resume \/ \E to \in Active \cup {Done} : AgentMoves(to)
  PROVE  Inv'
  <1>1. w' = w /\ entry' = entry /\ clients' = clients
    BY DEF Resume, AgentMoves
  <1>2. ticket' \in Card
    <2>1. ASSUME NEW to \in Active \cup {Done} PROVE to \in Nat
      BY TokenAssumption DEF Active, Done
    <2>2. ticket \in Card
      BY DEF Inv, Typed
    <2>3. CASE Resume
      BY <2>2, <2>3, CardKeeps DEF Resume
    <2>4. CASE \E to \in Active \cup {Done} : AgentMoves(to)
      <3>1. PICK to \in Active \cup {Done} : ticket' = [ticket EXCEPT !.lane = to]
        BY <2>4 DEF AgentMoves
      <3> QED BY <2>1, <2>2, <3>1, CardKeeps
    <2> QED BY <2>3, <2>4
  <1> QED BY <1>1, <1>2 DEF Inv, Typed, Covered

LEMMA CapIsNoticed == Spec => []Inv
  <1>1. Inv /\ [Next]_vars => Inv'
    <2> SUFFICES ASSUME Inv, [Next]_vars PROVE Inv'
      OBVIOUS
    <2>1. CASE UNCHANGED vars
      BY <2>1 DEF vars, Inv, Typed, Covered
    <2> QED BY <2>1, MessageCovers, TurnCovers, LateCovers, BackendCovers, LoopCovers,
               ExitCovers, CardCovers DEF Next
  <1> QED BY <1>1, Starts, PTL DEF Spec

(* A backend that has used up the cap of its phase gets no further turn,   *)
(* whatever an evicted worker's backend reports in between (the hard       *)
(* token-budget cap of _on_codex_event).                                   *)
THEOREM SpentBackendsStop == Spec => BudgetHolds
  <1>1. Inv /\ [Next]_vars =>
          ((w'.pc = "turn" /\ w.pc # "turn") => clients[w.client].used < Cap)
    <2> SUFFICES ASSUME Inv, [Next]_vars, w'.pc = "turn", w.pc # "turn"
                 PROVE  clients[w.client].used < Cap
      OBVIOUS
    <2>1. w.pc = "top" /\ ~w.kill
      <3>0. w \in Worker
        BY DEF Inv, Typed
      <3>1. \A b : [w EXCEPT !.kill = b].pc = w.pc
        BY <3>0 DEF Worker
      <3>2. CASE StartTurn
        BY <3>2 DEF StartTurn
      <3>3. CASE Dispatch \/ Evict
        <4> DEFINE n == Len(clients) + 1
        <4>1. w' = NoWorker \/ w' = [NoWorker EXCEPT !.pc = "top", !.client = n]
          BY <3>3 DEF Dispatch, Evict
        <4> HIDE DEF n
        <4>2. NoWorker.pc = "off" /\ [NoWorker EXCEPT !.pc = "top", !.client = n].pc = "top"
          BY DEF NoWorker
        <4>3. w'.pc # "turn"
          BY <4>1, <4>2
        <4> QED BY <4>3
      <3>10. CASE LoopStops \/ TurnFails
        BY <3>0, <3>10 DEF LoopStops, TurnFails, Leave, Worker
      <3>11. CASE Cancelled \/ CleanUp
        BY <3>0, <3>11 DEF Cancelled, CleanUp, Go, Worker
      <3>4. CASE Evaluate
        BY <3>0, <3>4 DEF Evaluate, NextBackend, Go, Leave, Worker
      <3>5. ASSUME NEW said \in BOOLEAN, NEW used \in 0..1, Message(said, used) PROVE FALSE
        BY <3>1, <3>5 DEF Message, Handled
      <3>6. ASSUME NEW used \in 0..1, TurnCompleted(used) PROVE FALSE
        BY <3>6 DEF TurnCompleted
      <3>7. ASSUME NEW c \in DOMAIN clients, NEW used \in 0..1, LateEvent(c, used) PROVE FALSE
        BY <3>1, <3>7 DEF LateEvent, Handled
      <3>8. CASE ExitNormal \/ ExitTerminal \/ ExitError
        BY <3>8 DEF ExitNormal, ExitTerminal, ExitError, Exits, NoWorker
      <3>9. CASE UNCHANGED vars \/ Resume \/ \E to \in Active \cup {Done} : AgentMoves(to)
        BY <3>9 DEF vars, Resume, AgentMoves
      <3> QED BY <3>2, <3>3, <3>4, <3>5, <3>6, <3>7, <3>8, <3>9, <3>10,
               <3>11 DEF Next
    <2>2. /\ entry \in TokenEntry /\ entry.phase < Cap /\ w.client \in 1..Len(clients)
          /\ clients[w.client].used <= entry.phase
      <3>1. entry \in TokenEntry /\ Sound(entry) /\ ~entry.cancelled
        BY <2>1 DEF Inv, Covered, Working
      <3>2. entry.phase < Cap
        BY <3>1, TokenAssumption DEF Sound, TokenEntry
      <3> QED BY <2>1, <3>1, <3>2 DEF Inv, Covered, Working
    <2>3. clients[w.client] \in TokenReport
      BY <2>2, ElementOfSeq DEF Inv, Typed
    <2>4. clients[w.client].used \in Nat /\ entry.phase \in Nat /\ Cap \in Nat
      BY <2>2, <2>3, TokenAssumption DEF TokenReport, TokenEntry
    <2> QED BY <2>2, <2>4
  <1> QED BY <1>1, CapIsNoticed, PTL DEF Spec, BudgetHolds

-----------------------------------------------------------------------------
(* The files of a release and their validation.                             *)

(* The files, as far as the checks number their lines.                      *)
VpLists == {<<"wide", "narrow">>, <<"wide">>, <<"wide", "wide", "narrow">>,
            <<"wide", "narrow", "huge">>}
EntrySet == [id : Checks, status : {"PASS", "FAIL", "other"}, vps : VpLists,
             art : Conditions, text : BOOLEAN]
ResultSet == [id : Checks, status : {"PASS", "FAIL"}]
Contracts ==
  [file : {"ok", "missing"}, head : BOOLEAN, runner : BOOLEAN, viewports : BOOLEAN,
   checks : BOOLEAN, branch : BOOLEAN, bytes : BOOLEAN, source : {"match", "differs"}]
Works == [head : BOOLEAN, changed : SUBSET {"docs", "code", "board"}, mount : Mounts]
Evidences ==
  [file : {"ok", "missing"}, manifest : {"ok", "ignored"}, ticket : BOOLEAN, hash : BOOLEAN,
   tgt : BOOLEAN, command : BOOLEAN, exit : {0, 1}, console : {0, 1}, requests : {0, 1},
   checks : Seq(EntrySet)]
Natives == [art : Conditions, bound : BOOLEAN, checks : Seq(ResultSet)]
Docs == [contract : Contracts, tip : BOOLEAN, work : Works, evidence : Evidences,
         native : Natives, merged : SUBSET Impls]

(* Files in order are files. *)
LEMMA GoodIsDoc == Good \in Docs
<1>1. PICK q \in [1 .. Cardinality(Checks) -> Checks] :
         \A i, j \in DOMAIN q : q[i] = q[j] => i = j
  <2>1. ExistsBijection(1 .. Cardinality(Checks), Checks)
    BY ContractAssumption, FS_CardinalityType
  <2>2. PICK q : q \in Bijection(1 .. Cardinality(Checks), Checks)
    BY <2>1 DEF ExistsBijection
  <2> QED BY <2>2 DEF Bijection, Injection, IsInjective
<1>2. Ordered \in [1 .. Cardinality(Checks) -> Checks] /\ Cardinality(Checks) \in Nat
  BY <1>1, ContractAssumption, FS_CardinalityType DEF Ordered
<1>3. [i \in DOMAIN Ordered |-> Entry(Ordered[i])] \in Seq(EntrySet)
  <2>1. \A c \in Checks : Entry(c) \in EntrySet
    BY DEF Entry, EntrySet, VpLists, Conditions
  <2> QED BY <1>2, <2>1
<1>4. [i \in DOMAIN Ordered |-> Result(Ordered[i])] \in Seq(ResultSet)
  <2>1. \A c \in Checks : Result(c) \in ResultSet
    BY DEF Result, ResultSet
  <2> QED BY <1>2, <2>1
<1>5. Good.contract \in Contracts /\ Good.work \in Works
  BY DEF Good, Contracts, Works, Mounts
<1>6. Good.evidence \in Evidences /\ Good.native \in Natives
  BY <1>3, <1>4 DEF Good, Evidences, Natives, Conditions
<1> QED BY <1>5, <1>6 DEF Good, Docs

(* Each kind of damage leaves files that can be described like that.       *)
LEMMA ContractTyped ==
  ASSUME doc \in Docs, ContractChanges  PROVE doc' \in Docs
<1>1. CASE \E f \in {"head", "runner", "viewports", "checks", "branch", "bytes"} :
             doc' = [doc EXCEPT !.contract[f] = FALSE]
  <2>1. PICK f \in {"head", "runner", "viewports", "checks", "branch", "bytes"} :
           doc' = [doc EXCEPT !.contract[f] = FALSE]
    BY <1>1
  <2>2. [doc.contract EXCEPT ![f] = FALSE] \in Contracts
    BY DEF Docs, Contracts
  <2> QED BY <2>1, <2>2 DEF Docs
<1>2. CASE doc' = [doc EXCEPT !.contract.file = "missing"]
  BY <1>2 DEF Docs, Contracts
<1>3. CASE doc' = [doc EXCEPT !.contract.source = "differs"]
  BY <1>3 DEF Docs, Contracts
<1>4. CASE doc' = [doc EXCEPT !.tip = FALSE] \/ doc' = [doc EXCEPT !.merged = {}]
  BY <1>4 DEF Docs
<1> QED BY <1>1, <1>2, <1>3, <1>4 DEF ContractChanges

LEMMA WorkspaceTyped ==
  ASSUME doc \in Docs, WorkspaceChanges  PROVE doc' \in Docs
<1>1. CASE doc' = [doc EXCEPT !.work.head = FALSE]
  BY <1>1 DEF Docs, Works
<1>2. ASSUME NEW p \in {"code", "board"}, doc' = [doc EXCEPT !.work.changed = @ \cup {p}]
      PROVE  doc' \in Docs
  BY <1>2 DEF Docs, Works
<1>3. ASSUME NEW m \in Mounts, doc' = [doc EXCEPT !.work.mount = m]
      PROVE  doc' \in Docs
  BY <1>3 DEF Docs, Works
<1> QED BY <1>1, <1>2, <1>3 DEF WorkspaceChanges

LEMMA EvidenceTyped ==
  ASSUME doc \in Docs, EvidenceChanges  PROVE doc' \in Docs
<1>1. CASE \E f \in {"ticket", "hash", "tgt", "command"} : doc' = [doc EXCEPT !.evidence[f] = FALSE]
  <2>1. PICK f \in {"ticket", "hash", "tgt", "command"} : doc' = [doc EXCEPT !.evidence[f] = FALSE]
    BY <1>1
  <2>2. [doc.evidence EXCEPT ![f] = FALSE] \in Evidences
    BY DEF Docs, Evidences
  <2> QED BY <2>1, <2>2 DEF Docs
<1>2. CASE doc' = [doc EXCEPT !.evidence.file = "missing"]
  BY <1>2 DEF Docs, Evidences
<1>3. CASE doc' = [doc EXCEPT !.evidence.manifest = "ignored"]
  BY <1>3 DEF Docs, Evidences
<1>4. CASE doc' = [doc EXCEPT !.evidence.exit = 1 - @]
  BY <1>4 DEF Docs, Evidences
<1>5. CASE doc' = [doc EXCEPT !.evidence.console = 1] \/ doc' = [doc EXCEPT !.evidence.requests = 1]
  BY <1>5 DEF Docs, Evidences
<1> QED BY <1>1, <1>2, <1>3, <1>4, <1>5 DEF EvidenceChanges

(* A line that is cut out of a sequence leaves a sequence. *)
LEMMA CutLine ==
  ASSUME NEW S, NEW s \in Seq(S), NEW i \in DOMAIN s
  PROVE  SubSeq(s, 1, i - 1) \o SubSeq(s, i + 1, Len(s)) \in Seq(S)
<1>1. i \in 1 .. Len(s) /\ Len(s) \in Nat
  OBVIOUS
<1>2. SubSeq(s, 1, i - 1) \in Seq(S) /\ SubSeq(s, i + 1, Len(s)) \in Seq(S)
  BY <1>1, SubSeqProperties
<1> QED BY <1>2, ConcatProperties

LEMMA CheckTyped ==
  ASSUME doc \in Docs, CheckChanges  PROVE doc' \in Docs
<1> DEFINE lines == doc.evidence.checks
<1>1. lines \in Seq(EntrySet) /\ doc.evidence \in Evidences
  BY DEF Docs, Evidences
<1>2. ASSUME NEW l \in Seq(EntrySet), doc' = [doc EXCEPT !.evidence.checks = l]
      PROVE  doc' \in Docs
  BY <1>2 DEF Docs, Evidences
<1>3. PICK i \in DOMAIN lines :
         \/ \E s \in {"FAIL", "other"} : doc' = [doc EXCEPT !.evidence.checks[i].status = s]
         \/ \E v \in {<<"wide">>, <<"wide", "wide", "narrow">>, <<"wide", "narrow", "huge">>} :
              doc' = [doc EXCEPT !.evidence.checks[i].vps = v]
         \/ \E a \in Conditions : doc' = [doc EXCEPT !.evidence.checks[i].art = a]
         \/ doc' = [doc EXCEPT !.evidence.checks[i].text = FALSE]
         \/ doc' = [doc EXCEPT !.evidence.checks = Append(@, @[i])]
         \/ doc' = [doc EXCEPT !.evidence.checks = Append(@, [@[i] EXCEPT !.status = "FAIL"])]
         \/ doc' = [doc EXCEPT !.evidence.checks = SubSeq(@, 1, i - 1) \o SubSeq(@, i + 1, Len(@))]
  BY DEF CheckChanges
<1> HIDE DEF lines
<1>4. i \in 1 .. Len(lines) /\ lines[i] \in EntrySet
  <2>1. i \in DOMAIN lines
    OBVIOUS
  <2> QED BY <1>1, <2>1
<1> USE DEF lines
<1>5. ASSUME NEW e \in EntrySet,
             doc' = [doc EXCEPT !.evidence.checks = [lines EXCEPT ![i] = e]]
      PROVE  doc' \in Docs
  <2>1. [lines EXCEPT ![i] = e] \in Seq(EntrySet)
    <3> HIDE DEF lines
    <3> QED BY <1>1, <1>4, ExceptSeq
  <2> QED BY <1>2, <1>5, <2>1
<1>6. ASSUME NEW s \in {"FAIL", "other"}, doc' = [doc EXCEPT !.evidence.checks[i].status = s]
      PROVE  doc' \in Docs
  <2>1. [lines[i] EXCEPT !.status = s] \in EntrySet
    BY <1>4 DEF EntrySet
  <2>2. doc' = [doc EXCEPT !.evidence.checks = [lines EXCEPT ![i] = [lines[i] EXCEPT !.status = s]]]
    BY <1>6
  <2> QED BY <1>5, <2>1, <2>2
<1>7. ASSUME NEW v \in VpLists, doc' = [doc EXCEPT !.evidence.checks[i].vps = v]
      PROVE  doc' \in Docs
  <2>1. [lines[i] EXCEPT !.vps = v] \in EntrySet
    BY <1>4 DEF EntrySet
  <2>2. doc' = [doc EXCEPT !.evidence.checks = [lines EXCEPT ![i] = [lines[i] EXCEPT !.vps = v]]]
    BY <1>7
  <2> QED BY <1>5, <2>1, <2>2
<1>8. ASSUME NEW a \in Conditions, doc' = [doc EXCEPT !.evidence.checks[i].art = a]
      PROVE  doc' \in Docs
  <2>1. [lines[i] EXCEPT !.art = a] \in EntrySet
    BY <1>4 DEF EntrySet
  <2>2. doc' = [doc EXCEPT !.evidence.checks = [lines EXCEPT ![i] = [lines[i] EXCEPT !.art = a]]]
    BY <1>8
  <2> QED BY <1>5, <2>1, <2>2
<1>9. ASSUME doc' = [doc EXCEPT !.evidence.checks[i].text = FALSE]  PROVE  doc' \in Docs
  <2>1. [lines[i] EXCEPT !.text = FALSE] \in EntrySet
    BY <1>4 DEF EntrySet
  <2>2. doc' = [doc EXCEPT !.evidence.checks = [lines EXCEPT ![i] = [lines[i] EXCEPT !.text = FALSE]]]
    BY <1>9
  <2> QED BY <1>5, <2>1, <2>2
<1>10. ASSUME NEW e \in EntrySet, doc' = [doc EXCEPT !.evidence.checks = Append(lines, e)]
       PROVE  doc' \in Docs
  <2>1. Append(lines, e) \in Seq(EntrySet)
    BY <1>1, <1>10, AppendProperties
  <2> QED BY <1>2, <1>10, <2>1
<1>11. ASSUME doc' = [doc EXCEPT !.evidence.checks = Append(@, @[i])]  PROVE  doc' \in Docs
  BY <1>4, <1>10, <1>11
<1>12. ASSUME doc' = [doc EXCEPT !.evidence.checks = Append(@, [@[i] EXCEPT !.status = "FAIL"])]
       PROVE  doc' \in Docs
  <2>1. [lines[i] EXCEPT !.status = "FAIL"] \in EntrySet
    BY <1>4 DEF EntrySet
  <2> QED BY <1>10, <1>12, <2>1
<1>13. ASSUME doc' = [doc EXCEPT !.evidence.checks = SubSeq(@, 1, i - 1) \o SubSeq(@, i + 1, Len(@))]
       PROVE  doc' \in Docs
  <2>1. SubSeq(lines, 1, i - 1) \o SubSeq(lines, i + 1, Len(lines)) \in Seq(EntrySet)
    BY <1>1, <1>3, CutLine
  <2> QED BY <1>2, <1>13, <2>1
<1> QED BY <1>3, <1>6, <1>7, <1>8, <1>9, <1>11, <1>12, <1>13 DEF VpLists

LEMMA NativeTyped ==
  ASSUME doc \in Docs, NativeChanges  PROVE doc' \in Docs
<1> DEFINE lines == doc.native.checks
<1>1. lines \in Seq(ResultSet) /\ doc.native \in Natives
  BY DEF Docs, Natives
<1>2. ASSUME NEW l \in Seq(ResultSet), doc' = [doc EXCEPT !.native.checks = l]
      PROVE  doc' \in Docs
  BY <1>2 DEF Docs, Natives
<1>3. CASE \E a \in Conditions : doc' = [doc EXCEPT !.native.art = a]
  BY <1>3 DEF Docs, Natives
<1>4. CASE doc' = [doc EXCEPT !.native.bound = FALSE]
  BY <1>4 DEF Docs, Natives
<1>5. ASSUME NEW i \in DOMAIN lines,
             \/ doc' = [doc EXCEPT !.native.checks[i].status = "FAIL"]
             \/ doc' = [doc EXCEPT !.native.checks = Append(@, [@[i] EXCEPT !.status = "FAIL"])]
             \/ doc' = [doc EXCEPT !.native.checks = SubSeq(@, 1, i - 1) \o SubSeq(@, i + 1, Len(@))]
      PROVE  doc' \in Docs
  <2> DEFINE red == [lines[i] EXCEPT !.status = "FAIL"]
  <2>0. lines[i] \in ResultSet
    BY <1>1
  <2>1. red \in ResultSet
    BY <2>0 DEF ResultSet
  <2>2. [lines EXCEPT ![i] = red] \in Seq(ResultSet)
    <3>1. i \in 1 .. Len(lines)
      BY <1>1
    <3> HIDE DEF red, lines
    <3> QED BY <1>1, <2>1, <3>1, ExceptSeq
  <2>3. Append(lines, red) \in Seq(ResultSet)
    BY <1>1, <2>1, AppendProperties
  <2>4. SubSeq(lines, 1, i - 1) \o SubSeq(lines, i + 1, Len(lines)) \in Seq(ResultSet)
    BY <1>1, <1>5, CutLine
  <2>5. CASE doc' = [doc EXCEPT !.native.checks[i].status = "FAIL"]
    <3>1. doc' = [doc EXCEPT !.native.checks = [lines EXCEPT ![i] = red]]
      BY <2>5
    <3> QED BY <1>2, <2>2, <3>1
  <2>6. CASE doc' = [doc EXCEPT !.native.checks = Append(@, [@[i] EXCEPT !.status = "FAIL"])]
    BY <1>2, <2>3, <2>6
  <2>7. CASE doc' = [doc EXCEPT !.native.checks = SubSeq(@, 1, i - 1) \o SubSeq(@, i + 1, Len(@))]
    BY <1>2, <2>4, <2>7
  <2> QED BY <1>5, <2>5, <2>6, <2>7
<1> QED BY <1>3, <1>4, <1>5 DEF NativeChanges

(* The files are of these kinds, however many defects they collect: lists    *)
(* of lines about the checks (what _load_native_results and the loader of     *)
(* the evidence accept).                                                    *)
THEOREM DocsTyped == ContractSpec => [](doc \in Docs)
<1>1. InitContract => doc \in Docs
  BY GoodIsDoc DEF InitContract
<1>2. doc \in Docs /\ [NextContract]_contractVars => (doc \in Docs)'
  <2>1. doc \in Docs /\ UNCHANGED contractVars => (doc \in Docs)'
    BY DEF contractVars
  <2>2. doc \in Docs /\ NextContract => (doc \in Docs)'
    BY ContractTyped, WorkspaceTyped, EvidenceTyped, CheckTyped, NativeTyped DEF NextContract
  <2> QED BY <2>1, <2>2
<1> QED BY <1>1, <1>2, PTL DEF ContractSpec

(* Without evidence errors every comparison came out clean.                 *)
LEMMA NoErrorMeans ==
  ASSUME NEW d, EvidenceErrors(d) = {}
  PROVE  /\ HasContract(d) /\ d.contract.file = "ok" /\ ~(~d.contract.head)
         /\ ~(~d.tip) /\ ~(~d.contract.branch) /\ ~(~d.contract.bytes)
         /\ d.evidence.file = "ok" /\ HasNative(d)
         /\ d.work.changed \subseteq Allowed(d.work)
         /\ ~(~d.evidence.tgt \/ ~d.tip)
         /\ NativeResults(d) = {} /\ EvidenceChecks(d) = {} /\ NativeAgrees(d) = {}
         /\ ExitCode(d) = {} /\ \A x \in Entries(d) : EntryErrors(x) = {}
<1>1. EvidenceErrors(d) = {}
  OBVIOUS
<1>2. LoadContract(d.contract) = {} /\ ~(~d.tip) /\ LoadEvidence(d.evidence) = {}
  BY <1>1 DEF EvidenceErrors, Err
<1>3. d.contract.file = "ok" /\ ~(~d.contract.head) /\ HasContract(d)
  BY <1>2 DEF LoadContract, HasContract, ContractHead, Err
<1>4. d.evidence.file = "ok"
  BY <1>2 DEF LoadEvidence, Err
<1>5. WorkspaceTargetErrors(d.work) = {} /\ TargetContract(d) = {} /\ ~(~d.contract.branch)
  BY <1>1, <1>2, <1>3 DEF EvidenceErrors, Err
<1>6. /\ EvidenceBinding(d) = {} /\ NativeResults(d) = {} /\ EvidenceChecks(d) = {}
      /\ NativeAgrees(d) = {} /\ ExitCode(d) = {} /\ UNION {EntryErrors(x) : x \in Entries(d)} = {}
  <2> DEFINE entries == UNION {EntryErrors(x) : x \in Entries(d)}
             read == EvidenceBinding(d) \cup NativeResults(d) \cup EvidenceChecks(d)
                     \cup NativeAgrees(d) \cup entries \cup ExitCode(d)
  <2>1. (IF d.evidence.file # "ok" THEN {} ELSE read) \subseteq EvidenceErrors(d)
    <3> DEFINE before ==
           LoadContract(d.contract) \cup Err(~d.tip, "target branch")
           \cup Err(HasContract(d) /\ ~d.contract.branch, "contract branch")
           \cup (IF d.tip THEN WorkspaceTargetErrors(d.work) \cup TargetContract(d) \cup RunnerSources(d)
                 ELSE {})
           \cup LoadEvidence(d.evidence)
    <3>1. EvidenceErrors(d) = before \cup (IF d.evidence.file # "ok" THEN {} ELSE read)
      BY Zenon DEF EvidenceErrors
    <3> HIDE DEF before, read
    <3> QED BY <3>1
  <2>2. read = {}
    BY <1>1, <1>4, <2>1
  <2> HIDE DEF entries
  <2>3. entries = {}
    BY <2>2
  <2> QED BY <2>2, <2>3 DEF entries
<1>7. d.work.changed \subseteq Allowed(d.work) /\ ~(~d.contract.bytes)
  BY <1>5 DEF WorkspaceTargetErrors, TargetContract, Err
<1>8. ~(~d.evidence.tgt \/ ~d.tip) /\ HasNative(d)
  BY <1>6 DEF EvidenceBinding, Err, HasNative
<1>9. \A x \in Entries(d) : EntryErrors(x) = {}
  BY <1>6
<1> QED BY <1>2, <1>3, <1>4, <1>5, <1>6, <1>7, <1>8, <1>9

(* An id that occurs once is found where it is.                             *)
Unique(s) ==
  /\ DOMAIN s = 1 .. Len(s) /\ Len(s) \in Nat
  /\ \A j, k \in DOMAIN s : s[j].id = s[k].id => j = k

LEMMA FirstIs ==
  ASSUME NEW s, Unique(s), NEW i \in DOMAIN s
  PROVE  First(s, s[i].id) = s[i]
<1>1. \A j \in 1 .. (i - 1) : s[j].id # s[i].id
  BY DEF Unique
<1>2. \A j \in DOMAIN s : s[j].id = s[i].id => j = i
  BY DEF Unique
<1> QED BY <1>1, <1>2 DEF First

(* Without evidence errors the two lists of results say the same of each      *)
(* check, once, and the exit code says it too.                               *)
LEMMA ListsAgree ==
  ASSUME doc \in Docs, EvidenceErrors(doc) = {},
         NEW e, e = doc.evidence.checks, NEW n, n = doc.native.checks
  PROVE  /\ HasContract(doc) /\ Ids(e) = Checks /\ Ids(n) = Checks
         /\ \A i \in DOMAIN e : e[i].id \in Checks /\ First(e, e[i].id) = e[i]
         /\ \A i \in DOMAIN n : n[i].id \in Checks /\ First(n, n[i].id) = n[i]
         /\ \A c \in Checks : /\ First(e, c).status \in Statuses
                              /\ First(n, c).status = First(e, c).status
                              /\ First(e, c).art = "ok" /\ Seen(First(e, c).vps) = Viewports
                              /\ First(e, c) \in Entries(doc)
         /\ (doc.evidence.exit = 0) <=> \A c \in Checks : First(e, c).status = "PASS"
<1>1. e \in Seq(EntrySet) /\ n \in Seq(ResultSet)
  BY DEF Docs, Evidences, Natives
<1>2. /\ DOMAIN e = 1 .. Len(e) /\ Len(e) \in Nat
      /\ DOMAIN n = 1 .. Len(n) /\ Len(n) \in Nat
  BY <1>1
<1>3. /\ HasContract(doc) /\ HasNative(doc)
      /\ NativeResults(doc) = {} /\ EvidenceChecks(doc) = {} /\ NativeAgrees(doc) = {}
      /\ ExitCode(doc) = {} /\ \A x \in Entries(doc) : EntryErrors(x) = {}
  BY NoErrorMeans
<1>4. /\ ~ \E i, j \in DOMAIN e : i # j /\ e[i].id = e[j].id
      /\ Ids(e) = Checks
  BY <1>3 DEF EvidenceChecks, Err
<1>5. ~ \E i, j \in DOMAIN n : i # j /\ n[i].id = n[j].id
  BY <1>3 DEF NativeResults, Err
<1>6. Ids(e) = Ids(n) /\ \A c \in Ids(e) \cap Ids(n) : First(e, c).status = First(n, c).status
  BY <1>3 DEF NativeAgrees, Err
<1>7. \A i \in DOMAIN e : e[i].id \in Checks /\ First(e, e[i].id) = e[i]
  <2>1. ASSUME NEW i \in DOMAIN e  PROVE First(e, e[i].id) = e[i]
    <3>1. Unique(e)
      BY <1>2, <1>4 DEF Unique
    <3> QED BY <3>1, FirstIs
  <2> QED BY <1>4, <2>1 DEF Ids
<1>8. \A i \in DOMAIN n : n[i].id \in Checks /\ First(n, n[i].id) = n[i]
  <2>1. ASSUME NEW i \in DOMAIN n  PROVE First(n, n[i].id) = n[i]
    <3>1. Unique(n)
      BY <1>2, <1>5 DEF Unique
    <3> QED BY <3>1, FirstIs
  <2> QED BY <1>4, <1>6, <2>1 DEF Ids
<1>9. ASSUME NEW c \in Checks
      PROVE  /\ First(e, c).status \in Statuses
             /\ First(n, c).status = First(e, c).status
             /\ First(e, c).art = "ok" /\ Seen(First(e, c).vps) = Viewports
             /\ First(e, c) \in Entries(doc)
  <2>1. First(e, c) \in Entries(doc)
    BY <1>3, <1>4 DEF Entries
  <2>2. EntryErrors(First(e, c)) = {}
    BY <1>3, <2>1
  <2>3. /\ First(e, c).status \in Statuses
        /\ First(e, c).art = "ok" /\ Seen(First(e, c).vps) = Viewports
    BY <2>2 DEF EntryErrors, Err, ValidArtifact
  <2>4. First(n, c).status = First(e, c).status
    BY <1>4, <1>6
  <2> QED BY <2>1, <2>3, <2>4
<1>10. (doc.evidence.exit = 0) <=> \A c \in Checks : First(e, c).status = "PASS"
  <2> DEFINE green == \A c \in Checks : First(e, c).status = "PASS"
  <2>1. \A c \in Checks : First(e, c).status \in Statuses /\ First(n, c).status = First(e, c).status
    BY <1>9
  <2>2. Ids(n) = Checks
    BY <1>4, <1>6
  <2>3. Err((doc.evidence.exit = 0) # green, "exit code") = {}
    BY <1>3, <1>4, <2>1, <2>2 DEF ExitCode, Err
  <2>4. green \in BOOLEAN /\ (doc.evidence.exit = 0) \in BOOLEAN
    OBVIOUS
  <2> HIDE DEF green
  <2>5. (doc.evidence.exit = 0) = green
    BY <2>3 DEF Err
  <2>6. (doc.evidence.exit = 0) <=> green
    BY <2>4, <2>5
  <2> QED BY <2>6 DEF green
<1> QED BY <1>3, <1>4, <1>6, <1>7, <1>8, <1>9, <1>10

(* Files that pass are green in every raw line.                             *)
LEMMA PassedIsGreen ==
  ASSUME doc \in Docs, Passed(doc)
  PROVE  GreenMeansGreen
<1> DEFINE e == doc.evidence.checks
           n == doc.native.checks
<1>1. EvidenceErrors(doc) = {} /\ Failures(doc) = {}
  BY DEF Passed
<1>2. /\ doc.contract.file = "ok" /\ ~(~doc.contract.head) /\ ~(~doc.tip)
      /\ ~(~doc.contract.branch) /\ ~(~doc.contract.bytes) /\ doc.evidence.file = "ok"
      /\ doc.work.changed \subseteq Allowed(doc.work) /\ ~(~doc.evidence.tgt \/ ~doc.tip)
  BY <1>1, NoErrorMeans
<1>3. /\ HasContract(doc) /\ Ids(e) = Checks
      /\ \A i \in DOMAIN e : e[i].id \in Checks /\ First(e, e[i].id) = e[i]
      /\ \A i \in DOMAIN n : n[i].id \in Checks /\ First(n, n[i].id) = n[i]
      /\ \A c \in Checks : /\ First(e, c).status \in Statuses
                           /\ First(n, c).status = First(e, c).status
                           /\ First(e, c).art = "ok" /\ Seen(First(e, c).vps) = Viewports
                           /\ First(e, c) \in Entries(doc)
      /\ (doc.evidence.exit = 0) <=> \A c \in Checks : First(e, c).status = "PASS"
  BY <1>1, ListsAgree
<1>4. /\ \A y \in Entries(doc) : y.status # "FAIL"
      /\ Impls \subseteq doc.merged
  <2> DEFINE red == {x.id : x \in {y \in Entries(doc) : y.status = "FAIL"}}
  <2>1. red = {} /\ Impls \subseteq doc.merged
    BY <1>1, <1>2, <1>3 DEF Failures, Ancestry
  <2> QED BY <2>1
<1>5. \A c \in Checks : First(e, c).status = "PASS"
  BY <1>3, <1>4 DEF Statuses
<1>6. "code" \notin doc.work.changed
  BY <1>2 DEF Allowed
<1>7. doc.merged = Impls
  BY <1>4 DEF Docs
<1>8. TargetIdentityOK(doc)
  BY <1>2 DEF TargetIdentityOK
<1>9. \A c \in Checks : \E i \in DOMAIN e : e[i].id = c
  BY <1>3 DEF Ids
<1> HIDE DEF e, n
<1>10. \A i \in DOMAIN e : /\ e[i].id \in Checks /\ e[i].status = "PASS" /\ e[i].art = "ok"
                           /\ Seen(e[i].vps) = Viewports
  BY <1>3, <1>5
<1>11. \A i \in DOMAIN n : n[i].status = "PASS"
  BY <1>3, <1>5
<1>12. doc.evidence.exit = 0
  BY <1>3, <1>5
<1> QED BY <1>2, <1>6, <1>7, <1>8, <1>9, <1>10, <1>11, <1>12 DEF GreenMeansGreen, e, n

(* A red check that nothing contradicts is red for the runner and in its     *)
(* exit code.                                                               *)
LEMMA RedIsReal ==
  ASSUME doc \in Docs  PROVE  RepairsAreReal
<1> DEFINE e == doc.evidence.checks
           n == doc.native.checks
<1> SUFFICES ASSUME EvidenceErrors(doc) = {}, NEW c \in Failures(doc) \cap Checks
             PROVE  /\ \A i \in DOMAIN n : n[i].id = c => n[i].status = "FAIL"
                    /\ doc.evidence.exit # 0
  BY DEF RepairsAreReal
<1>1. /\ Ids(e) = Checks
      /\ \A i \in DOMAIN e : e[i].id \in Checks /\ First(e, e[i].id) = e[i]
      /\ \A i \in DOMAIN n : n[i].id \in Checks /\ First(n, n[i].id) = n[i]
      /\ \A k \in Checks : First(n, k).status = First(e, k).status
      /\ (doc.evidence.exit = 0) <=> \A k \in Checks : First(e, k).status = "PASS"
  BY ListsAgree
<1>2. First(e, c).status = "FAIL"
  <2>1. c \notin RuntimeFailures(doc.evidence) /\ c \notin Ancestry(doc)
    BY ContractAssumption DEF RuntimeFailures, Ancestry, Err
  <2>2. PICK x \in Entries(doc) : x.status = "FAIL" /\ x.id = c
    BY <2>1 DEF Failures
  <2>3. PICK k \in Ids(e) \cap Checks : x = First(e, k)
    BY <2>2 DEF Entries
  <2>4. PICK i \in DOMAIN e : e[i].id = k
    BY <2>3 DEF Ids
  <2>5. x = e[i] /\ k = c
    BY <1>1, <2>2, <2>3, <2>4
  <2> QED BY <2>2, <2>3, <2>5
<1> HIDE DEF e, n
<1>3. \A i \in DOMAIN n : n[i].id = c => n[i].status = "FAIL"
  BY <1>1, <1>2
<1>4. doc.evidence.exit # 0
  BY <1>1, <1>2
<1> QED BY <1>3, <1>4 DEF n

(* A validation without errors and failures (validate_release_contract) means *)
(* that every line of the evidence and of the runner's results is green.     *)
THEOREM GreenIsGreen == ContractSpec => []GreenMeansGreen
<1>1. doc \in Docs => GreenMeansGreen
  BY PassedIsGreen DEF GreenMeansGreen
<1> QED BY <1>1, DocsTyped, PTL

(* A repair ticket is opened for a check only when the runner's line and its   *)
(* exit code are red too (contracts.py:1430).                                *)
THEOREM RepairsFollowRed == ContractSpec => []RepairsAreReal
<1>1. doc \in Docs => RepairsAreReal
  BY RedIsReal
<1> QED BY <1>1, DocsTyped, PTL

-----------------------------------------------------------------------------
(* The delivery of a ticket's work.                                        *)
Versions == [Paths -> 0..edits]

\* Commits refer to earlier ones, and to all that those refer to.
LogTyped ==
  /\ log \in Seq([tree : Versions, anc : SUBSET Nat]) /\ log # <<>>
  /\ \A c \in 1..Len(log) :
       /\ Anc(c) \subseteq 1..c /\ c \in Anc(c) /\ 1 \in Anc(c)
       /\ \A d \in Anc(c) : Anc(d) \subseteq Anc(c)
Commits == 1..Len(log)

Busy == {"running", "planned", "confirmed", "history", "remove", "startup", "reap"}
Locked == {"apply", "commit", "publish"}
TicketSet == [state : {"Todo", "Done", "Cancelled", "Blocked", "Human Review"}, paused : BOOLEAN,
              at : {"idle", "merge"} \cup Busy, plan : Commits \cup {0},
              live : BOOLEAN, late : SUBSET Paths, kept : Versions, stray : BOOLEAN]
ScriptSet == [pc : {"off", "preflight", "capture", "lock", "sync"} \cup Locked,
              by : {"exit", "web"}, old : Commits \cup {0}, snap : Versions,
              mine : SUBSET Paths, tree : Versions]
WorkspaceSet == [there : BOOLEAN, tree : Versions, base : Commits \cup {0}]

DeliveryTyped ==
  /\ edits \in Nat /\ failures \in Nat /\ policy \in Policies
  /\ target \in Commits /\ branch \in [Tickets -> Commits \cup {0}]
  /\ host \in [tree : Versions, index : Versions]
  /\ mergeHead \in Commits \cup {0, -1}
  /\ ws \in [Tickets -> WorkspaceSet] /\ tk \in [Tickets -> TicketSet]
  /\ sc \in [Tickets -> ScriptSet] /\ wrote \in [Tickets -> Versions]

\* Version v of path p is in the target's history; it is below commit b.
InTarget(v, p) == v = 0 \/ \E c \in Anc(target) : Tree(c)[p] = v
Below(b, v, p) == b # 0 /\ \E c \in Anc(b) : Tree(c)[p] = v
Delivered(b, r) == \A p \in Paths \ Excluded : Below(b, r[p], p) => InTarget(r[p], p)

\* What a ticket k and its script s say of one another.
CardFits(k, s) ==
  /\ k.at \in Busy => s.pc = "off"
  /\ s.pc # "off" => s.by = IF k.at = "merge" THEN "exit" ELSE "web"
  /\ k.at = "reap" => k.state = "Cancelled"
  /\ k.at \in {"history", "merge"} => k.state = "Done"
  /\ k.at = "remove" => k.state \in {"Done", "Cancelled"}
  /\ k.live \/ k.late # {} => k.at \in {"idle", "merge", "remove"}

\* What a branch at b, a workspace wt, a ticket k and its script s say of the
\* versions r its agent wrote last.
Stages(b, wt, k, s) ==
  /\ CardFits(k, s)
  /\ wt.there => b # 0 /\ wt.base # 0 /\ wt.base \in Anc(b)
  /\ k.at # "idle" => wt.there
  /\ s.pc \notin {"off", "preflight"} => b # 0
  /\ k.at = "planned" => k.plan # 0
  /\ k.late # {} /\ ~wt.there => k.state \in {"Done", "Cancelled"}
  /\ k.at = "confirmed" => k.plan \in Anc(target) /\ wt.tree = Tree(b)

\* A version that is below the branch is its tip's, or delivered; so is one
\* that is below the fork point.
TipHas(b, r) ==
  \A p \in Paths \ Excluded : Below(b, r[p], p) => Tree(b)[p] = r[p] \/ InTarget(r[p], p)
TreeHas(b, wt, r) ==
  wt.there => \A p \in Paths \ Excluded :
    Below(b, r[p], p) => wt.tree[p] = r[p] \/ InTarget(r[p], p)

\* Where the last version is, if workspaces are preserved and snapshots taken;
\* of a path that a cancelled agent has written late, the version before that.
Preserved(b, wt, k, r) ==
  policy.reuse = "preserve" /\ policy.commit => \A p \in Paths \ Excluded :
    /\ wt.there => wt.tree[p] = r[p] \/ InTarget(r[p], p)
    /\ (~wt.there \/ k.at \in {"history", "merge", "remove"}) /\ p \notin k.late =>
         (b # 0 /\ Tree(b)[p] = r[p]) \/ InTarget(r[p], p)
    /\ p \in k.late => (b # 0 /\ Tree(b)[p] = k.kept[p]) \/ InTarget(k.kept[p], p)

\* A merge that has succeeded, and a card that stays Done, if no cancelled agent
\* has committed since the merge read the branch.
Merges(b, wt, k, s, r) ==
  \/ k.stray
  \/ /\ s.pc \in {"publish", "sync"} => Delivered(b, r)
     /\ k.state = "Done" /\ (k.at = "remove" \/ (k.at = "idle" /\ ~wt.there)) => Delivered(b, r)

Traced(b, wt, k, s, r) ==
  /\ Stages(b, wt, k, s) /\ TipHas(b, r) /\ TreeHas(b, wt, r)
  /\ wt.there => TipHas(wt.base, r)
  /\ Preserved(b, wt, k, r) /\ Merges(b, wt, k, s, r)

\* What one ticket has of another's versions came from the target.
Apart(b, wt, r) ==
  \A p \in Paths :
    /\ Below(b, r[p], p) => InTarget(r[p], p)
    /\ wt.there /\ wt.tree[p] = r[p] => InTarget(r[p], p)

\* Who merges has the index lock; what is merged is the ticket's branch, as it
\* was when the merge read it.
Locks ==
  \A t \in Tickets :
    /\ sc[t].pc \in Locked => lock = t
    /\ sc[t].pc = "commit" => mergeHead \in Commits /\ (tk[t].stray \/ mergeHead = branch[t])

DeliveryInv ==
  /\ LogTyped /\ DeliveryTyped /\ Locks
  /\ \A t \in Tickets : Traced(branch[t], ws[t], tk[t], sc[t], wrote[t])
  /\ \A t, u \in Tickets : t # u => Apart(branch[u], ws[u], wrote[t])
-----------------------------------------------------------------------------
(* Lemmas about the history.                                               *)

(* A set of natural numbers has a least element.                           *)
LEMMA LeastExists ==
  ASSUME NEW T \in SUBSET Nat, T # {}
  PROVE  \E x \in T : \A y \in T : x <= y
<1>1. PICK x \in T : \A y \in T : ~ (<<y, x>> \in OpToRel(<, Nat))
  BY NatLessThanWellFounded, WFMin
<1>2. ASSUME NEW y \in T PROVE x <= y
  <2>1. ~(y < x)
    BY <1>1 DEF OpToRel
  <2> QED BY <2>1
<1> QED BY <1>2

(* A bounded one has a greatest: it is as far from the bound as the least  *)
(* of the distances.                                                       *)
LEMMA MaxOf ==
  ASSUME NEW n \in Nat, NEW S \in SUBSET (1..n), S # {}
  PROVE  Max(S) \in S
<1> DEFINE T == {n - x : x \in S}
<1>1. T \in SUBSET Nat /\ T # {}
  <2>1. \A x \in S : x \in Int /\ n - x \in Nat
    OBVIOUS
  <2>2. PICK x \in S : TRUE
    OBVIOUS
  <2> QED BY <2>1, <2>2
<1>2. PICK m \in T : \A y \in T : m <= y
  <2> HIDE DEF T
  <2> QED BY <1>1, LeastExists
<1>3. PICK x \in S : m = n - x
  BY <1>2
<1>4. \A y \in S : x >= y
  <2> TAKE y \in S
  <2>1. n - y \in T
    OBVIOUS
  <2>2. m <= n - y
    BY <1>2, <2>1
  <2>3. x \in 1..n /\ y \in 1..n
    BY Zenon
  <2>4. x \in Int /\ y \in Int /\ n \in Int
    BY <2>3
  <2> QED BY <1>3, <2>2, <2>4
<1> QED BY <1>4 DEF Max

LEMMA LogFacts ==
  ASSUME LogTyped
  PROVE  /\ Len(log) \in Nat /\ 1 \in Commits /\ Commits \subseteq Nat
         /\ \A c \in Commits :
              /\ log[c] \in [tree : Versions, anc : SUBSET Nat] /\ Tree(c) \in Versions
              /\ Anc(c) \subseteq Commits /\ c \in Anc(c) /\ 1 \in Anc(c)
              /\ \A d \in Anc(c) : Anc(d) \subseteq Anc(c)
<1>1. Len(log) \in Nat /\ Len(log) >= 1
  BY DEF LogTyped
<1>2. \A c \in Commits : log[c] \in [tree : Versions, anc : SUBSET Nat]
  <2> DEFINE R == [tree : Versions, anc : SUBSET Nat]
  <2>1. log \in Seq(R)
    BY DEF LogTyped
  <2> HIDE DEF R
  <2>2. \A c \in 1..Len(log) : log[c] \in R
    BY <2>1, ElementOfSeq
  <2> QED BY <2>2 DEF R, Commits
<1>3. \A c \in Commits : 1..c \subseteq Commits
  BY <1>1 DEF Commits
<1> QED BY <1>1, <1>2, <1>3 DEF LogTyped, Commits, Tree, Anc

(* The merge base is an ancestor of both.                                  *)
LEMMA BaseFacts ==
  ASSUME LogTyped, NEW a \in Commits, NEW b \in Commits
  PROVE  MergeBase(a, b) \in Anc(a) /\ MergeBase(a, b) \in Anc(b) /\ MergeBase(a, b) \in Commits
<1>1. Anc(a) \cap Anc(b) \in SUBSET (1..Len(log)) /\ Anc(a) \cap Anc(b) # {} /\ Len(log) \in Nat
  BY LogFacts DEF Commits
<1>2. MergeBase(a, b) \in Anc(a) \cap Anc(b)
  BY <1>1, MaxOf DEF MergeBase
<1> QED BY <1>1, <1>2 DEF Commits

\* The history grows: old commits are as they were, and the target moves up.
Grows ==
  /\ LogTyped' /\ edits \in Nat /\ edits' \in Nat /\ edits <= edits' /\ policy' = policy
  /\ Commits \subseteq Commits'
  /\ \A c \in Commits : log'[c] = log[c]
  /\ target' \in Commits' /\ Anc(target) \subseteq log'[target'].anc

(* A commit is added to the log.                                           *)
LEMMA CommitFacts ==
  ASSUME LogTyped, NEW tree \in Versions, NEW P \in SUBSET Commits, P # {},
         log' = Commit(tree, P), edits' = edits
  PROVE  /\ LogTyped' /\ Commits' = Commits \cup {NextCommit}
         /\ \A c \in Commits : log'[c] = log[c]
         /\ log'[NextCommit].tree = tree
         /\ log'[NextCommit].anc = {NextCommit} \cup (UNION {Anc(c) : c \in P})
         /\ NextCommit \in Commits'
<1> DEFINE n == Len(log) + 1
           up == {n} \cup (UNION {Anc(c) : c \in P})
           e == [tree |-> tree, anc |-> up]
<1>1. Len(log) \in Nat /\ 1 \in Commits /\ n \in Nat /\ n >= 1
  BY LogFacts
<1>2. \A x \in up : x = n \/ \E c \in P : x \in Anc(c)
  OBVIOUS
<1>3. up \subseteq Commits \cup {n}
  BY <1>2, LogFacts
<1>4. 1 \in up
  <2>1. PICK c \in P : TRUE
    OBVIOUS
  <2>2. 1 \in Anc(c)
    BY <2>1, LogFacts
  <2> QED BY <2>2
<1>5. log' = Append(log, e)
  BY DEF Commit
<1> HIDE DEF up
<1>6. e \in [tree : Versions, anc : SUBSET Nat] /\ n = NextCommit
  BY <1>1, <1>3, LogFacts DEF NextCommit
<1>7. log \in Seq([tree : Versions, anc : SUBSET Nat])
  BY DEF LogTyped
<1> HIDE DEF e
<1>8. /\ log' \in Seq([tree : Versions, anc : SUBSET Nat]) /\ Len(log') = n
      /\ \A c \in 1..Len(log) : log'[c] = log[c]
      /\ log'[n] = e /\ log' # <<>>
  BY <1>1, <1>5, <1>6, <1>7
<1>9. Commits' = Commits \cup {n}
  BY <1>1, <1>8 DEF Commits
<1>10. Versions' = Versions
  BY DEF Versions
<1>11. e.tree = tree /\ e.anc = up
  BY DEF e
<1>12. ASSUME NEW c \in Commits'
       PROVE  /\ log'[c].anc \subseteq 1..c /\ c \in log'[c].anc /\ 1 \in log'[c].anc
              /\ \A d \in log'[c].anc : log'[d].anc \subseteq log'[c].anc
  <2>1. CASE c \in Commits
    <3>1. log'[c] = log[c] /\ Anc(c) \subseteq 1..c
      BY <1>8, <2>1 DEF Commits, LogTyped
    <3>2. \A d \in Anc(c) : log'[d] = log[d]
      BY <1>8, <2>1, LogFacts DEF Commits
    <3> QED BY <2>1, <3>1, <3>2, LogFacts DEF Anc
  <2>2. CASE c = n
    <3>1. log'[c].anc = up
      BY <1>8, <1>11, <2>2
    <3>2. up \subseteq 1..n /\ n \in up
      BY <1>1, <1>3 DEF Commits, up
    <3>3. ASSUME NEW d \in up PROVE log'[d].anc \subseteq up
      <4>1. CASE d = n
        BY <3>1, <4>1, <2>2
      <4>2. CASE d # n
        <5>1. PICK x \in P : d \in Anc(x)
          BY <1>2, <4>2 DEF up
        <5>2. d \in Commits /\ Anc(d) \subseteq Anc(x)
          BY <5>1, LogFacts
        <5>3. log'[d].anc = Anc(d)
          BY <1>8, <5>2 DEF Anc, Commits
        <5>4. Anc(x) \subseteq up
          BY <5>1 DEF up
        <5> QED BY <5>2, <5>3, <5>4
      <4> QED BY <4>1, <4>2
    <3> QED BY <1>4, <2>2, <3>1, <3>2, <3>3
  <2> QED BY <1>9, <2>1, <2>2
<1>13. LogTyped'
  BY <1>8, <1>9, <1>10, <1>12 DEF LogTyped, Commits, Anc
<1> QED BY <1>1, <1>6, <1>8, <1>9, <1>11, <1>13 DEF up, Commits

(* What is below a commit stays below it, what is delivered stays so.      *)
LEMMA Carries ==
  ASSUME LogTyped, target \in Commits, Grows
  PROVE  /\ \A b \in Commits : Tree(b)' = Tree(b) /\ Anc(b)' = Anc(b)
         /\ \A b \in Commits \cup {0} : \A v, p : Below(b, v, p)' <=> Below(b, v, p)
         /\ \A v, p : InTarget(v, p) => InTarget(v, p)'
         /\ \A c \in Anc(target) : c \in Anc(target)'
         /\ \A b \in Commits \cup {0} : \A r : Delivered(b, r) => Delivered(b, r)'
<1>1. \A b \in Commits : Tree(b)' = Tree(b) /\ Anc(b)' = Anc(b)
  BY DEF Grows, Tree, Anc
<1>2. \A b \in Commits : \A c \in Anc(b) : Tree(c)' = Tree(c)
  BY <1>1, LogFacts
<1>3. \A c \in Anc(target) : c \in Anc(target)'
  BY DEF Grows, Anc
<1>4. ASSUME NEW b \in Commits \cup {0}, NEW v, NEW p
      PROVE  Below(b, v, p)' <=> Below(b, v, p)
  <2>1. CASE b = 0
    BY <2>1 DEF Below
  <2>2. CASE b \in Commits
    BY <1>1, <1>2, <2>2 DEF Below
  <2> QED BY <2>1, <2>2
<1>5. ASSUME NEW v, NEW p, InTarget(v, p)
      PROVE  InTarget(v, p)'
  BY <1>2, <1>3, <1>5 DEF InTarget
<1>6. ASSUME NEW b \in Commits \cup {0}, NEW r, Delivered(b, r)
      PROVE  Delivered(b, r)'
  BY <1>4, <1>5, <1>6 DEF Delivered
<1> QED BY <1>1, <1>3, <1>4, <1>5, <1>6

LEMMA SoundCarries ==
  ASSUME LogTyped, target \in Commits, Grows, NEW b \in Commits \cup {0}, NEW wt \in WorkspaceSet,
         NEW k, NEW s, NEW r, Traced(b, wt, k, s, r)
  PROVE  Traced(b, wt, k, s, r)'
<1>1. wt.base \in Commits \cup {0}
  BY DEF WorkspaceSet
<1>2. Stages(b, wt, k, s) /\ TipHas(b, r) /\ TreeHas(b, wt, r) /\ (wt.there => TipHas(wt.base, r))
      /\ Preserved(b, wt, k, r) /\ Merges(b, wt, k, s, r)
  BY DEF Traced
<1>3. ASSUME NEW c \in Commits \cup {0}, TipHas(c, r) PROVE TipHas(c, r)'
  <2> SUFFICES ASSUME NEW p \in Paths \ Excluded, Below(c, r[p], p)'
               PROVE  Tree(c)'[p] = r[p] \/ InTarget(r[p], p)'
    BY DEF TipHas
  <2>1. c \in Commits
    BY DEF Below
  <2>3. Below(c, r[p], p)
    BY <2>1, Carries
  <2>2. Tree(c)[p] = r[p] \/ InTarget(r[p], p)
    BY <1>3, <2>3 DEF TipHas
  <2> QED BY <2>1, <2>2, Carries
<1>4. Stages(b, wt, k, s)'
  BY <1>2, Carries DEF Stages, CardFits
<1>5. TreeHas(b, wt, r)'
  BY <1>2, Carries DEF TreeHas
<1>6. Preserved(b, wt, k, r)'
  <2> SUFFICES ASSUME policy.reuse = "preserve" /\ policy.commit, NEW p \in Paths \ Excluded
               PROVE  /\ wt.there => wt.tree[p] = r[p] \/ InTarget(r[p], p)'
                      /\ (~wt.there \/ k.at \in {"history", "merge", "remove"}) /\ p \notin k.late =>
                           (b # 0 /\ Tree(b)'[p] = r[p]) \/ InTarget(r[p], p)'
                      /\ p \in k.late =>
                           (b # 0 /\ Tree(b)'[p] = k.kept[p]) \/ InTarget(k.kept[p], p)'
    BY DEF Preserved, Grows
  <2>1. /\ wt.there => wt.tree[p] = r[p] \/ InTarget(r[p], p)
        /\ (~wt.there \/ k.at \in {"history", "merge", "remove"}) /\ p \notin k.late =>
             (b # 0 /\ Tree(b)[p] = r[p]) \/ InTarget(r[p], p)
        /\ p \in k.late => (b # 0 /\ Tree(b)[p] = k.kept[p]) \/ InTarget(k.kept[p], p)
    BY <1>2 DEF Preserved
  <2>2. b # 0 => Tree(b)' = Tree(b)
    BY Carries
  <2>3. /\ InTarget(r[p], p) => InTarget(r[p], p)'
        /\ InTarget(k.kept[p], p) => InTarget(k.kept[p], p)'
    BY Carries
  <2> QED BY <2>1, <2>2, <2>3
<1>7. Merges(b, wt, k, s, r)'
  BY <1>2, Carries DEF Merges
<1> QED BY <1>1, <1>2, <1>3, <1>4, <1>5, <1>6, <1>7 DEF Traced

LEMMA ApartCarries ==
  ASSUME LogTyped, target \in Commits, Grows, NEW b \in Commits \cup {0}, NEW wt,
         NEW r, Apart(b, wt, r)
  PROVE  Apart(b, wt, r)'
BY Carries DEF Apart

(* Bounds that only grow.                                                  *)
LEMMA SetsGrow ==
  ASSUME Grows
  PROVE  /\ Versions \subseteq Versions' /\ WorkspaceSet \subseteq WorkspaceSet'
         /\ TicketSet \subseteq TicketSet' /\ ScriptSet \subseteq ScriptSet'
<1>1. 0..edits \subseteq 0..edits'
  BY DEF Grows
<1>2. Versions \subseteq Versions'
  BY <1>1 DEF Versions
<1>3. Commits \cup {0} \subseteq Commits' \cup {0}
  BY DEF Grows
<1>4. WorkspaceSet \subseteq WorkspaceSet'
  BY <1>2, <1>3 DEF WorkspaceSet
<1>5. TicketSet \subseteq TicketSet'
  BY <1>2, <1>3 DEF TicketSet
<1>6. ScriptSet \subseteq ScriptSet'
  BY <1>2, <1>3 DEF ScriptSet
<1> QED BY <1>2, <1>4, <1>5, <1>6

(* A step of one ticket keeps the invariant if it keeps that ticket's part *)
(* of it, and the locks.                                                   *)
LEMMA Step ==
  ASSUME DeliveryInv, Grows, NEW t \in Tickets, NEW b, NEW wt, NEW k, NEW s, NEW r,
         b \in Commits' \cup {0}, wt \in WorkspaceSet', k \in TicketSet', s \in ScriptSet',
         r \in Versions',
         branch' = [branch EXCEPT ![t] = b], ws' = [ws EXCEPT ![t] = wt],
         tk' = [tk EXCEPT ![t] = k], sc' = [sc EXCEPT ![t] = s],
         wrote' = [wrote EXCEPT ![t] = r],
         failures' \in Nat, host' \in [tree : Versions, index : Versions]',
         mergeHead' \in Commits' \cup {0, -1}, Locks',
         Traced(b, wt, k, s, r)',
         \A u \in Tickets \ {t} : Apart(b, wt, wrote[u])' /\ Apart(branch[u], ws[u], r)'
  PROVE  DeliveryInv'
<1>1. LogTyped /\ DeliveryTyped /\ target \in Commits
  BY DEF DeliveryInv, DeliveryTyped
<1>2. /\ branch \in [Tickets -> Commits \cup {0}] /\ ws \in [Tickets -> WorkspaceSet]
      /\ tk \in [Tickets -> TicketSet] /\ sc \in [Tickets -> ScriptSet]
      /\ wrote \in [Tickets -> Versions] /\ policy \in Policies
  BY <1>1 DEF DeliveryTyped
<1>3. /\ branch'[t] = b /\ ws'[t] = wt /\ tk'[t] = k /\ sc'[t] = s /\ wrote'[t] = r
      /\ \A u \in Tickets \ {t} : /\ branch'[u] = branch[u] /\ ws'[u] = ws[u] /\ tk'[u] = tk[u]
                                  /\ sc'[u] = sc[u] /\ wrote'[u] = wrote[u]
  BY <1>2
<1>4. branch' \in [Tickets -> Commits' \cup {0}]
  BY <1>2 DEF Grows
<1>5. ws' \in [Tickets -> WorkspaceSet'] /\ wrote' \in [Tickets -> Versions']
  BY <1>2, SetsGrow
<1>6. tk' \in [Tickets -> TicketSet'] /\ sc' \in [Tickets -> ScriptSet']
  BY <1>2, SetsGrow
<1>7. DeliveryTyped'
  BY <1>2, <1>4, <1>5, <1>6 DEF DeliveryTyped, Grows
<1>8. ASSUME NEW u \in Tickets \ {t}
      PROVE  Traced(branch[u], ws[u], tk[u], sc[u], wrote[u])'
  <2>1. Traced(branch[u], ws[u], tk[u], sc[u], wrote[u])
    BY DEF DeliveryInv
  <2>2. branch[u] \in Commits \cup {0} /\ ws[u] \in WorkspaceSet
    BY <1>2
  <2>3. ASSUME NEW bb \in Commits \cup {0}, NEW ww \in WorkspaceSet, NEW kk, NEW ss, NEW rr, Traced(bb, ww, kk, ss, rr)
        PROVE  Traced(bb, ww, kk, ss, rr)'
    BY <1>1, <2>3, SoundCarries
  <2> QED BY <1>3, <2>1, <2>2, <2>3
<1>9. ASSUME NEW x \in Tickets, NEW y \in Tickets, x # y
      PROVE  Apart(branch[y], ws[y], wrote[x])'
  <2>1. CASE y = t
    BY <1>3, <1>9, <2>1
  <2>2. CASE x = t
    BY <1>3, <1>9, <2>2
  <2>3. CASE x # t /\ y # t
    <3>1. Apart(branch[y], ws[y], wrote[x]) /\ branch[y] \in Commits \cup {0}
      BY <1>2, <1>9 DEF DeliveryInv
    <3>2. ASSUME NEW bb \in Commits \cup {0}, NEW ww, NEW rr, Apart(bb, ww, rr)
          PROVE  Apart(bb, ww, rr)'
      BY <1>1, <3>2, ApartCarries
    <3> QED BY <1>3, <2>3, <3>1, <3>2
  <2> QED BY <2>1, <2>2, <2>3
<1>10. ASSUME NEW u \in Tickets PROVE Traced(branch[u], ws[u], tk[u], sc[u], wrote[u])'
  BY <1>3, <1>8
<1>11. LogTyped' /\ Locks'
  BY DEF Grows
<1> QED BY <1>7, <1>9, <1>10, <1>11 DEF DeliveryInv

(* A step that adds no commit and no version.                              *)
LEMMA QuietStep ==
  ASSUME DeliveryInv, UNCHANGED <<log, target, policy, edits, wrote>>, NEW t \in Tickets,
         NEW b \in Commits \cup {0}, NEW wt \in WorkspaceSet, NEW k \in TicketSet,
         NEW s \in ScriptSet,
         branch' = [branch EXCEPT ![t] = b], ws' = [ws EXCEPT ![t] = wt],
         tk' = [tk EXCEPT ![t] = k], sc' = [sc EXCEPT ![t] = s],
         failures' \in Nat, host' \in [tree : Versions, index : Versions],
         mergeHead' \in Commits \cup {0, -1}, Locks',
         Traced(b, wt, k, s, wrote[t]), \A u \in Tickets \ {t} : Apart(b, wt, wrote[u])
  PROVE  DeliveryInv'
<1>1. LogTyped /\ DeliveryTyped /\ target \in Commits
  BY DEF DeliveryInv, DeliveryTyped
<1>2. Versions' = Versions /\ Commits' = Commits
  BY DEF Versions, Commits
<1>3. Grows
  <2>1. LogTyped'
    BY <1>1, <1>2 DEF LogTyped, Anc
  <2>2. edits \in Nat
    BY <1>1 DEF DeliveryTyped
  <2> QED BY <1>1, <1>2, <2>1, <2>2 DEF Grows, Anc
<1>4. /\ WorkspaceSet' = WorkspaceSet /\ TicketSet' = TicketSet /\ ScriptSet' = ScriptSet
  BY <1>2 DEF WorkspaceSet, TicketSet, ScriptSet
<1>5. wrote[t] \in Versions /\ wrote' = [wrote EXCEPT ![t] = wrote[t]]
  BY <1>1 DEF DeliveryTyped
<1>6. ASSUME NEW r, Traced(b, wt, k, s, r) PROVE Traced(b, wt, k, s, r)'
  BY <1>1, <1>3, <1>6, SoundCarries
<1>7. ASSUME NEW bb \in Commits \cup {0}, NEW ww, NEW r, Apart(bb, ww, r) PROVE Apart(bb, ww, r)'
  BY <1>1, <1>3, <1>7, ApartCarries
<1> DEFINE r == wrote[t]
<1>8. Traced(b, wt, k, s, r)'
  BY <1>6
<1>9. ASSUME NEW u \in Tickets \ {t}
      PROVE  Apart(b, wt, wrote[u])' /\ Apart(branch[u], ws[u], r)'
  <2>1. branch[u] \in Commits \cup {0} /\ Apart(branch[u], ws[u], r)
    BY <1>1 DEF DeliveryTyped, DeliveryInv
  <2>2. branch'[u] = branch[u] /\ ws'[u] = ws[u] /\ wrote'[u] = wrote[u] /\ wrote'[t] = wrote[t]
    BY <1>1 DEF DeliveryTyped
  <2> QED BY <1>7, <2>1, <2>2
<1> DEFINE old == wrote[t]
<1>10. PICK v : v = wrote[t]
  OBVIOUS
<1>11. v \in Versions' /\ wrote' = [wrote EXCEPT ![t] = v] /\ Traced(b, wt, k, s, v)'
       /\ \A u \in Tickets \ {t} : Apart(b, wt, wrote[u])' /\ Apart(branch[u], ws[u], v)'
  BY <1>2, <1>5, <1>6, <1>8, <1>9, <1>10
<1> HIDE DEF r
<1> QED BY <1>2, <1>3, <1>4, <1>11, Step

(* One that leaves the branch and the workspace as they are.               *)
LEMMA KeepStep ==
  ASSUME DeliveryInv, UNCHANGED <<log, target, policy, edits, wrote, branch, ws>>, NEW t \in Tickets,
         NEW k \in TicketSet, NEW s \in ScriptSet,
         tk' = [tk EXCEPT ![t] = k], sc' = [sc EXCEPT ![t] = s],
         failures' \in Nat, host' \in [tree : Versions, index : Versions],
         mergeHead' \in Commits \cup {0, -1}, Locks',
         Stages(branch[t], ws[t], k, s), Preserved(branch[t], ws[t], k, wrote[t]),
         Merges(branch[t], ws[t], k, s, wrote[t])
  PROVE  DeliveryInv'
<1>1. /\ branch[t] \in Commits \cup {0} /\ ws[t] \in WorkspaceSet
      /\ branch' = [branch EXCEPT ![t] = branch[t]] /\ ws' = [ws EXCEPT ![t] = ws[t]]
  BY DEF DeliveryInv, DeliveryTyped
<1>2. Traced(branch[t], ws[t], k, s, wrote[t])
  BY DEF DeliveryInv, Traced
<1>3. \A u \in Tickets \ {t} : Apart(branch[t], ws[t], wrote[u])
  BY DEF DeliveryInv
<1> QED BY <1>1, <1>2, <1>3, QuietStep

LEMMA LocksAfter ==
  ASSUME DeliveryInv, NEW t \in Tickets, NEW s, sc' = [sc EXCEPT ![t] = s],
         \A u \in Tickets \ {t} : branch'[u] = branch[u] /\ tk'[u] = tk[u],
         Commits \subseteq Commits',
         s.pc \in Locked => lock' = t,
         s.pc = "commit" => mergeHead' \in Commits' /\ (tk'[t].stray \/ mergeHead' = branch'[t]),
         lock \in {t, "free"} \/ (lock' = lock /\ mergeHead' = mergeHead)
  PROVE  Locks'
<1>1. sc \in [Tickets -> ScriptSet] /\ Locks
  BY DEF DeliveryInv, DeliveryTyped
<1>2. ASSUME NEW u \in Tickets
      PROVE  /\ sc'[u].pc \in Locked => lock' = u
             /\ sc'[u].pc = "commit" =>
                  mergeHead' \in Commits' /\ (tk'[u].stray \/ mergeHead' = branch'[u])
  <2>1. CASE u = t
    BY <1>1, <2>1
  <2>2. CASE u # t
    <3>1. sc'[u] = sc[u]
      BY <1>1, <2>2
    <3>2. sc[u].pc \in Locked => lock = u /\ lock \notin {t, "free"}
      BY <1>1, <2>2, DeliveryAssumption DEF Locks
    <3>3. sc[u].pc = "commit" => sc[u].pc \in Locked
      BY DEF Locked
    <3> QED BY <1>1, <2>2, <3>1, <3>2, <3>3 DEF Locks
  <2> QED BY <2>1, <2>2
<1> QED BY <1>2 DEF Locks

(* What is known of one ticket.                                            *)
LEMMA TicketFacts ==
  ASSUME DeliveryInv, NEW t \in Tickets
  PROVE  /\ branch[t] \in Commits \cup {0} /\ ws[t] \in WorkspaceSet /\ tk[t] \in TicketSet
         /\ sc[t] \in ScriptSet /\ wrote[t] \in Versions
         /\ host \in [tree : Versions, index : Versions] /\ mergeHead \in Commits \cup {0, -1}
         /\ target \in Commits /\ failures \in Nat /\ edits \in Nat /\ LogTyped
         /\ Stages(branch[t], ws[t], tk[t], sc[t]) /\ TipHas(branch[t], wrote[t])
         /\ TreeHas(branch[t], ws[t], wrote[t]) /\ (ws[t].there => TipHas(ws[t].base, wrote[t]))
         /\ Preserved(branch[t], ws[t], tk[t], wrote[t])
         /\ Merges(branch[t], ws[t], tk[t], sc[t], wrote[t])
         /\ tk = [tk EXCEPT ![t] = tk[t]] /\ sc = [sc EXCEPT ![t] = sc[t]]
         /\ branch = [branch EXCEPT ![t] = branch[t]] /\ ws = [ws EXCEPT ![t] = ws[t]]
<1>1. Traced(branch[t], ws[t], tk[t], sc[t], wrote[t])
  BY DEF DeliveryInv
<1> QED BY <1>1 DEF DeliveryInv, DeliveryTyped, Traced

(* A step that moves a card and leaves the scripts alone.                  *)
LEMMA CardStep ==
  ASSUME DeliveryInv, UNCHANGED <<git, lock, ws, sc, policy, wrote, ops, edits>>, failures' \in Nat,
         NEW t \in Tickets, NEW k \in TicketSet, tk' = [tk EXCEPT ![t] = k],
         Stages(branch[t], ws[t], k, sc[t]), Preserved(branch[t], ws[t], k, wrote[t]),
         Merges(branch[t], ws[t], k, sc[t], wrote[t]),
         k.stray = tk[t].stray \/ sc[t].pc = "off"
  PROVE  DeliveryInv'
<1>1. sc[t] \in ScriptSet /\ sc' = [sc EXCEPT ![t] = sc[t]]
  BY TicketFacts
<1>2. host' \in [tree : Versions, index : Versions] /\ mergeHead' \in Commits \cup {0, -1}
  BY TicketFacts DEF ops
<1>3. Locks'
  <2>1. \A u \in Tickets \ {t} : tk'[u] = tk[u]
    BY DEF DeliveryInv, DeliveryTyped
  <2>2. tk'[t].stray = k.stray
    BY DEF DeliveryInv, DeliveryTyped
  <2>3. Commits' = Commits
    BY DEF git, Commits
  <2> QED BY <2>1, <2>2, <2>3 DEF DeliveryInv, Locks, ops, git
<1> QED BY <1>1, <1>2, <1>3, KeepStep DEF git

LEMMA ReuseWorkspaceSafe ==
  ASSUME DeliveryInv, NEW t \in Tickets, ReuseWorkspace(t)
  PROVE  DeliveryInv'
<1> DEFINE k == [tk[t] EXCEPT !.at = IF RefreshPlan(t) = 0 THEN "running" ELSE "planned",
                              !.plan = RefreshPlan(t), !.late = {}, !.stray = FALSE]
<1>1. tk[t] \in TicketSet /\ target \in Commits /\ failures \in Nat
  BY TicketFacts
<1>2. RefreshPlan(t) \in Commits \cup {0} /\ (RefreshPlan(t) # 0 => RefreshPlan(t) \in Commits)
  BY <1>1 DEF RefreshPlan
<1>3. tk' = [tk EXCEPT ![t] = k]
  BY <1>1 DEF ReuseWorkspace, BeginRun, DeliveryInv, DeliveryTyped
<1>4. k \in TicketSet
  BY <1>1, <1>2 DEF TicketSet, Busy
<1>5. /\ k.at = (IF RefreshPlan(t) = 0 THEN "running" ELSE "planned")
      /\ k.plan = RefreshPlan(t) /\ k.state = tk[t].state
      /\ k.live = tk[t].live /\ k.late = {} /\ k.stray = FALSE
  BY <1>1 DEF TicketSet
<1> HIDE DEF k
<1>6. tk[t].at = "idle" /\ sc[t].pc = "off" /\ ws[t].there /\ ~tk[t].live
  BY DEF ReuseWorkspace, Dispatchable
<1>7. Stages(branch[t], ws[t], k, sc[t])
  BY <1>2, <1>5, <1>6, TicketFacts DEF Stages, CardFits, Busy
<1>8. Preserved(branch[t], ws[t], k, wrote[t])
  BY <1>5, <1>6, TicketFacts DEF Preserved
<1>9. Merges(branch[t], ws[t], k, sc[t], wrote[t])
  BY <1>5, <1>6 DEF Merges
<1> QED BY <1>1, <1>3, <1>4, <1>6, <1>7, <1>8, <1>9, CardStep DEF ReuseWorkspace

\* Two cards that say the same of what a cancelled agent did.
SameAgent(k, j) == k.late = j.late /\ k.kept = j.kept /\ k.stray = j.stray

(* A card that moves to another stage, and is otherwise as it was.         *)
LEMMA MoveFacts ==
  ASSUME DeliveryInv, NEW t \in Tickets, NEW stage \in {"idle", "merge"} \cup Busy,
         NEW k, k = [tk[t] EXCEPT !.at = stage]
  PROVE  /\ k \in TicketSet /\ k.at = stage /\ k.state = tk[t].state /\ k.plan = tk[t].plan
         /\ SameAgent(k, tk[t]) /\ k.live = tk[t].live
         /\ At(t, stage) => tk' = [tk EXCEPT ![t] = k]
<1>1. tk[t] \in TicketSet
  BY TicketFacts
<1> QED BY <1>1 DEF TicketSet, At, SameAgent

LEMMA ConfirmPlanSafe ==
  ASSUME DeliveryInv, NEW t \in Tickets, ConfirmPlan(t)
  PROVE  DeliveryInv'
<1> DEFINE stage == IF RefreshPlan(t) = tk[t].plan THEN "confirmed" ELSE "running"
           k == [tk[t] EXCEPT !.at = stage]
<1>1. /\ k \in TicketSet /\ k.at = stage /\ k.state = tk[t].state /\ k.plan = tk[t].plan
      /\ SameAgent(k, tk[t]) /\ k.live = tk[t].live /\ tk' = [tk EXCEPT ![t] = k]
  BY MoveFacts DEF ConfirmPlan, Busy
<1> HIDE DEF k
<1>2. tk[t].at = "planned" /\ sc[t].pc = "off" /\ ws[t].there /\ tk[t].plan # 0
      /\ ~tk[t].live /\ tk[t].late = {}
      /\ branch[t] # 0 /\ ws[t].base # 0 /\ ws[t].base \in Anc(branch[t])
  BY TicketFacts DEF ConfirmPlan, Stages, CardFits, Busy
<1>3. k.at = "confirmed" => k.plan \in Anc(target) /\ ws[t].tree = Tree(branch[t])
  <2>1. target \in Anc(target)
    BY TicketFacts, LogFacts
  <2> QED BY <1>1, <1>2, <2>1 DEF RefreshPlan, Clean
<1>4. k.at \in {"confirmed", "running"}
  BY <1>1
<1>5. Stages(branch[t], ws[t], k, sc[t])
  BY <1>1, <1>2, <1>3, <1>4 DEF Stages, CardFits, Busy, SameAgent
<1>6. Preserved(branch[t], ws[t], k, wrote[t])
  BY <1>1, <1>2, <1>4, TicketFacts DEF Preserved, SameAgent
<1>7. Merges(branch[t], ws[t], k, sc[t], wrote[t])
  BY <1>2, <1>4 DEF Merges
<1> QED BY <1>1, <1>2, <1>5, <1>6, <1>7, TicketFacts, CardStep DEF ConfirmPlan

(* A stage that ends with its workspace kept.                              *)
LEMMA RestStep ==
  ASSUME DeliveryInv, UNCHANGED <<git, lock, ws, sc, policy, wrote, ops, edits>>, failures' \in Nat,
         NEW t \in Tickets, NEW k \in TicketSet, tk' = [tk EXCEPT ![t] = k], k.at = "idle",
         SameAgent(k, tk[t]),
         tk[t].at \in Busy \/ (tk[t].at = "idle" /\ k.state # "Done"
                              /\ (k.state = tk[t].state \/ tk[t].state = "Blocked"))
  PROVE  DeliveryInv'
<1>1. /\ tk[t].at \in Busy => ws[t].there /\ sc[t].pc = "off"
      /\ tk[t].at = "idle" => sc[t].pc = "off" \/ sc[t].by = "web"
      /\ branch[t] = 0 => sc[t].pc \in {"off", "preflight"}
      /\ ws[t].there => branch[t] # 0 /\ ws[t].base # 0 /\ ws[t].base \in Anc(branch[t])
      /\ tk[t].late # {} /\ ~ws[t].there => tk[t].state \in {"Done", "Cancelled"}
  BY TicketFacts DEF Stages, CardFits, Busy
<1>2. k.late = tk[t].late /\ k.kept = tk[t].kept /\ k.stray = tk[t].stray
  BY DEF SameAgent
<1>3. Stages(branch[t], ws[t], k, sc[t])
  BY <1>1, <1>2 DEF Stages, CardFits, Busy
<1>4. Preserved(branch[t], ws[t], k, wrote[t])
  BY <1>1, <1>2, TicketFacts DEF Preserved
<1>5. Merges(branch[t], ws[t], k, sc[t], wrote[t])
  BY <1>1, <1>2, TicketFacts DEF Merges
<1> QED BY <1>2, <1>3, <1>4, <1>5, CardStep

LEMMA FaultyIsNat ==
  ASSUME DeliveryInv, Faulty
  PROVE  failures' \in Nat
BY DEF DeliveryInv, DeliveryTyped, Faulty

LEMMA CardMovesSafe ==
  ASSUME DeliveryInv, NEW t \in Tickets,
         \/ CreateFails(t) \/ WorkerError(t) \/ HistoryUnpublished(t) \/ AfterDoneBlocks(t)
         \/ RecoverHistory(t)
  PROVE  DeliveryInv'
<1>1. tk[t] \in TicketSet /\ failures \in Nat
  BY TicketFacts
<1>2. CASE CreateFails(t)
  <2>1. tk[t].at = "idle" /\ tk[t].state # "Done" /\ tk' = [tk EXCEPT ![t] = tk[t]]
    BY <1>2, TicketFacts DEF CreateFails, Dispatchable
  <2>2. SameAgent(tk[t], tk[t])
    BY DEF SameAgent
  <2> QED BY <1>1, <1>2, <2>1, <2>2, RestStep, FaultyIsNat DEF CreateFails
<1>3. CASE WorkerError(t) \/ AfterDoneBlocks(t)
  <2> DEFINE k == [tk[t] EXCEPT !.at = "idle"]
  <2>1. k \in TicketSet /\ k.at = "idle" /\ tk' = [tk EXCEPT ![t] = k] /\ SameAgent(k, tk[t])
    BY <1>3, MoveFacts DEF WorkerError, AfterDoneBlocks
  <2> HIDE DEF k
  <2> QED BY <1>3, <2>1, RestStep, FaultyIsNat DEF WorkerError, AfterDoneBlocks, Busy
<1>4. CASE HistoryUnpublished(t)
  <2> DEFINE k == [tk[t] EXCEPT !.at = "idle", !.state = "Human Review"]
  <2>1. k \in TicketSet /\ k.at = "idle" /\ tk' = [tk EXCEPT ![t] = k] /\ SameAgent(k, tk[t])
    BY <1>1, <1>4 DEF HistoryUnpublished, TicketSet, SameAgent
  <2> HIDE DEF k
  <2> QED BY <1>4, <2>1, RestStep, FaultyIsNat DEF HistoryUnpublished, Busy
<1>5. CASE RecoverHistory(t)
  <2> DEFINE k == [tk[t] EXCEPT !.state = "Todo", !.paused = FALSE]
  <2>1. /\ k \in TicketSet /\ k.at = tk[t].at /\ k.state = "Todo" /\ tk' = [tk EXCEPT ![t] = k]
        /\ SameAgent(k, tk[t])
    BY <1>1, <1>5 DEF RecoverHistory, TicketSet, SameAgent
  <2> HIDE DEF k
  <2> QED BY <1>1, <1>5, <2>1, RestStep DEF RecoverHistory
<1> QED BY <1>2, <1>3, <1>4, <1>5

(* A cancelled agent is over.                                              *)
LEMMA AgentStopsSafe ==
  ASSUME DeliveryInv, NEW t \in Tickets, AgentStops(t)
  PROVE  DeliveryInv'
<1> DEFINE k == [tk[t] EXCEPT !.live = FALSE]
<1>1. tk[t] \in TicketSet /\ failures \in Nat
  BY TicketFacts
<1>2. /\ k \in TicketSet /\ tk' = [tk EXCEPT ![t] = k] /\ k.at = tk[t].at
      /\ k.state = tk[t].state /\ k.plan = tk[t].plan /\ k.late = tk[t].late
      /\ k.kept = tk[t].kept /\ k.stray = tk[t].stray /\ k.live = FALSE
  BY <1>1 DEF AgentStops, TicketSet
<1> HIDE DEF k
<1>3. Stages(branch[t], ws[t], k, sc[t])
  BY <1>2, TicketFacts DEF Stages, CardFits
<1>4. Preserved(branch[t], ws[t], k, wrote[t])
  BY <1>2, TicketFacts DEF Preserved
<1>5. Merges(branch[t], ws[t], k, sc[t], wrote[t])
  BY <1>2, TicketFacts DEF Merges
<1> QED BY <1>1, <1>2, <1>3, <1>4, <1>5, CardStep DEF AgentStops

(* A branch that the target contains is delivered.                         *)
LEMMA MergedIsDelivered ==
  ASSUME LogTyped, target \in Commits, NEW b \in Anc(target), NEW r
  PROVE  Delivered(b, r)
BY LogFacts DEF Delivered, Below, InTarget

LEMMA StartupCleanupSafe ==
  ASSUME DeliveryInv, NEW t \in Tickets, StartupCleanup(t)
  PROVE  DeliveryInv'
<1>1. /\ tk[t] \in TicketSet /\ failures' \in Nat /\ tk[t].at = "startup" /\ ws[t].there
      /\ sc[t].pc = "off" /\ branch[t] # 0 /\ ws[t].base # 0 /\ ws[t].base \in Anc(branch[t])
      /\ UNCHANGED <<git, lock, ws, sc, policy, wrote, ops, edits>>
      /\ ~tk[t].live /\ tk[t].late = {}
  BY TicketFacts DEF StartupCleanup, Stages, CardFits, Busy
<1>2. CASE At(t, "idle")
  <2> DEFINE k == [tk[t] EXCEPT !.at = "idle"]
  <2>1. k \in TicketSet /\ k.at = "idle" /\ tk' = [tk EXCEPT ![t] = k] /\ SameAgent(k, tk[t])
    BY <1>2, MoveFacts
  <2> HIDE DEF k
  <2> QED BY <1>1, <2>1, RestStep DEF Busy
<1>3. CASE tk' = [tk EXCEPT ![t].at = "idle", ![t].state = "Blocked"]
  <2> DEFINE k == [tk[t] EXCEPT !.at = "idle", !.state = "Blocked"]
  <2>1. k \in TicketSet /\ k.at = "idle" /\ tk' = [tk EXCEPT ![t] = k] /\ SameAgent(k, tk[t])
    BY <1>1, <1>3 DEF TicketSet, SameAgent
  <2> HIDE DEF k
  <2> QED BY <1>1, <2>1, RestStep DEF Busy
<1>4. CASE tk' = [tk EXCEPT ![t].at = "idle", ![t].state = "Blocked", ![t].paused = TRUE]
  <2> DEFINE k == [tk[t] EXCEPT !.at = "idle", !.state = "Blocked", !.paused = TRUE]
  <2>1. k \in TicketSet /\ k.at = "idle" /\ tk' = [tk EXCEPT ![t] = k] /\ SameAgent(k, tk[t])
    BY <1>1, <1>4 DEF TicketSet, SameAgent
  <2> HIDE DEF k
  <2> QED BY <1>1, <2>1, RestStep DEF Busy
<1>5. CASE tk[t].state = "Cancelled" /\ At(t, "reap")
  <2> DEFINE k == [tk[t] EXCEPT !.at = "reap"]
  <2>1. /\ k \in TicketSet /\ k.at = "reap" /\ k.state = tk[t].state
        /\ tk' = [tk EXCEPT ![t] = k] /\ k.live = FALSE /\ k.late = {} /\ k.stray = tk[t].stray
    BY <1>1, <1>5, MoveFacts DEF Busy, SameAgent
  <2> HIDE DEF k
  <2>2. Stages(branch[t], ws[t], k, sc[t])
    BY <1>1, <1>5, <2>1 DEF Stages, CardFits, Busy
  <2>3. Preserved(branch[t], ws[t], k, wrote[t])
    BY <1>1, <2>1, TicketFacts DEF Preserved
  <2>4. Merges(branch[t], ws[t], k, sc[t], wrote[t])
    BY <1>1, <2>1 DEF Merges
  <2> QED BY <1>1, <2>1, <2>2, <2>3, <2>4, CardStep
<1>6. CASE branch[t] \in Anc(target) /\ Clean(t) /\ tk[t].state = "Done" /\ At(t, "remove")
  <2> DEFINE k == [tk[t] EXCEPT !.at = "remove"]
  <2>1. /\ k \in TicketSet /\ k.at = "remove" /\ tk' = [tk EXCEPT ![t] = k] /\ k.live = FALSE
        /\ k.late = {} /\ k.stray = tk[t].stray /\ k.state = "Done"
    BY <1>1, <1>6, MoveFacts DEF Busy, SameAgent
  <2> HIDE DEF k
  <2>2. Stages(branch[t], ws[t], k, sc[t])
    BY <1>1, <2>1 DEF Stages, CardFits, Busy
  <2>3. Preserved(branch[t], ws[t], k, wrote[t])
    BY <1>1, <1>6, <2>1, TicketFacts DEF Preserved, Clean
  <2>4. Delivered(branch[t], wrote[t])
    BY <1>6, TicketFacts, MergedIsDelivered
  <2>5. Merges(branch[t], ws[t], k, sc[t], wrote[t])
    BY <1>1, <2>1, <2>4 DEF Merges
  <2> QED BY <1>1, <2>1, <2>2, <2>3, <2>5, CardStep
<1>7. tk[t].state \in {"Todo", "Done", "Cancelled", "Blocked", "Human Review"}
  BY <1>1 DEF TicketSet
<1> QED BY <1>2, <1>3, <1>4, <1>5, <1>6, <1>7 DEF StartupCleanup

-----------------------------------------------------------------------------
(* The merge script.                                                       *)

(* A script goes on.                                                       *)
LEMMA ScriptStep ==
  ASSUME DeliveryInv, UNCHANGED <<git, ws, tk, policy, wrote, edits>>, failures' \in Nat,
         NEW t \in Tickets, NEW s \in ScriptSet, sc' = [sc EXCEPT ![t] = s],
         host' \in [tree : Versions, index : Versions], mergeHead' \in Commits \cup {0, -1},
         s.pc \in Locked => lock' = t,
         s.pc = "commit" => mergeHead' = branch[t],
         lock \in {t, "free"} \/ (lock' = lock /\ mergeHead' = mergeHead),
         Stages(branch[t], ws[t], tk[t], s),
         s.pc \in {"publish", "sync"} => tk[t].stray \/ Delivered(branch[t], wrote[t])
  PROVE  DeliveryInv'
<1>1. tk[t] \in TicketSet /\ tk' = [tk EXCEPT ![t] = tk[t]]
  BY TicketFacts
<1>2. Preserved(branch[t], ws[t], tk[t], wrote[t]) /\ Merges(branch[t], ws[t], tk[t], s, wrote[t])
  BY TicketFacts DEF Merges
<1>3. Locks'
  <2>1. s.pc = "commit" => branch[t] \in Commits
    BY TicketFacts DEF Stages
  <2>2. branch' = branch /\ tk' = tk /\ Commits' = Commits
    BY DEF git, Commits
  <2> QED BY <2>1, <2>2, LocksAfter
<1> QED BY <1>1, <1>2, <1>3, KeepStep DEF git

(* A script under way, at another of its points.                           *)
LEMMA OnwardFacts ==
  ASSUME DeliveryInv, NEW t \in Tickets, sc[t].pc # "off", branch[t] # 0, NEW s,
         s.by = sc[t].by, s.pc \notin {"off"}
  PROVE  Stages(branch[t], ws[t], tk[t], s)
BY TicketFacts DEF Stages, CardFits

(* A script ends: its result goes to the card, or to the operator.         *)
LEMMA ReportStep ==
  ASSUME DeliveryInv, UNCHANGED <<git, ws, policy, wrote, edits>>, failures' \in Nat,
         NEW t \in Tickets, sc[t].pc # "off", NEW ok \in BOOLEAN, Report(t, ok),
         host' \in [tree : Versions, index : Versions], mergeHead' \in Commits \cup {0, -1},
         lock \in {t, "free"} \/ (lock' = lock /\ mergeHead' = mergeHead),
         ok => tk[t].stray \/ Delivered(branch[t], wrote[t])
  PROVE  DeliveryInv'
<1>1. tk[t] \in TicketSet /\ sc[t] \in ScriptSet
  BY TicketFacts
<1>2. NoScript \in ScriptSet /\ NoScript.pc = "off"
  <2>1. edits \in Nat
    BY TicketFacts
  <2>2. Blank \in Versions
    BY <2>1 DEF Blank, Versions
  <2> QED BY <2>2 DEF NoScript, ScriptSet
<1>3. sc' = [sc EXCEPT ![t] = NoScript]
  BY DEF Report
<1>4. Locks'
  <2>1. \A u \in Tickets \ {t} : tk'[u] = tk[u]
    BY DEF Report, DeliveryInv, DeliveryTyped
  <2>2. branch' = branch /\ Commits' = Commits
    BY DEF git, Commits
  <2> QED BY <1>2, <1>3, <2>1, <2>2, LocksAfter DEF Locked
<1>5. /\ tk[t].at \notin Busy /\ (tk[t].at = "merge" => tk[t].state = "Done")
      /\ sc[t].by = (IF tk[t].at = "merge" THEN "exit" ELSE "web")
      /\ tk[t].at # "idle" => ws[t].there
      /\ ws[t].there => branch[t] # 0 /\ ws[t].base # 0 /\ ws[t].base \in Anc(branch[t])
  BY TicketFacts DEF Stages, CardFits
<1>6. CASE sc[t].by = "web"
  <2>1. tk' = [tk EXCEPT ![t] = tk[t]] /\ tk[t].at # "merge"
    BY <1>5, <1>6, TicketFacts DEF Report
  <2>2. Stages(branch[t], ws[t], tk[t], NoScript)
    BY <1>2, <1>5, TicketFacts DEF Stages, CardFits
  <2>3. Preserved(branch[t], ws[t], tk[t], wrote[t])
    BY TicketFacts
  <2>4. Merges(branch[t], ws[t], tk[t], NoScript, wrote[t])
    BY <1>2, TicketFacts DEF Merges
  <2> QED BY <1>1, <1>2, <1>3, <1>4, <2>1, <2>2, <2>3, <2>4, KeepStep DEF git
<1>7. CASE sc[t].by # "web" /\ ok
  <2> DEFINE k == [tk[t] EXCEPT !.at = "remove"]
  <2>1. /\ k \in TicketSet /\ k.at = "remove" /\ k.state = tk[t].state /\ SameAgent(k, tk[t])
        /\ tk' = [tk EXCEPT ![t] = k]
    BY <1>1, <1>7 DEF Report, TicketSet, Busy, SameAgent
  <2>2. tk[t].at = "merge" /\ ws[t].there
    BY <1>5, <1>7
  <2> HIDE DEF k
  <2>3. Stages(branch[t], ws[t], k, NoScript)
    BY <1>2, <1>5, <2>1, <2>2 DEF Stages, CardFits
  <2>4. Preserved(branch[t], ws[t], k, wrote[t])
    BY <2>1, <2>2, TicketFacts DEF Preserved, SameAgent
  <2>5. Merges(branch[t], ws[t], k, NoScript, wrote[t])
    BY <1>2, <1>7, <2>1 DEF Merges, SameAgent
  <2> QED BY <1>1, <1>2, <1>3, <1>4, <2>1, <2>3, <2>4, <2>5, KeepStep DEF git
<1>8. CASE sc[t].by # "web" /\ ~ok
  <2> DEFINE k == [tk[t] EXCEPT !.at = "idle", !.state = "Blocked"]
  <2>1. /\ k \in TicketSet /\ k.at = "idle" /\ k.state = "Blocked" /\ SameAgent(k, tk[t])
        /\ tk' = [tk EXCEPT ![t] = k]
    BY <1>1, <1>8 DEF Report, TicketSet, SameAgent
  <2>2. tk[t].at = "merge" /\ ws[t].there
    BY <1>5, <1>8
  <2> HIDE DEF k
  <2>3. Stages(branch[t], ws[t], k, NoScript)
    BY <1>2, <1>5, <2>1, <2>2 DEF Stages, CardFits, Busy
  <2>4. Preserved(branch[t], ws[t], k, wrote[t])
    BY <2>1, <2>2, TicketFacts DEF Preserved, SameAgent
  <2>5. Merges(branch[t], ws[t], k, NoScript, wrote[t])
    BY <1>2, <2>1, <2>2 DEF Merges
  <2> QED BY <1>1, <1>2, <1>3, <1>4, <2>1, <2>3, <2>4, <2>5, KeepStep DEF git
<1> QED BY <1>6, <1>7, <1>8

LEMMA HistoryRecordedSafe ==
  ASSUME DeliveryInv, NEW t \in Tickets, HistoryRecorded(t)
  PROVE  DeliveryInv'
<1> DEFINE k == [tk[t] EXCEPT !.at = "merge"]
           s == [NoScript EXCEPT !.pc = "preflight"]
<1>1. /\ k \in TicketSet /\ k.at = "merge" /\ k.state = tk[t].state /\ tk' = [tk EXCEPT ![t] = k]
      /\ SameAgent(k, tk[t])
  BY MoveFacts DEF HistoryRecorded
<1>2. s \in ScriptSet /\ s.pc = "preflight" /\ s.by = "exit"
  <2>1. edits \in Nat
    BY TicketFacts
  <2>2. Blank \in Versions
    BY <2>1 DEF Blank, Versions
  <2> QED BY <2>2 DEF NoScript, ScriptSet
<1>3. sc' = [sc EXCEPT ![t] = s] /\ tk[t].at = "history" /\ failures' \in Nat
  BY TicketFacts DEF HistoryRecorded
<1> HIDE DEF k, s
<1>4. ws[t].there
  BY <1>3, TicketFacts DEF Stages, CardFits
<1>5. Stages(branch[t], ws[t], k, s)
  BY <1>1, <1>2, <1>3, <1>4, TicketFacts DEF Stages, CardFits, Busy
<1>6. Preserved(branch[t], ws[t], k, wrote[t])
  BY <1>1, <1>3, <1>4, TicketFacts DEF Preserved, SameAgent
<1>7. Merges(branch[t], ws[t], k, s, wrote[t])
  BY <1>1, <1>2, <1>3, TicketFacts DEF Merges
<1>8. /\ UNCHANGED <<log, target, policy, edits, wrote, branch, ws, lock, mergeHead>>
      /\ host' \in [tree : Versions, index : Versions] /\ mergeHead' \in Commits \cup {0, -1}
  BY TicketFacts DEF HistoryRecorded, git, ops
<1>9. Locks'
  <2>1. (\A u \in Tickets \ {t} : tk'[u] = tk[u]) /\ Commits' = Commits
    BY <1>1, <1>8 DEF DeliveryInv, DeliveryTyped, Commits
  <2> QED BY <1>2, <1>3, <1>8, <2>1, LocksAfter DEF Locked
<1> QED BY <1>1, <1>2, <1>3, <1>5, <1>6, <1>7, <1>8, <1>9, KeepStep

LEMMA WebMergeSafe ==
  ASSUME DeliveryInv, NEW t \in Tickets, WebMerge(t)
  PROVE  DeliveryInv'
<1> DEFINE s == [NoScript EXCEPT !.pc = "preflight", !.by = "web"]
<1>1. s \in ScriptSet /\ s.pc = "preflight" /\ s.by = "web"
  <2>1. edits \in Nat
    BY TicketFacts
  <2>2. Blank \in Versions
    BY <2>1 DEF Blank, Versions
  <2> QED BY <2>2 DEF NoScript, ScriptSet
<1>2. sc' = [sc EXCEPT ![t] = s]
  BY DEF WebMerge
<1> HIDE DEF s
<1>3. Stages(branch[t], ws[t], tk[t], s)
  BY <1>1, TicketFacts DEF WebMerge, Stages, CardFits, Busy
<1>4. /\ host' \in [tree : Versions, index : Versions] /\ mergeHead' \in Commits \cup {0, -1}
      /\ lock' = lock /\ mergeHead' = mergeHead /\ failures' \in Nat
  BY TicketFacts DEF WebMerge, ops
<1> QED BY <1>1, <1>2, <1>3, <1>4, ScriptStep DEF WebMerge, Locked

\* The working tree and the index of the host are versions.
LEMMA HostFacts ==
  ASSUME DeliveryInv
  PROVE  /\ host.tree \in Versions /\ host.index \in Versions /\ target \in Commits
         /\ Tree(target) \in Versions /\ failures \in Nat /\ mergeHead \in Commits \cup {0, -1}
         /\ host \in [tree : Versions, index : Versions] /\ LogTyped
         /\ target \in Anc(target)
BY LogFacts DEF DeliveryInv, DeliveryTyped

(* Two commits that do not differ have the same versions.                  *)
LEMMA SameIsDelivered ==
  ASSUME DeliveryInv, NEW t \in Tickets, branch[t] # 0, Differ(target, branch[t]) = {}
  PROVE  Delivered(branch[t], wrote[t])
<1> SUFFICES ASSUME NEW p \in Paths \ Excluded, Below(branch[t], wrote[t][p], p)
             PROVE  InTarget(wrote[t][p], p)
  BY DEF Delivered
<1>1. Tree(branch[t])[p] = wrote[t][p] \/ InTarget(wrote[t][p], p)
  BY TicketFacts DEF TipHas
<1>2. Tree(branch[t])[p] = Tree(target)[p]
  BY DEF Differ
<1> QED BY <1>1, <1>2, HostFacts DEF InTarget

LEMMA PreflightSafe ==
  ASSUME DeliveryInv, NEW t \in Tickets, Preflight(t)
  PROVE  DeliveryInv'
<1>1. /\ UNCHANGED <<git, lock, ws, policy, wrote, edits, host, mergeHead>> /\ failures' \in Nat
      /\ host' \in [tree : Versions, index : Versions] /\ mergeHead' \in Commits \cup {0, -1}
      /\ sc[t].pc = "preflight" /\ sc[t] \in ScriptSet
  BY HostFacts, TicketFacts DEF Preflight, ops
<1>2. CASE Report(t, FALSE)
  BY <1>1, <1>2, ReportStep
<1>3. CASE ~PreflightRefuses(t) /\ UNCHANGED tk
            /\ Script(t, IF Differ(target, branch[t]) = {} THEN "sync" ELSE "capture")
  <2>1. branch[t] # 0
    BY <1>3 DEF PreflightRefuses
  <2>2. PICK pc \in {"sync", "capture"} :
          Script(t, pc) /\ (pc = "sync" => Differ(target, branch[t]) = {})
    BY <1>3
  <2> DEFINE s == [sc[t] EXCEPT !.pc = pc]
  <2>3. s \in ScriptSet /\ s.pc = pc /\ s.by = sc[t].by /\ sc' = [sc EXCEPT ![t] = s]
    BY <1>1, <2>2 DEF ScriptSet, Script
  <2> HIDE DEF s
  <2>4. Stages(branch[t], ws[t], tk[t], s)
    BY <1>1, <2>1, <2>2, <2>3, OnwardFacts
  <2>5. pc = "sync" => Delivered(branch[t], wrote[t])
    BY <2>1, <2>2, SameIsDelivered
  <2>6. s.pc \notin Locked /\ s.pc \notin {"commit", "publish"}
    BY <2>2, <2>3 DEF Locked
  <2> QED BY <1>1, <1>3, <2>2, <2>3, <2>4, <2>5, <2>6, ScriptStep
<1> QED BY <1>2, <1>3 DEF Preflight

LEMMA CaptureHeadSafe ==
  ASSUME DeliveryInv, NEW t \in Tickets, CaptureHead(t)
  PROVE  DeliveryInv'
<1> DEFINE s == [sc[t] EXCEPT !.pc = "lock", !.old = target]
<1>1. /\ UNCHANGED <<git, lock, ws, tk, policy, wrote, edits, host, mergeHead>> /\ failures' \in Nat
      /\ host' \in [tree : Versions, index : Versions] /\ mergeHead' \in Commits \cup {0, -1}
      /\ sc[t].pc = "capture" /\ sc[t] \in ScriptSet /\ branch[t] # 0
  BY HostFacts, TicketFacts DEF CaptureHead, ops, Stages, CardFits
<1>2. s \in ScriptSet /\ s.pc = "lock" /\ s.by = sc[t].by /\ sc' = [sc EXCEPT ![t] = s]
  BY <1>1, HostFacts DEF ScriptSet, CaptureHead
<1> HIDE DEF s
<1>3. Stages(branch[t], ws[t], tk[t], s)
  BY <1>1, <1>2, OnwardFacts
<1> QED BY <1>1, <1>2, <1>3, ScriptStep DEF Locked

LEMMA TakeIndexLockSafe ==
  ASSUME DeliveryInv, NEW t \in Tickets, TakeIndexLock(t)
  PROVE  DeliveryInv'
<1>1. /\ UNCHANGED <<git, ws, policy, wrote, edits, host, mergeHead>> /\ failures' \in Nat
      /\ host' \in [tree : Versions, index : Versions] /\ mergeHead' \in Commits \cup {0, -1}
      /\ sc[t].pc = "lock" /\ sc[t] \in ScriptSet /\ branch[t] # 0
  BY HostFacts, TicketFacts DEF TakeIndexLock, ops, Stages, CardFits
<1>2. CASE lock # "free"
  BY <1>1, <1>2, ReportStep DEF TakeIndexLock
<1>3. CASE lock = "free"
  <2> DEFINE s == [sc[t] EXCEPT !.pc = "apply", !.mine = DirtyPaths, !.snap = host.index]
  <2>1. s \in ScriptSet /\ s.pc = "apply" /\ s.by = sc[t].by /\ sc' = [sc EXCEPT ![t] = s]
    BY <1>1, <1>3, HostFacts DEF ScriptSet, TakeIndexLock, Locked, DirtyPaths
  <2> HIDE DEF s
  <2>2. Stages(branch[t], ws[t], tk[t], s)
    BY <1>1, <2>1, OnwardFacts
  <2> QED BY <1>1, <1>3, <2>1, <2>2, ScriptStep DEF TakeIndexLock
<1> QED BY <1>2, <1>3

(* The script at one of the points at which it has the index lock.         *)
LEMMA HolderFacts ==
  ASSUME DeliveryInv, NEW t \in Tickets, sc[t].pc \in Locked
  PROVE  /\ lock = t /\ branch[t] \in Commits
         /\ sc[t].pc = "commit" => mergeHead \in Commits /\ (tk[t].stray \/ mergeHead = branch[t])
BY TicketFacts DEF DeliveryInv, Locks, Locked, Stages, CardFits

LEMMA MergedIsVersions ==
  ASSUME LogTyped, NEW a \in Commits, NEW b \in Commits
  PROVE  Merged(a, b) \in Versions
<1>1. Tree(a) \in Versions /\ Tree(b) \in Versions
  BY LogFacts
<1> QED BY <1>1 DEF Merged, Versions

(* A merge that changes nothing has everything of the branch already.      *)
LEMMA EmptyIsDelivered ==
  ASSUME DeliveryInv, NEW t \in Tickets, branch[t] \in Commits,
         Merged(target, branch[t]) = Tree(target)
  PROVE  Delivered(branch[t], wrote[t])
<1> SUFFICES ASSUME NEW p \in Paths \ Excluded, Below(branch[t], wrote[t][p], p),
                    Tree(branch[t])[p] = wrote[t][p]
             PROVE  InTarget(wrote[t][p], p)
  BY TicketFacts DEF Delivered, TipHas
<1> DEFINE b == branch[t]
<1>1. MergeBase(target, b) \in Anc(target) /\ target \in Anc(target)
  BY BaseFacts, HostFacts
<1>2. CASE Theirs(target, b, p)
  <2>1. Tree(target)[p] = Tree(b)[p]
    BY <1>2 DEF Merged
  <2> QED BY <1>1, <2>1 DEF InTarget
<1>3. CASE ~Theirs(target, b, p)
  <2>1. Tree(b)[p] = Tree(MergeBase(target, b))[p]
    BY <1>3 DEF Theirs
  <2> QED BY <1>1, <2>1 DEF InTarget
<1> QED BY <1>2, <1>3

LEMMA ApplySafe ==
  ASSUME DeliveryInv, NEW t \in Tickets, ApplyRefused(t) \/ ApplyMerge(t)
  PROVE  DeliveryInv'
<1>1. /\ UNCHANGED <<git, ws, policy, wrote, edits>> /\ failures' \in Nat
      /\ sc[t].pc = "apply" /\ sc[t] \in ScriptSet
  BY HostFacts, TicketFacts DEF ApplyRefused, ApplyMerge
<1>2. lock = t /\ branch[t] \in Commits
  BY <1>1, HolderFacts DEF Locked
<1>3. CASE ApplyRefused(t)
  <2>1. host' \in [tree : Versions, index : Versions] /\ mergeHead' \in Commits \cup {0, -1}
        /\ Report(t, FALSE)
    BY <1>3, HostFacts DEF ApplyRefused
  <2> QED BY <1>1, <1>2, <2>1, ReportStep
<1>4. CASE ApplyMerge(t)
  <2> DEFINE m == Merged(target, branch[t])
  <2>1. m \in Versions
    BY <1>2, MergedIsVersions, HostFacts
  <2>2. CASE m = Tree(target)
    <3> DEFINE s == [sc[t] EXCEPT !.pc = "sync"]
    <3>1. s \in ScriptSet /\ s.pc = "sync" /\ s.by = sc[t].by /\ sc' = [sc EXCEPT ![t] = s]
          /\ UNCHANGED <<host, mergeHead, tk>>
      BY <1>1, <1>4, <2>2 DEF ScriptSet, Script, ApplyMerge
    <3> HIDE DEF s, m
    <3>2. Stages(branch[t], ws[t], tk[t], s)
      BY <1>1, <1>2, <3>1, OnwardFacts, LogFacts, HostFacts DEF Commits
    <3>3. Delivered(branch[t], wrote[t])
      BY <1>2, <2>2, EmptyIsDelivered DEF m
    <3> QED BY <1>1, <1>2, <3>1, <3>2, <3>3, ScriptStep, HostFacts DEF Locked
  <2>3. CASE m # Tree(target)
    <3> DEFINE s == [sc[t] EXCEPT !.pc = "commit", !.tree = m]
               f == [p \in Paths |-> IF m[p] # Tree(target)[p] THEN m[p] ELSE host.tree[p]]
               h == [host EXCEPT !.tree = f]
    <3>1. sc' = [sc EXCEPT ![t] = s] /\ host' = h /\ mergeHead' = branch[t]
          /\ UNCHANGED <<lock, tk>>
      BY <1>4, <2>3, HostFacts, TicketFacts DEF ApplyMerge, DeliveryInv, DeliveryTyped
    <3>2. f \in Versions
      BY <2>1, HostFacts DEF Versions
    <3> HIDE DEF m, f
    <3>3. s \in ScriptSet /\ s.pc = "commit" /\ s.by = sc[t].by
      BY <1>1, <2>1 DEF ScriptSet, Locked
    <3>4. h \in [tree : Versions, index : Versions]
      BY <3>2, HostFacts
    <3> HIDE DEF s, h
    <3>5. Stages(branch[t], ws[t], tk[t], s)
      BY <1>1, <1>2, <3>3, OnwardFacts, LogFacts, HostFacts DEF Commits
    <3> QED BY <1>1, <1>2, <3>1, <3>3, <3>4, <3>5, ScriptStep
  <2> QED BY <2>2, <2>3
<1> QED BY <1>3, <1>4

LEMMA CommitFailsSafe ==
  ASSUME DeliveryInv, NEW t \in Tickets, CommitFails(t)
  PROVE  DeliveryInv'
<1>1. /\ UNCHANGED <<git, ws, policy, wrote, edits>> /\ failures' \in Nat
      /\ sc[t].pc = "commit" /\ sc[t] \in ScriptSet /\ Report(t, FALSE)
  BY TicketFacts, FaultyIsNat DEF CommitFails
<1>2. lock = t
  BY <1>1, HolderFacts DEF Locked
<1>3. AbortTree(t) \in Versions
  BY HostFacts DEF AbortTree, Versions
<1>4. host' \in [tree : Versions, index : Versions] /\ mergeHead' \in Commits \cup {0, -1}
  BY <1>3, HostFacts DEF CommitFails
<1> QED BY <1>1, <1>2, <1>4, ReportStep

LEMMA PublishIndexSafe ==
  ASSUME DeliveryInv, NEW t \in Tickets, PublishIndex(t)
  PROVE  DeliveryInv'
<1> DEFINE s == [sc[t] EXCEPT !.pc = "sync"]
<1>1. /\ UNCHANGED <<git, ws, tk, policy, wrote, edits, mergeHead>> /\ failures' \in Nat
      /\ sc[t].pc = "publish" /\ sc[t] \in ScriptSet
  BY HostFacts, TicketFacts DEF PublishIndex
<1>2. lock = t /\ branch[t] \in Commits
  BY <1>1, HolderFacts DEF Locked
<1>3. PublishedIndex(t) \in Versions
  BY <1>1, HostFacts DEF PublishedIndex, Versions, ScriptSet
<1>4. host' \in [tree : Versions, index : Versions]
  BY <1>3, HostFacts DEF PublishIndex
<1>5. s \in ScriptSet /\ s.pc = "sync" /\ s.by = sc[t].by /\ sc' = [sc EXCEPT ![t] = s]
  BY <1>1 DEF ScriptSet, Script, PublishIndex
<1> HIDE DEF s
<1>6. Stages(branch[t], ws[t], tk[t], s)
  BY <1>1, <1>2, <1>5, OnwardFacts, LogFacts, HostFacts DEF Commits
<1>7. tk[t].stray \/ Delivered(branch[t], wrote[t])
  BY <1>1, TicketFacts DEF Merges
<1> QED BY <1>1, <1>2, <1>4, <1>5, <1>6, <1>7, ScriptStep, HostFacts DEF Locked

LEMMA SyncSafe ==
  ASSUME DeliveryInv, NEW t \in Tickets, SyncUpstream(t) \/ SyncRefused(t) \/ KillScript(t)
  PROVE  DeliveryInv'
<1>1. /\ UNCHANGED <<git, ws, policy, wrote, edits, host, mergeHead>> /\ failures' \in Nat
      /\ sc[t].pc # "off" /\ (lock' = lock \/ lock = t)
  BY TicketFacts, FaultyIsNat DEF SyncUpstream, SyncRefused, KillScript, ops
<1>2. CASE SyncUpstream(t)
  <2>1. tk[t].stray \/ Delivered(branch[t], wrote[t])
    BY <1>2, TicketFacts DEF SyncUpstream, Merges
  <2> QED BY <1>1, <1>2, <2>1, ReportStep, HostFacts DEF SyncUpstream
<1>3. CASE SyncRefused(t) \/ KillScript(t)
  BY <1>1, <1>3, ReportStep, HostFacts DEF SyncRefused, KillScript
<1> QED BY <1>2, <1>3

-----------------------------------------------------------------------------
(* The branch and the workspace of a ticket without a script.              *)

(* A step to another branch, workspace and card, which may start a script. *)
LEMMA BranchMove ==
  ASSUME DeliveryInv, UNCHANGED <<log, target, lock, policy, wrote, ops, edits>>,
         failures' \in Nat, NEW t \in Tickets, NEW s \in ScriptSet, s.pc \in {"off", "preflight"},
         sc[t].pc = "off", sc' = [sc EXCEPT ![t] = s],
         NEW b \in Commits \cup {0}, NEW wt \in WorkspaceSet, NEW k \in TicketSet,
         branch' = [branch EXCEPT ![t] = b], ws' = [ws EXCEPT ![t] = wt],
         tk' = [tk EXCEPT ![t] = k],
         Stages(b, wt, k, s), TipHas(b, wrote[t]), TreeHas(b, wt, wrote[t]),
         wt.there => TipHas(wt.base, wrote[t]), Preserved(b, wt, k, wrote[t]),
         k.state = "Done" /\ (k.at = "remove" \/ (k.at = "idle" /\ ~wt.there)) =>
           k.stray \/ Delivered(b, wrote[t]),
         \A u \in Tickets \ {t} : Apart(b, wt, wrote[u])
  PROVE  DeliveryInv'
<1>1. host' \in [tree : Versions, index : Versions] /\ mergeHead' \in Commits \cup {0, -1}
      /\ mergeHead' = mergeHead
  BY HostFacts DEF ops
<1>2. \A u \in Tickets \ {t} : branch'[u] = branch[u] /\ tk'[u] = tk[u]
  BY DEF DeliveryInv, DeliveryTyped
<1>3. Locks'
  <2>1. Commits' = Commits
    BY DEF Commits
  <2> QED BY <1>1, <1>2, <2>1, LocksAfter DEF Locked
<1>4. Merges(b, wt, k, s, wrote[t])
  BY DEF Merges
<1>5. Traced(b, wt, k, s, wrote[t])
  BY <1>4 DEF Traced
<1> QED BY <1>1, <1>3, <1>5, QuietStep

LEMMA BranchStep ==
  ASSUME DeliveryInv, UNCHANGED <<log, target, lock, sc, policy, wrote, ops, edits>>,
         failures' \in Nat, NEW t \in Tickets, sc[t].pc = "off",
         NEW b \in Commits \cup {0}, NEW wt \in WorkspaceSet, NEW k \in TicketSet,
         branch' = [branch EXCEPT ![t] = b], ws' = [ws EXCEPT ![t] = wt],
         tk' = [tk EXCEPT ![t] = k],
         Stages(b, wt, k, sc[t]), TipHas(b, wrote[t]), TreeHas(b, wt, wrote[t]),
         wt.there => TipHas(wt.base, wrote[t]), Preserved(b, wt, k, wrote[t]),
         k.state = "Done" /\ (k.at = "remove" \/ (k.at = "idle" /\ ~wt.there)) =>
           k.stray \/ Delivered(b, wrote[t]),
         \A u \in Tickets \ {t} : Apart(b, wt, wrote[u])
  PROVE  DeliveryInv'
<1>1. PICK s : s = sc[t]
  OBVIOUS
<1>2. s \in ScriptSet /\ sc' = [sc EXCEPT ![t] = s] /\ s.pc = "off" /\ Stages(b, wt, k, s)
  BY <1>1, TicketFacts
<1> QED BY <1>2, BranchMove

(* What a commit of the target's history has is in the target.             *)
LEMMA OldIsInTarget ==
  ASSUME DeliveryInv, NEW c \in Anc(target)
  PROVE  /\ c \in Commits /\ c # 0 /\ Tree(c) \in Versions /\ c \in Anc(c)
         /\ \A v, p : Below(c, v, p) => InTarget(v, p)
         /\ \A v, p : Tree(c)[p] = v => InTarget(v, p)
         /\ \A r : TipHas(c, r)
<1>1. LogTyped /\ target \in Commits
  BY HostFacts
<1>2. c \in Commits /\ c # 0 /\ Tree(c) \in Versions /\ c \in Anc(c) /\ Anc(c) \subseteq Anc(target)
  BY <1>1, LogFacts DEF Commits
<1>3. \A v, p : Below(c, v, p) => InTarget(v, p)
  BY <1>2 DEF Below, InTarget
<1>4. \A v, p : Tree(c)[p] = v => InTarget(v, p)
  BY DEF InTarget
<1> QED BY <1>2, <1>3, <1>4 DEF TipHas

\* The tip a workspace is attached to.
Tip(t) == IF RefreshedBranch(t) = 0 THEN target ELSE RefreshedBranch(t)

LEMMA AttachSafe ==
  ASSUME DeliveryInv, NEW t \in Tickets, CreateWorkspace(t) \/ RefreshWorkspace(t)
  PROVE  DeliveryInv'
<1> DEFINE b == Tip(t)
           wt == [there |-> TRUE, tree |-> Tree(b), base |-> b]
           k == [tk[t] EXCEPT !.at = "running", !.plan = tk[t].plan, !.late = {}, !.stray = FALSE]
<1>1. /\ UNCHANGED <<log, target, lock, sc, policy, wrote, ops, edits>> /\ failures' \in Nat
      /\ sc[t].pc = "off" /\ tk[t].state = "Todo" /\ tk[t].at = "idle" /\ ~tk[t].live
      /\ policy.reuse = "preserve" => ~ws[t].there
      /\ branch' = [branch EXCEPT ![t] = b] /\ ws' = [ws EXCEPT ![t] = wt]
  BY HostFacts DEF CreateWorkspace, RefreshWorkspace, Dispatchable, Attach, Tip
<1>2. /\ k \in TicketSet /\ k.at = "running" /\ k.state = "Todo" /\ k.live = FALSE
      /\ k.late = {} /\ tk' = [tk EXCEPT ![t] = k]
  <2>1. tk[t] \in TicketSet
    BY TicketFacts
  <2>2. tk' = [tk EXCEPT ![t] = k]
    BY <2>1 DEF CreateWorkspace, RefreshWorkspace, BeginRun, DeliveryInv, DeliveryTyped
  <2> QED BY <1>1, <2>1, <2>2 DEF TicketSet, Busy
<1>3. \/ b = target /\ (branch[t] = 0 \/ branch[t] \in Anc(target))
      \/ b = branch[t] /\ branch[t] \in Commits
  BY TicketFacts DEF Tip, RefreshedBranch
<1>4. target \in Anc(target) /\ LogTyped
  BY HostFacts
<1>5. b \in Commits /\ b # 0 /\ b \in Anc(b) /\ Tree(b) \in Versions
  BY <1>3, <1>4, LogFacts, OldIsInTarget DEF Commits
<1>6. TipHas(b, wrote[t])
  <2>1. CASE b = target
    BY <2>1, <1>4, OldIsInTarget
  <2>2. CASE b = branch[t]
    BY <2>2, TicketFacts
  <2> QED BY <1>3, <2>1, <2>2
<1>7. \A u \in Tickets \ {t} : \A p \in Paths :
        Below(b, wrote[u][p], p) => InTarget(wrote[u][p], p)
  <2>1. CASE b = target
    BY <2>1, <1>4, OldIsInTarget
  <2>2. CASE b = branch[t]
    BY <2>2 DEF DeliveryInv, Apart
  <2> QED BY <1>3, <2>1, <2>2
<1>8. ASSUME policy.reuse = "preserve" /\ policy.commit, NEW p \in Paths \ Excluded
      PROVE  Tree(b)[p] = wrote[t][p] \/ InTarget(wrote[t][p], p)
  <2>1. tk[t].late = {}
    BY <1>1, <1>8, TicketFacts DEF Stages
  <2>2. (branch[t] # 0 /\ Tree(branch[t])[p] = wrote[t][p]) \/ InTarget(wrote[t][p], p)
    BY <1>1, <1>8, <2>1, TicketFacts DEF Preserved
  <2> QED BY <1>3, <2>2, OldIsInTarget
<1> HIDE DEF b, k
<1>9. wt \in WorkspaceSet /\ wt.there /\ wt.base = b /\ wt.tree = Tree(b)
  BY <1>5 DEF WorkspaceSet
<1> HIDE DEF wt
<1>10. Stages(b, wt, k, sc[t])
  BY <1>1, <1>2, <1>5, <1>9 DEF Stages, CardFits
<1>11. TreeHas(b, wt, wrote[t])
  BY <1>6, <1>9 DEF TreeHas, TipHas
<1>12. Preserved(b, wt, k, wrote[t])
  BY <1>2, <1>8, <1>9 DEF Preserved
<1>13. ASSUME NEW u \in Tickets \ {t} PROVE Apart(b, wt, wrote[u])
  <2>1. \A p \in Paths : Tree(b)[p] = wrote[u][p] => Below(b, wrote[u][p], p)
    BY <1>5 DEF Below
  <2> QED BY <1>7, <1>9, <2>1 DEF Apart
<1> QED BY <1>1, <1>2, <1>5, <1>6, <1>9, <1>10, <1>11, <1>12, <1>13, BranchStep

LEMMA FastForwardSafe ==
  ASSUME DeliveryInv, NEW t \in Tickets, FastForward(t) \/ FastForwardFails(t)
  PROVE  DeliveryInv'
<1> DEFINE b == tk[t].plan
<1>1. /\ UNCHANGED <<log, target, lock, sc, policy, wrote, ops, edits>> /\ failures' \in Nat
      /\ sc[t].pc = "off" /\ tk[t].at = "confirmed" /\ ~tk[t].live /\ tk[t].late = {}
      /\ ws[t] \in WorkspaceSet /\ ws[t].there
      /\ b \in Anc(target) /\ ws[t].tree = Tree(branch[t]) /\ target \in Commits /\ LogTyped
      /\ ws[t].base \in Anc(branch[t]) /\ ws[t].base # 0 /\ branch[t] \in Commits
  BY HostFacts, TicketFacts, FaultyIsNat DEF FastForward, FastForwardFails, Stages, CardFits, Busy
<1>2. b \in Commits /\ b # 0 /\ Tree(b) \in Versions /\ b \in Anc(b)
  BY <1>1, OldIsInTarget
<1>3. CASE FastForwardFails(t) /\ UNCHANGED <<branch, ws>>
  <2> DEFINE k == [tk[t] EXCEPT !.at = "idle"]
  <2>1. k \in TicketSet /\ k.at = "idle" /\ tk' = [tk EXCEPT ![t] = k] /\ SameAgent(k, tk[t])
    BY <1>3, MoveFacts DEF FastForwardFails
  <2> HIDE DEF k
  <2> QED BY <1>1, <1>3, <2>1, RestStep DEF Busy, git
<1>4. ASSUME NEW base \in {b, ws[t].base}, NEW stage \in {"running", "idle"},
             branch[t] \in Anc(b), branch' = [branch EXCEPT ![t] = b],
             ws' = [ws EXCEPT ![t] = [ws[t] EXCEPT !.tree = Tree(b), !.base = base]],
             At(t, stage)
      PROVE  DeliveryInv'
  <2> DEFINE k == [tk[t] EXCEPT !.at = stage]
             wt == [ws[t] EXCEPT !.tree = Tree(b), !.base = base]
  <2>1. /\ k \in TicketSet /\ k.at = stage /\ tk' = [tk EXCEPT ![t] = k]
        /\ k.live = FALSE /\ k.late = {}
    BY <1>1, <1>4, MoveFacts DEF Busy, SameAgent
  <2>2. base \in Commits /\ base # 0 /\ base \in Anc(b) /\ TipHas(base, wrote[t])
    <3>1. CASE base = b
      BY <1>1, <1>2, <3>1, OldIsInTarget
    <3>2. CASE base = ws[t].base
      <4>1. base \in Commits
        BY <1>1, <3>2, LogFacts
      <4>2. Anc(branch[t]) \subseteq Anc(b)
        BY <1>1, <1>2, <1>4, LogFacts
      <4>3. base \in Anc(b) /\ base # 0
        BY <1>1, <3>2, <4>2
      <4> QED BY <1>1, <3>2, <4>1, <4>3, TicketFacts
    <3> QED BY <3>1, <3>2
  <2> HIDE DEF b
  <2>3. /\ wt \in WorkspaceSet /\ wt.there /\ wt.base = base /\ wt.tree = Tree(b)
        /\ ws' = [ws EXCEPT ![t] = wt]
    BY <1>1, <1>2, <1>4, <2>2 DEF WorkspaceSet
  <2> HIDE DEF k, wt
  <2>4. Stages(b, wt, k, sc[t])
    BY <1>1, <1>2, <2>1, <2>2, <2>3 DEF Stages, CardFits
  <2>5. TipHas(b, wrote[t]) /\ TreeHas(b, wt, wrote[t])
    BY <1>1, OldIsInTarget DEF TreeHas
  <2>6. Preserved(b, wt, k, wrote[t])
    <3> SUFFICES ASSUME policy.reuse = "preserve" /\ policy.commit, NEW p \in Paths \ Excluded
                 PROVE  wt.tree[p] = wrote[t][p] \/ InTarget(wrote[t][p], p)
      BY <2>1, <2>3 DEF Preserved
    <3>1. branch[t] \in Anc(target)
      BY <1>1, <1>2, <1>4, LogFacts
    <3>2. Tree(branch[t])[p] = wrote[t][p] \/ InTarget(wrote[t][p], p)
      BY <1>1, TicketFacts DEF Preserved
    <3> QED BY <3>1, <3>2, OldIsInTarget
  <2>7. ASSUME NEW u \in Tickets \ {t} PROVE Apart(b, wt, wrote[u])
    BY <1>1, <2>3, OldIsInTarget DEF Apart
  <2> QED BY <1>1, <1>2, <1>4, <2>1, <2>2, <2>3, <2>4, <2>5, <2>6, <2>7, BranchStep
<1>5. CASE FastForward(t)
  <2>1. ws' = [ws EXCEPT ![t] = [ws[t] EXCEPT !.tree = Tree(b), !.base = b]]
    BY <1>5, TicketFacts DEF FastForward, DeliveryInv, DeliveryTyped
  <2> QED BY <1>4, <1>5, <2>1 DEF FastForward
<1>6. CASE FastForwardFails(t) /\ ~UNCHANGED <<branch, ws>>
  <2>1. ws[t] = [there |-> ws[t].there, tree |-> ws[t].tree, base |-> ws[t].base]
    BY <1>1 DEF WorkspaceSet
  <2>2. ws' = [ws EXCEPT ![t] = [ws[t] EXCEPT !.tree = Tree(b), !.base = ws[t].base]]
    BY <1>6, <2>1 DEF FastForwardFails
  <2> QED BY <1>4, <1>6, <2>2 DEF FastForwardFails
<1> QED BY <1>3, <1>5, <1>6

(* The commit a snapshot is squashed onto lies between the fork point and  *)
(* the branch, and is a delivered one or the fork point itself.            *)
LEMMA SquashFacts ==
  ASSUME DeliveryInv, NEW t \in Tickets, ws[t].there
  PROVE  /\ SquashOnto(t) \in Commits /\ SquashOnto(t) # 0 /\ SquashOnto(t) \in Anc(branch[t])
         /\ ws[t].base \in Anc(SquashOnto(t)) /\ TipHas(SquashOnto(t), wrote[t])
         /\ branch[t] \in Commits /\ Anc(SquashOnto(t)) \subseteq Anc(branch[t])
         /\ SquashOnto(t) = SquashBase(t)
<1> DEFINE mb == MergeBase(branch[t], target)
<1>1. /\ branch[t] \in Commits /\ target \in Commits /\ LogTyped /\ ws[t].base \in Anc(branch[t])
      /\ ws[t].base # 0 /\ TipHas(ws[t].base, wrote[t])
  BY TicketFacts DEF Stages, CardFits
<1>2. mb \in Anc(branch[t]) /\ mb \in Anc(target) /\ mb \in Commits
  BY <1>1, BaseFacts
<1>3. SquashOnto(t) = SquashBase(t)
  BY DEF SquashOnto
<1>4. \/ SquashBase(t) = mb /\ ws[t].base \in Anc(mb)
      \/ SquashBase(t) = ws[t].base
  BY DEF SquashBase
<1> HIDE DEF mb
<1>5. TipHas(mb, wrote[t])
  BY <1>2, OldIsInTarget
<1>6. ws[t].base \in Commits /\ ws[t].base \in Anc(ws[t].base) /\ Anc(ws[t].base) \subseteq Anc(branch[t])
      /\ Anc(mb) \subseteq Anc(branch[t])
  BY <1>1, <1>2, LogFacts
<1>7. 0 \notin Commits
  BY LogFacts, <1>1 DEF Commits
<1> QED BY <1>1, <1>2, <1>3, <1>4, <1>5, <1>6, <1>7

LEMMA SnapshotFailsSafe ==
  ASSUME DeliveryInv, NEW t \in Tickets, SnapshotFails(t)
  PROVE  DeliveryInv'
<1>0. PICK live \in BOOLEAN :
        tk' = [tk EXCEPT ![t].at = "idle", ![t].state = "Blocked", ![t].paused = TRUE,
                         ![t].live = live]
  BY DEF SnapshotFails
<1> DEFINE k == [tk[t] EXCEPT !.at = "idle", !.state = "Blocked", !.paused = TRUE, !.live = live]
<1>1. /\ UNCHANGED <<log, target, lock, ws, sc, policy, wrote, ops, edits>> /\ failures' \in Nat
      /\ sc[t].pc = "off" /\ tk[t].at \in Busy /\ ws[t] \in WorkspaceSet /\ ws[t].there
      /\ LogTyped /\ ws[t].base # 0 /\ tk[t].late = {}
  BY HostFacts, TicketFacts, FaultyIsNat DEF SnapshotFails, Stages, CardFits, Busy
<1>2. /\ k \in TicketSet /\ k.at = "idle" /\ k.state = "Blocked" /\ tk' = [tk EXCEPT ![t] = k]
      /\ SameAgent(k, tk[t]) /\ k.late = {}
  <2>1. tk[t] \in TicketSet
    BY TicketFacts
  <2>2. tk' = [tk EXCEPT ![t] = k]
    BY <1>0, <2>1 DEF DeliveryInv, DeliveryTyped
  <2>3. k \in TicketSet
    BY <1>0, <2>1 DEF TicketSet
  <2> QED BY <1>1, <2>1, <2>2, <2>3 DEF TicketSet, SameAgent
<1> HIDE DEF k
<1>3. CASE branch' = branch
  BY <1>1, <1>2, <1>3, RestStep DEF git
<1>4. CASE branch' = [branch EXCEPT ![t] = SquashOnto(t)]
  <2> DEFINE b == SquashOnto(t)
  <2>1. /\ b \in Commits /\ b # 0 /\ ws[t].base \in Anc(b) /\ TipHas(b, wrote[t])
        /\ branch[t] \in Commits /\ Anc(b) \subseteq Anc(branch[t])
    BY <1>1, SquashFacts
  <2>2. \A v, p : Below(b, v, p) => Below(branch[t], v, p)
    BY <1>1, <2>1, LogFacts DEF Below, Commits
  <2> HIDE DEF b
  <2>3. Stages(b, ws[t], k, sc[t])
    BY <1>1, <1>2, <2>1 DEF Stages, CardFits, Busy
  <2>4. TreeHas(b, ws[t], wrote[t])
    BY <2>2, TicketFacts DEF TreeHas
  <2>5. Preserved(b, ws[t], k, wrote[t])
    BY <1>1, <1>2, TicketFacts DEF Preserved
  <2>6. ASSUME NEW u \in Tickets \ {t} PROVE Apart(b, ws[t], wrote[u])
    BY <2>2 DEF Apart, DeliveryInv
  <2>7. ws' = [ws EXCEPT ![t] = ws[t]] /\ TipHas(ws[t].base, wrote[t])
        /\ branch' = [branch EXCEPT ![t] = b]
    BY <1>1, <1>4, TicketFacts DEF b
  <2> QED BY <1>1, <1>2, <2>1, <2>3, <2>4, <2>5, <2>6, <2>7, BranchStep
<1> QED BY <1>3, <1>4 DEF SnapshotFails

LEMMA RemoveWorkspaceSafe ==
  ASSUME DeliveryInv, NEW t \in Tickets, RemoveWorkspace(t)
  PROVE  DeliveryInv'
<1> DEFINE k == [tk[t] EXCEPT !.at = "idle"]
<1>1. /\ UNCHANGED <<git, lock, sc, policy, wrote, ops, edits>> /\ failures' \in Nat
      /\ sc[t].pc = "off" /\ tk[t].at = "remove" /\ branch[t] \in Commits \cup {0}
      /\ tk[t].state \in {"Done", "Cancelled"}
      /\ branch' = [branch EXCEPT ![t] = branch[t]] /\ ws' = [ws EXCEPT ![t] = NoWorkspace]
  BY TicketFacts DEF RemoveWorkspace, Stages, CardFits, Busy, git
<1>2. /\ k \in TicketSet /\ k.at = "idle" /\ k.state = tk[t].state /\ tk' = [tk EXCEPT ![t] = k]
      /\ k.late = tk[t].late /\ k.kept = tk[t].kept /\ k.stray = tk[t].stray
  BY MoveFacts DEF RemoveWorkspace, SameAgent
<1> HIDE DEF k
<1>3. NoWorkspace \in WorkspaceSet /\ NoWorkspace.there = FALSE
  <2>1. edits \in Nat
    BY TicketFacts
  <2>2. Blank \in Versions
    BY <2>1 DEF Blank, Versions
  <2> QED BY <2>2 DEF NoWorkspace, WorkspaceSet
<1>4. Stages(branch[t], NoWorkspace, k, sc[t])
  BY <1>1, <1>2, <1>3 DEF Stages, CardFits, Busy
<1>5. TipHas(branch[t], wrote[t]) /\ TreeHas(branch[t], NoWorkspace, wrote[t])
  BY <1>3, TicketFacts DEF TreeHas
<1>6. Preserved(branch[t], NoWorkspace, k, wrote[t])
  BY <1>1, <1>2, <1>3, TicketFacts DEF Preserved
<1>7. k.state = "Done" => k.stray \/ Delivered(branch[t], wrote[t])
  BY <1>1, <1>2, TicketFacts DEF Merges
<1>8. ASSUME NEW u \in Tickets \ {t} PROVE Apart(branch[t], NoWorkspace, wrote[u])
  BY <1>3 DEF Apart, DeliveryInv
<1> QED BY <1>1, <1>2, <1>3, <1>4, <1>5, <1>6, <1>7, <1>8, BranchStep DEF git

LEMMA DeleteBranchSafe ==
  ASSUME DeliveryInv, NEW t \in Tickets, DeleteBranch(t)
  PROVE  DeliveryInv'
<1>1. /\ UNCHANGED <<log, target, lock, sc, policy, wrote, ops, edits>> /\ failures' \in Nat
      /\ sc[t].pc = "off" /\ tk[t].at = "idle" /\ ~ws[t].there /\ branch[t] \in Anc(target)
      /\ ws[t] \in WorkspaceSet /\ tk[t] \in TicketSet
      /\ branch' = [branch EXCEPT ![t] = 0] /\ ws' = [ws EXCEPT ![t] = ws[t]]
      /\ tk' = [tk EXCEPT ![t] = tk[t]]
  BY TicketFacts DEF DeleteBranch
<1>2. Stages(0, ws[t], tk[t], sc[t])
  BY <1>1, TicketFacts DEF Stages, CardFits, Busy
<1>3. TipHas(0, wrote[t]) /\ TreeHas(0, ws[t], wrote[t]) /\ Delivered(0, wrote[t])
  BY DEF TipHas, TreeHas, Delivered, Below
<1>4. Preserved(0, ws[t], tk[t], wrote[t])
  BY <1>1, TicketFacts, OldIsInTarget DEF Preserved
<1>5. ASSUME NEW u \in Tickets \ {t} PROVE Apart(0, ws[t], wrote[u])
  BY <1>1 DEF Apart, Below
<1> QED BY <1>1, <1>2, <1>3, <1>4, <1>5, BranchStep

-----------------------------------------------------------------------------
(* Steps that add a commit.                                                *)

(* The history grows by one commit, and the target moves to it or stays.   *)
LEMMA CommitGrows ==
  ASSUME DeliveryInv, NEW tree \in Versions, NEW P \in SUBSET Commits, P # {},
         log' = Commit(tree, P), UNCHANGED <<edits, policy>>,
         NEW n \in Nat, n = NextCommit,
         target' = target \/ (target' = n /\ target \in P)
  PROVE  /\ Grows /\ Commits' = Commits \cup {n} /\ n # 0 /\ n \notin Commits
         /\ Tree(n)' = tree /\ Anc(n)' = {n} \cup (UNION {Anc(c) : c \in P})
         /\ Versions' = Versions
<1>1. LogTyped /\ edits \in Nat /\ target \in Commits /\ Len(log) \in Nat
  BY LogFacts DEF DeliveryInv, DeliveryTyped
<1>2. /\ LogTyped' /\ Commits' = Commits \cup {n}
      /\ \A c \in Commits : log'[c] = log[c]
      /\ log'[n].tree = tree
      /\ log'[n].anc = {n} \cup (UNION {Anc(c) : c \in P})
  BY <1>1, CommitFacts
<1>3. Tree(n)' = tree /\ Anc(n)' = {n} \cup (UNION {Anc(c) : c \in P})
  BY <1>2 DEF Tree, Anc
<1>4. n # 0 /\ n \notin Commits
  BY <1>1 DEF NextCommit, Commits
<1>5. target' \in Commits' /\ Anc(target) \subseteq log'[target'].anc
  <2>1. CASE target' = target
    BY <1>1, <1>2, <2>1 DEF Anc
  <2>2. CASE target' = n /\ target \in P
    BY <1>2, <2>2
  <2> QED BY <2>1, <2>2
<1> QED BY <1>1, <1>2, <1>3, <1>4, <1>5 DEF Grows, Versions

(* A ticket's branch moves to a new commit, onto one that it has, with the *)
(* files of the worktree (or, of excluded paths, of that commit).  If its  *)
(* merge is past reading the branch, the card says so.                     *)
LEMMA BranchCommit ==
  ASSUME DeliveryInv, NEW t \in Tickets, ws[t].there,
         NEW q \in Commits, q \in Anc(branch[t]), ws[t].base \in Anc(q), NEW tree \in Versions,
         log' = Commit(tree, {q}), NEW n \in Nat, n = NextCommit,
         branch' = [branch EXCEPT ![t] = n],
         UNCHANGED <<target, lock, ws, policy, wrote, ops, edits, failures>>,
         NEW s \in ScriptSet, sc' = [sc EXCEPT ![t] = s],
         NEW k \in TicketSet, tk' = [tk EXCEPT ![t] = k], CardFits(k, s), k.late = {},
         s.pc \in {"off", "preflight"} \/ (s = sc[t] /\ (k.stray \/ BeforeMerge(t))),
         \A p \in Paths : tree[p] = ws[t].tree[p] \/ (p \in Excluded /\ tree[p] = Tree(q)[p]),
         k.at \notin {"planned", "confirmed"},
         k.at = "remove" => k.stray \/ k.state # "Done"
  PROVE  DeliveryInv'
<1>0. PICK wt, r : wt = ws[t] /\ r = wrote[t]
  OBVIOUS
<1>1. /\ Grows /\ Commits' = Commits \cup {n} /\ n # 0 /\ n \notin Commits
      /\ Tree(n)' = tree /\ Anc(n)' = {n} \cup Anc(q) /\ Versions' = Versions
  BY CommitGrows
<1>2. branch[t] \in Commits
  <2>1. branch[t] \in Commits \cup {0} /\ branch[t] # 0
    BY TicketFacts DEF Stages, CardFits
  <2> QED BY <2>1
<1>3. /\ LogTyped /\ target \in Commits /\ wt \in WorkspaceSet /\ r \in Versions
      /\ wt.base # 0 /\ failures \in Nat
  BY <1>0, TicketFacts DEF Stages, CardFits
<1>4. wt.base \in Commits
  BY <1>0, <1>3, LogFacts
<1>5. Anc(q) \subseteq Anc(branch[t]) /\ q \in Anc(q) /\ Anc(q) \subseteq Commits
  BY <1>2, <1>3, LogFacts
<1>6. \A c \in Commits : Tree(c)' = Tree(c) /\ Anc(c)' = Anc(c)
  BY <1>1, <1>3, Carries
<1>7. \A v, p : Below(n, v, p)' => tree[p] = v \/ Below(q, v, p)
  <2>1. \A c \in Anc(q) : Tree(c)' = Tree(c)
    BY <1>5, <1>6
  <2>2. q # 0
    BY <1>3, LogFacts DEF Commits
  <2> QED BY <1>1, <2>1, <2>2 DEF Below
<1>8. \A v, p : Below(q, v, p) => Below(branch[t], v, p)
  BY <1>2, <1>3, <1>5, LogFacts DEF Below, Commits
<1>9. \A v, p : InTarget(v, p) => InTarget(v, p)'
  BY <1>1, <1>3, Carries
<1>10. \A p \in Paths \ Excluded : tree[p] = wt.tree[p]
  BY <1>0
<1>11. \A p \in Paths \ Excluded : Below(n, r[p], p)' => wt.tree[p] = r[p] \/ InTarget(r[p], p)'
  <2>1. \A p \in Paths \ Excluded : Below(branch[t], r[p], p) => wt.tree[p] = r[p] \/ InTarget(r[p], p)
    BY <1>0, TicketFacts DEF TreeHas
  <2> QED BY <1>7, <1>8, <1>9, <1>10, <2>1
<1>12. Preserved(n, wt, k, r)'
  <2>1. \A p \in Paths \ Excluded :
        policy.reuse = "preserve" /\ policy.commit => wt.tree[p] = r[p] \/ InTarget(r[p], p)
    BY <1>0, TicketFacts DEF Preserved
  <2> QED BY <1>0, <1>1, <1>9, <1>10, <2>1 DEF Preserved
<1>13. TipHas(wt.base, r)'
  <2>1. TipHas(wt.base, r)
    BY <1>0, TicketFacts
  <2> QED BY <1>1, <1>3, <1>4, <2>1, Carries DEF TipHas
<1>14. TipHas(n, r)' /\ TreeHas(n, wt, r)'
  BY <1>1, <1>10, <1>11 DEF TipHas, TreeHas
<1>15. k.stray \/ s.pc \notin {"commit", "publish", "sync"}
  BY DEF BeforeMerge
<1>16. Stages(n, wt, k, s)' /\ Merges(n, wt, k, s, r)'
  <2>1. wt.there /\ wt.base \in Anc(n)' /\ n # 0 /\ wt.base # 0
    BY <1>0, <1>1, <1>3
  <2>2. Stages(n, wt, k, s)'
    BY <2>1 DEF Stages, CardFits
  <2>3. Merges(n, wt, k, s, r)'
    BY <2>1, <1>15 DEF Merges
  <2> QED BY <2>2, <2>3
<1>17. Traced(n, wt, k, s, r)'
  BY <1>12, <1>13, <1>14, <1>16 DEF Traced
<1>18. ASSUME NEW u \in Tickets \ {t}
       PROVE  Apart(n, wt, wrote[u])' /\ Apart(branch[u], ws[u], r)'
  <2>1. PICK v, bb, ww : v = wrote[u] /\ bb = branch[u] /\ ww = ws[u]
    OBVIOUS
  <2>2. v = wrote'[u] /\ bb = branch'[u] /\ ww = ws'[u]
    BY <2>1 DEF DeliveryInv, DeliveryTyped
  <2>3. Apart(branch[t], wt, v) /\ Apart(bb, ww, r) /\ bb \in Commits \cup {0}
    BY <1>0, <2>1 DEF DeliveryInv, DeliveryTyped
  <2>4. Apart(bb, ww, r)'
    BY <1>1, <1>3, <2>3, ApartCarries
  <2>5. \A p \in Paths : Tree(q)[p] = v[p] => Below(branch[t], v[p], p)
    BY <1>2, <1>3, <1>5, LogFacts DEF Below, Commits
  <2>6. ASSUME NEW p \in Paths, Below(n, v[p], p)' PROVE InTarget(v[p], p)
    <3>1. tree[p] = v[p] \/ Below(branch[t], v[p], p)
      BY <1>7, <1>8, <2>6
    <3>2. wt.tree[p] = v[p] => InTarget(v[p], p)
      BY <1>0, <2>3 DEF Apart
    <3>3. Below(branch[t], v[p], p) => InTarget(v[p], p)
      BY <2>3 DEF Apart
    <3> QED BY <1>0, <2>5, <3>1, <3>2, <3>3
  <2>7. Apart(n, wt, v)'
    BY <1>9, <2>3, <2>6 DEF Apart
  <2> QED BY <2>2, <2>4, <2>7
<1>19. /\ host' \in [tree : Versions, index : Versions]' /\ mergeHead' \in Commits' \cup {0, -1}
       /\ mergeHead' = mergeHead
  BY <1>1, HostFacts DEF ops
<1>20. Locks'
  <2>1. \A u \in Tickets \ {t} : branch'[u] = branch[u] /\ tk'[u] = tk[u]
    BY DEF DeliveryInv, DeliveryTyped
  <2>2. tk'[t] = k /\ Commits \subseteq Commits'
    BY <1>1 DEF DeliveryInv, DeliveryTyped
  <2>3. s.pc \in Locked => lock = t
    BY DEF DeliveryInv, Locks, Locked
  <2>4. s.pc = "commit" => mergeHead \in Commits /\ k.stray
    BY <1>15 DEF DeliveryInv, Locks
  <2> QED BY <1>19, <2>1, <2>2, <2>3, <2>4, LocksAfter
<1>21. /\ n \in Commits' \cup {0} /\ wt \in WorkspaceSet' /\ k \in TicketSet' /\ s \in ScriptSet'
       /\ r \in Versions' /\ failures' \in Nat
  BY <1>1, <1>3, SetsGrow
<1>22. /\ ws' = [ws EXCEPT ![t] = wt] /\ wrote' = [wrote EXCEPT ![t] = r]
  BY <1>0, TicketFacts DEF DeliveryInv, DeliveryTyped
<1> QED BY <1>1, <1>17, <1>18, <1>19, <1>20, <1>21, <1>22, Step

(* The branch moves down to a commit it has, and the files of that commit  *)
(* are those of the worktree as far as they are the ticket's.              *)
LEMMA BranchResets ==
  ASSUME DeliveryInv, NEW t \in Tickets, sc[t].pc = "off", ws[t].there,
         NEW k \in TicketSet, tk' = [tk EXCEPT ![t] = k],
         NEW s \in ScriptSet, sc' = [sc EXCEPT ![t] = s], s.pc \in {"off", "preflight"},
         CardFits(k, s), k.late = {}, branch' = [branch EXCEPT ![t] = SquashOnto(t)],
         UNCHANGED <<log, target, lock, ws, policy, wrote, ops, edits>>, failures' \in Nat,
         k.at \notin {"planned", "confirmed"},
         k.at = "remove" => k.state # "Done",
         \/ k.at \notin {"history", "merge", "remove"}
         \/ \A p \in Paths \ Excluded : Tree(SquashOnto(t))[p] = ws[t].tree[p]
  PROVE  DeliveryInv'
<1> DEFINE b == SquashOnto(t)
<1>1. /\ b \in Commits /\ b # 0 /\ ws[t].base \in Anc(b) /\ TipHas(b, wrote[t])
      /\ branch[t] \in Commits /\ Anc(b) \subseteq Anc(branch[t])
  BY SquashFacts
<1>2. \A v, p : Below(b, v, p) => Below(branch[t], v, p)
  BY <1>1, LogFacts, HostFacts DEF Below, Commits
<1>3. \/ k.at \notin {"history", "merge", "remove"}
      \/ \A p \in Paths \ Excluded : Tree(b)[p] = ws[t].tree[p]
  OBVIOUS
<1>4. branch' = [branch EXCEPT ![t] = b]
  OBVIOUS
<1> HIDE DEF b
<1>5. Stages(b, ws[t], k, s)
  BY <1>1, TicketFacts DEF Stages, CardFits
<1>6. TreeHas(b, ws[t], wrote[t])
  BY <1>2, TicketFacts DEF TreeHas
<1>7. Preserved(b, ws[t], k, wrote[t])
  BY <1>1, <1>3, TicketFacts DEF Preserved
<1>8. ASSUME NEW u \in Tickets \ {t} PROVE Apart(b, ws[t], wrote[u])
  BY <1>2 DEF Apart, DeliveryInv
<1>9. ws' = [ws EXCEPT ![t] = ws[t]] /\ TipHas(ws[t].base, wrote[t]) /\ ws[t] \in WorkspaceSet
  BY TicketFacts
<1> QED BY <1>1, <1>4, <1>5, <1>6, <1>7, <1>8, <1>9, BranchMove

LEMMA AgentCommitSafe ==
  ASSUME DeliveryInv, NEW t \in Tickets, AgentCommit(t)
  PROVE  DeliveryInv'
<1>1. /\ ws[t].there /\ branch[t] # 0 /\ ws[t].base \in Anc(branch[t])
      /\ branch[t] \in Commits \cup {0} /\ tk[t] \in TicketSet /\ sc[t] \in ScriptSet
      /\ sc' = [sc EXCEPT ![t] = sc[t]] /\ ws[t] \in WorkspaceSet /\ LogTyped
      /\ CardFits(tk[t], sc[t]) /\ tk[t].at \in {"running", "idle", "merge", "remove"}
      /\ ~tk[t].live => tk[t].at = "running"
  BY TicketFacts DEF AgentCommit, Writes, Stages, CardFits
<1>2. branch[t] \in Commits /\ branch[t] \in Anc(branch[t]) /\ ws[t].tree \in Versions
  BY <1>1, LogFacts DEF WorkspaceSet
<1>3. PICK n \in Nat : n = NextCommit
  BY <1>1, LogFacts DEF NextCommit
<1>4. PICK q, tree : q = branch[t] /\ tree = ws[t].tree
  OBVIOUS
<1>5. /\ log' = Commit(tree, {q}) /\ branch' = [branch EXCEPT ![t] = n]
      /\ UNCHANGED <<target, lock, ws, policy, wrote, ops, edits, failures>>
  BY <1>3, <1>4 DEF AgentCommit
<1>6. PICK s : s = sc[t]
  OBVIOUS
<1>7. CASE tk[t].live
  <2>1. PICK stray \in BOOLEAN : stray = (tk[t].stray \/ ~BeforeMerge(t))
    BY <1>1 DEF TicketSet
  <2>2. PICK c : c = [tk[t] EXCEPT !.late = {}, !.stray = stray]
    OBVIOUS
  <2>3. /\ c \in TicketSet /\ c.late = {} /\ c.stray = stray /\ c.at = tk[t].at
        /\ c.state = tk[t].state /\ c.live = tk[t].live
    BY <1>1, <2>1, <2>2 DEF TicketSet
  <2>4. tk' = [tk EXCEPT ![t] = c]
    BY <1>1, <1>7, <2>1, <2>2 DEF AgentCommit, DeliveryInv, DeliveryTyped
  <2>5. CardFits(c, s)
    BY <1>1, <1>6, <2>3 DEF CardFits
  <2>6. s.pc = "off" => c.stray
    BY <1>6, <2>1, <2>3 DEF BeforeMerge
  <2>7. c.stray \/ BeforeMerge(t)
    BY <2>1, <2>3
  <2>8. c.at = "remove" => c.stray
    BY <1>1, <1>6, <2>3, <2>5, <2>6 DEF CardFits, Busy
  <2> QED BY <1>1, <1>2, <1>3, <1>4, <1>5, <1>6, <2>3, <2>4, <2>5, <2>7, <2>8, BranchCommit
<1>8. CASE ~tk[t].live
  <2>1. PICK k : k = tk[t]
    OBVIOUS
  <2>2. k \in TicketSet /\ tk' = [tk EXCEPT ![t] = k] /\ k.at = "running" /\ CardFits(k, s)
    BY <1>1, <1>6, <1>8, <2>1, TicketFacts DEF AgentCommit
  <2>3. k.late = {} /\ s.pc = "off"
    BY <2>2 DEF CardFits, Busy
  <2> QED BY <1>1, <1>2, <1>3, <1>4, <1>5, <1>6, <2>2, <2>3, BranchCommit
<1> QED BY <1>7, <1>8

(* The snapshot at the end of a run, or before a clean-up.                 *)
LEMMA SnapshotSafe ==
  ASSUME DeliveryInv, NEW t \in Tickets, sc[t].pc = "off", ws[t].there, Snapshot(t),
         NEW k \in TicketSet, tk' = [tk EXCEPT ![t] = k],
         NEW s \in ScriptSet, sc' = [sc EXCEPT ![t] = s], s.pc \in {"off", "preflight"},
         CardFits(k, s), k.late = {},
         UNCHANGED <<target, lock, ws, policy, wrote, ops, edits, failures>>,
         k.at \notin {"planned", "confirmed"},
         k.at = "remove" => k.state # "Done"
  PROVE  DeliveryInv'
<1>1. PICK q : q = SquashOnto(t)
  OBVIOUS
<1>2. /\ q \in Commits /\ q \in Anc(branch[t]) /\ ws[t].base \in Anc(q)
      /\ ws[t] \in WorkspaceSet /\ LogTyped /\ failures \in Nat /\ edits \in Nat
  BY <1>1, SquashFacts, TicketFacts
<1>3. ws[t].tree \in Versions /\ Tree(q) \in Versions
  BY <1>2, LogFacts DEF WorkspaceSet
<1>4. PICK tree : tree = SnapshotTree(t)
  OBVIOUS
<1>5. /\ tree \in Versions
      /\ \A p \in Paths : tree[p] = ws[t].tree[p] \/ (p \in Excluded /\ tree[p] = Tree(q)[p])
      /\ \A p \in Paths \ Excluded : tree[p] = ws[t].tree[p]
  BY <1>1, <1>3, <1>4 DEF SnapshotTree, Versions
<1>6. CASE policy.commit /\ NothingToCommit(t)
  <2>1. branch' = [branch EXCEPT ![t] = SquashOnto(t)] /\ UNCHANGED log
    BY <1>6 DEF Snapshot, MakeSnapshot
  <2>2. \A p \in Paths \ Excluded : Tree(SquashOnto(t))[p] = ws[t].tree[p]
    BY <1>4, <1>5, <1>6 DEF NothingToCommit
  <2> QED BY <1>2, <2>1, <2>2, BranchResets
<1>7. CASE policy.commit /\ ~NothingToCommit(t)
  <2>1. PICK n \in Nat : n = NextCommit
    BY <1>2, LogFacts DEF NextCommit
  <2>2. log' = Commit(tree, {q}) /\ branch' = [branch EXCEPT ![t] = n]
    BY <1>1, <1>4, <1>7, <2>1 DEF Snapshot, MakeSnapshot
  <2> QED BY <1>2, <1>5, <2>1, <2>2, BranchCommit
<1>8. CASE ~policy.commit
  <2>1. PICK b, wt : b = branch[t] /\ wt = ws[t]
    OBVIOUS
  <2>2. /\ UNCHANGED log /\ branch' = [branch EXCEPT ![t] = b] /\ ws' = [ws EXCEPT ![t] = wt]
        /\ b \in Commits \cup {0} /\ wt \in WorkspaceSet /\ wt.there
    BY <1>8, <2>1, TicketFacts DEF Snapshot
  <2>3. /\ TipHas(b, wrote[t]) /\ TreeHas(b, wt, wrote[t]) /\ TipHas(wt.base, wrote[t])
        /\ b # 0 /\ wt.base # 0 /\ wt.base \in Anc(b)
    BY <2>1, TicketFacts DEF Stages
  <2>4. Stages(b, wt, k, s)
    BY <2>2, <2>3 DEF Stages, CardFits
  <2>5. Preserved(b, wt, k, wrote[t])
    BY <1>8 DEF Preserved
  <2>6. \A u \in Tickets \ {t} : Apart(b, wt, wrote[u])
    BY <2>1 DEF DeliveryInv
  <2> QED BY <1>2, <2>2, <2>3, <2>4, <2>5, <2>6, BranchMove
<1> QED BY <1>6, <1>7, <1>8

LEMMA RunEndsSafe ==
  ASSUME DeliveryInv, NEW t \in Tickets,
         ReapWorkspace(t) \/ \E state \in {"Todo", "Done", "Cancelled"} : WorkerExit(t, state)
  PROVE  DeliveryInv'
<1>1. /\ tk[t] \in TicketSet /\ sc[t].pc = "off" /\ ws[t].there /\ Snapshot(t)
      /\ UNCHANGED <<target, lock, ws, sc, policy, wrote, ops, edits, failures>>
      /\ tk[t].at = "reap" => tk[t].state = "Cancelled"
      /\ ~tk[t].live /\ tk[t].late = {}
  BY TicketFacts DEF ReapWorkspace, WorkerExit, Stages, CardFits, Busy
<1>2. PICK s : s = sc[t]
  OBVIOUS
<1>3. s \in ScriptSet /\ sc' = [sc EXCEPT ![t] = s] /\ s.pc = "off"
  BY <1>1, <1>2, TicketFacts
<1>4. CASE ReapWorkspace(t)
  <2> DEFINE k == [tk[t] EXCEPT !.at = "remove"]
  <2>1. /\ k \in TicketSet /\ k.at = "remove" /\ k.state = tk[t].state /\ tk' = [tk EXCEPT ![t] = k]
        /\ k.live = FALSE /\ k.late = {}
    BY <1>1, <1>4, MoveFacts DEF ReapWorkspace, Busy, SameAgent
  <2>2. k.state = "Cancelled"
    BY <1>1, <1>4, <2>1 DEF ReapWorkspace
  <2> HIDE DEF k
  <2>3. CardFits(k, s)
    BY <1>3, <2>1, <2>2 DEF CardFits
  <2> QED BY <1>1, <1>3, <2>1, <2>2, <2>3, SnapshotSafe
<1>5. CASE \E state \in {"Todo", "Done", "Cancelled"} : WorkerExit(t, state)
  <2>1. PICK state \in {"Todo", "Done", "Cancelled"} : WorkerExit(t, state)
    BY <1>5
  <2> DEFINE k == [tk[t] EXCEPT !.at = AfterSnapshot(state), !.state = state]
  <2>2. /\ AfterSnapshot(state) \in {"history", "remove", "idle"}
        /\ AfterSnapshot(state) = "remove" => state = "Cancelled"
        /\ AfterSnapshot(state) = "history" => state = "Done"
    BY <2>1 DEF AfterSnapshot
  <2>3. /\ k \in TicketSet /\ k.at = AfterSnapshot(state) /\ k.state = state
        /\ k.live = FALSE /\ k.late = {}
    BY <1>1, <2>1, <2>2 DEF TicketSet, Busy
  <2>4. tk' = [tk EXCEPT ![t] = k]
    BY <1>1, <2>1 DEF WorkerExit, DeliveryInv, DeliveryTyped
  <2> HIDE DEF k
  <2>5. CardFits(k, s)
    BY <1>3, <2>2, <2>3 DEF CardFits
  <2> QED BY <1>1, <1>3, <2>2, <2>3, <2>4, <2>5, SnapshotSafe
<1> QED BY <1>4, <1>5

(* Reconcile takes the snapshot of a worker it has cancelled and goes on.  *)
LEMMA ReconcileSafe ==
  ASSUME DeliveryInv, NEW t \in Tickets, NEW state \in {"Done", "Cancelled"}, Reconcile(t, state)
  PROVE  DeliveryInv'
<1>1. /\ tk[t] \in TicketSet /\ sc[t].pc = "off" /\ sc[t] \in ScriptSet /\ ws[t].there
      /\ Snapshot(t) /\ tk[t].late = {}
      /\ UNCHANGED <<target, lock, ws, policy, wrote, ops, edits, failures>>
  BY TicketFacts DEF Reconcile, Stages, CardFits, Busy
<1>2. PICK at \in {"merge", "remove"} : at = IF state = "Done" THEN "merge" ELSE "remove"
  OBVIOUS
<1>3. PICK k : k = [tk[t] EXCEPT !.at = at, !.state = state, !.live = TRUE]
  OBVIOUS
<1>4. /\ k \in TicketSet /\ k.at = at /\ k.state = state /\ k.live = TRUE /\ k.late = {}
  BY <1>1, <1>3 DEF TicketSet, Busy
<1>5. tk' = [tk EXCEPT ![t] = k]
  BY <1>1, <1>2, <1>3 DEF Reconcile, DeliveryInv, DeliveryTyped
<1>6. PICK s : s = IF state = "Done" THEN [NoScript EXCEPT !.pc = "preflight"] ELSE sc[t]
  OBVIOUS
<1>7. /\ s \in ScriptSet /\ sc' = [sc EXCEPT ![t] = s]
      /\ state = "Done" => s.pc = "preflight" /\ s.by = "exit"
      /\ state # "Done" => s.pc = "off"
  <2>1. edits \in Nat
    BY TicketFacts
  <2>2. Blank \in Versions
    BY <2>1 DEF Blank, Versions
  <2>3. [NoScript EXCEPT !.pc = "preflight"] \in ScriptSet
    BY <2>2 DEF NoScript, ScriptSet
  <2> QED BY <1>1, <1>6, <2>3, TicketFacts DEF Reconcile, NoScript
<1>8. CardFits(k, s)
  BY <1>2, <1>4, <1>7 DEF CardFits, Busy
<1> QED BY <1>1, <1>2, <1>4, <1>5, <1>7, <1>8, SnapshotSafe

LEMMA CommitMergeSafe ==
  ASSUME DeliveryInv, NEW t \in Tickets, CommitMerge(t)
  PROVE  DeliveryInv'
<1>1. PICK b, m, wt, k, r, tree, n, s :
        /\ b = branch[t] /\ m = mergeHead /\ wt = ws[t] /\ k = tk[t] /\ r = wrote[t]
        /\ tree = sc[t].tree
        /\ n = NextCommit /\ s = [sc[t] EXCEPT !.pc = "publish"]
  OBVIOUS
<1>2. /\ sc[t].pc = "commit" /\ sc[t] \in ScriptSet /\ wt \in WorkspaceSet /\ k \in TicketSet
      /\ r \in Versions /\ target \in Commits /\ LogTyped /\ n \in Nat /\ failures \in Nat
  BY <1>1, TicketFacts, LogFacts DEF CommitMerge, NextCommit
<1>3. lock = t /\ b \in Commits /\ m \in Commits /\ (k.stray \/ m = b)
  BY <1>1, <1>2, HolderFacts DEF Locked
<1>4. /\ s \in ScriptSet /\ s.pc = "publish" /\ s.by = sc[t].by /\ tree \in Versions
      /\ sc' = [sc EXCEPT ![t] = s]
  BY <1>1, <1>2 DEF ScriptSet, Locked, CommitMerge, Script
<1>5. /\ log' = Commit(tree, {target, m}) /\ target' = n /\ mergeHead' = 0
      /\ UNCHANGED <<branch, host, lock, ws, tk, policy, wrote, edits, failures>>
  BY <1>1, <1>3 DEF CommitMerge
<1>6. /\ Grows /\ Commits' = Commits \cup {n} /\ n # 0 /\ n \notin Commits
      /\ Tree(n)' = tree /\ Anc(n)' = {n} \cup (UNION {Anc(c) : c \in {target, m}})
      /\ Versions' = Versions
  BY <1>2, <1>3, <1>4, <1>5, <1>1, CommitGrows
<1>7. \A c \in Commits : Tree(c)' = Tree(c)
  BY <1>2, <1>6, Carries
<1>8. \A v, p : Below(m, v, p) => InTarget(v, p)'
  <2>1. Anc(m) \subseteq Commits
    BY <1>2, <1>3, LogFacts
  <2>2. Anc(m) \subseteq Anc(target)'
    <3>1. Anc(target)' = Anc(n)'
      BY <1>5 DEF Anc
    <3> QED BY <1>6, <3>1
  <2> QED BY <1>7, <2>1, <2>2 DEF Below, InTarget
<1>9. k.stray \/ Delivered(b, r)'
  BY <1>2, <1>3, <1>6, <1>8, Carries DEF Delivered
<1>10. Traced(b, wt, k, s, r)'
  <2>1. PICK ss : ss = sc[t]
    OBVIOUS
  <2>2. Traced(b, wt, k, ss, r)
    BY <1>1, <2>1 DEF DeliveryInv
  <2>3. Traced(b, wt, k, ss, r)'
    BY <1>2, <1>3, <1>6, <2>2, SoundCarries
  <2>4. ss.pc = "commit" /\ ss.by = s.by
    BY <1>2, <1>4, <2>1
  <2>5. Stages(b, wt, k, ss)' /\ Merges(b, wt, k, ss, r)' /\ b # 0 /\ k.at \notin Busy
    BY <1>3, <1>2, <2>3, <2>4, LogFacts DEF Traced, Stages, CardFits, Commits
  <2>6. Stages(b, wt, k, s)' /\ Merges(b, wt, k, s, r)'
    BY <1>4, <1>9, <2>4, <2>5 DEF Stages, CardFits, Merges
  <2> QED BY <2>3, <2>6 DEF Traced
<1>11. ASSUME NEW u \in Tickets \ {t}
       PROVE  Apart(b, wt, wrote[u])' /\ Apart(branch[u], ws[u], r)'
  <2>1. PICK v, bb, ww : v = wrote[u] /\ bb = branch[u] /\ ww = ws[u]
    OBVIOUS
  <2>2. Apart(b, wt, v) /\ Apart(bb, ww, r) /\ bb \in Commits \cup {0}
    BY <1>1, <2>1 DEF DeliveryInv, DeliveryTyped
  <2>3. Apart(b, wt, v)' /\ Apart(bb, ww, r)'
    BY <1>2, <1>3, <1>6, <2>2, ApartCarries
  <2>4. v = wrote'[u] /\ bb = branch'[u] /\ ww = ws'[u]
    BY <1>5, <2>1
  <2> QED BY <2>3, <2>4
<1>12. Locks'
  <2>1. \A u \in Tickets \ {t} : branch'[u] = branch[u] /\ tk'[u] = tk[u]
    BY <1>5
  <2>2. Commits \subseteq Commits' /\ lock' = t /\ s.pc # "commit"
    BY <1>3, <1>4, <1>5, <1>6
  <2>3. sc' = [sc EXCEPT ![t] = s] /\ lock \in {t, "free"}
    BY <1>3, <1>4
  <2> QED BY <2>1, <2>2, <2>3, LocksAfter
<1>13. /\ b \in Commits' \cup {0} /\ wt \in WorkspaceSet' /\ k \in TicketSet' /\ s \in ScriptSet'
       /\ r \in Versions' /\ failures' \in Nat
  BY <1>2, <1>3, <1>4, <1>5, <1>6, SetsGrow
<1>14. host' \in [tree : Versions, index : Versions]' /\ mergeHead' \in Commits' \cup {0, -1}
  BY <1>5, <1>6, HostFacts
<1>15. /\ branch' = [branch EXCEPT ![t] = b] /\ ws' = [ws EXCEPT ![t] = wt]
       /\ tk' = [tk EXCEPT ![t] = k] /\ wrote' = [wrote EXCEPT ![t] = r]
  BY <1>1, <1>5, TicketFacts DEF DeliveryInv, DeliveryTyped
<1> QED BY <1>4, <1>6, <1>10, <1>11, <1>12, <1>13, <1>14, <1>15, Step

(* A step of the operator: no ticket changes.                              *)
LEMMA FrameStep ==
  ASSUME DeliveryInv, Grows, UNCHANGED <<branch, ws, tk, sc, wrote>>, failures' \in Nat, Locks',
         host' \in [tree : Versions, index : Versions]', mergeHead' \in Commits' \cup {0, -1}
  PROVE  DeliveryInv'
<1>1. LogTyped /\ DeliveryTyped /\ target \in Commits
  BY DEF DeliveryInv, DeliveryTyped
<1>2. DeliveryTyped'
  <2>1. branch' \in [Tickets -> Commits' \cup {0}]
    BY <1>1 DEF DeliveryTyped, Grows
  <2>2. /\ ws' \in [Tickets -> WorkspaceSet'] /\ wrote' \in [Tickets -> Versions']
        /\ tk' \in [Tickets -> TicketSet'] /\ sc' \in [Tickets -> ScriptSet']
    BY <1>1, SetsGrow DEF DeliveryTyped
  <2> QED BY <1>1, <2>1, <2>2 DEF DeliveryTyped, Grows
<1>3. ASSUME NEW u \in Tickets PROVE Traced(branch[u], ws[u], tk[u], sc[u], wrote[u])'
  <2>1. PICK b, wt, k, s, r :
          b = branch[u] /\ wt = ws[u] /\ k = tk[u] /\ s = sc[u] /\ r = wrote[u]
    OBVIOUS
  <2>2. Traced(b, wt, k, s, r) /\ b \in Commits \cup {0} /\ wt \in WorkspaceSet
    BY <1>1, <2>1 DEF DeliveryInv, DeliveryTyped
  <2>3. Traced(b, wt, k, s, r)'
    BY <1>1, <2>2, SoundCarries
  <2>4. b = branch'[u] /\ wt = ws'[u] /\ k = tk'[u] /\ s = sc'[u] /\ r = wrote'[u]
    BY <2>1
  <2> QED BY <2>3, <2>4
<1>4. ASSUME NEW x \in Tickets, NEW u \in Tickets, x # u PROVE Apart(branch[u], ws[u], wrote[x])'
  <2>1. PICK b, wt, r : b = branch[u] /\ wt = ws[u] /\ r = wrote[x]
    OBVIOUS
  <2>2. Apart(b, wt, r) /\ b \in Commits \cup {0}
    BY <1>1, <1>4, <2>1 DEF DeliveryInv, DeliveryTyped
  <2>3. Apart(b, wt, r)'
    BY <1>1, <2>2, ApartCarries
  <2>4. b = branch'[u] /\ wt = ws'[u] /\ r = wrote'[x]
    BY <2>1
  <2> QED BY <2>3, <2>4
<1>5. LogTyped'
  BY DEF Grows
<1> QED BY <1>2, <1>3, <1>4, <1>5 DEF DeliveryInv

\* With the lock free there is no script to which it matters.
LEMMA FreeLocks ==
  ASSUME DeliveryInv, UNCHANGED <<lock, sc>>, lock = "free"
  PROVE  Locks'
<1>1. ASSUME NEW t \in Tickets PROVE sc[t].pc \notin Locked /\ sc[t].pc # "commit"
  BY <1>1, DeliveryAssumption DEF DeliveryInv, Locks, Locked
<1> QED BY <1>1 DEF Locks

LEMMA HostCommitSafe ==
  ASSUME DeliveryInv, HostCommit
  PROVE  DeliveryInv'
<1>1. PICK P, n, tree : P = {target, mergeHead} \ {0, -1} /\ n = NextCommit /\ tree = host.index
  OBVIOUS
<1>2. /\ target \in Commits /\ LogTyped /\ tree \in Versions /\ failures \in Nat /\ n \in Nat
      /\ mergeHead \in Commits \cup {0, -1}
  BY <1>1, HostFacts, LogFacts DEF NextCommit
<1>3. P \in SUBSET Commits /\ target \in P /\ P # {}
  BY <1>1, <1>2, LogFacts DEF Commits
<1>4. /\ log' = Commit(tree, P) /\ target' = n /\ mergeHead' = 0 /\ lock = "free"
      /\ UNCHANGED <<branch, host, lock, ws, tk, sc, policy, wrote, edits, failures>>
  BY <1>1 DEF HostCommit
<1>5. Grows /\ Versions' = Versions
  BY <1>1, <1>2, <1>3, <1>4, CommitGrows
<1>6. host' \in [tree : Versions, index : Versions]'
  BY <1>4, <1>5, HostFacts
<1> QED BY <1>2, <1>4, <1>5, <1>6, FreeLocks, FrameStep

(* A new version: nobody has it yet.                                       *)
LEMMA MoreVersions ==
  ASSUME DeliveryInv, UNCHANGED <<log, target, policy>>, edits' \in {edits, edits + 1}
  PROVE  /\ Grows /\ Commits' = Commits
         /\ edits + 1 \notin 0..edits /\ (edits' = edits + 1 => edits + 1 \in 0..edits')
<1>1. LogTyped /\ edits \in Nat /\ target \in Commits /\ edits' \in Nat /\ edits <= edits'
  BY DEF DeliveryInv, DeliveryTyped
<1>2. Commits' = Commits
  BY DEF Commits
<1>3. Versions \subseteq Versions'
  <2>1. 0..edits \subseteq 0..edits'
    BY <1>1
  <2> QED BY <2>1 DEF Versions
<1>4. log' \in Seq([tree : Versions', anc : SUBSET Nat])
  <2>1. log \in Seq([tree : Versions, anc : SUBSET Nat])
    BY <1>1 DEF LogTyped
  <2>2. [tree : Versions, anc : SUBSET Nat] \subseteq [tree : Versions', anc : SUBSET Nat]
    BY <1>3
  <2>3. log \in Seq([tree : Versions', anc : SUBSET Nat])
    BY <2>1, <2>2, SeqMonotonic
  <2> QED BY <2>3
<1>5. LogTyped'
  BY <1>1, <1>4 DEF LogTyped, Anc
<1> QED BY <1>1, <1>2, <1>5 DEF Grows, Anc

LEMMA HostEditsSafe ==
  ASSUME DeliveryInv, NEW p \in Paths, HostEdit(p) \/ HostStage(p) \/ HostMerge(p)
  PROVE  DeliveryInv'
<1>1. /\ UNCHANGED <<log, target, policy, branch, ws, tk, sc, wrote, lock, failures>>
      /\ edits' \in {edits, edits + 1} /\ (lock = "free" \/ mergeHead' = mergeHead)
      /\ mergeHead' \in {mergeHead, -1}
  BY DEF HostEdit, HostStage, HostMerge, git
<1>2. Grows /\ Commits' = Commits
  BY <1>1, MoreVersions
<1>3. /\ host \in [tree : Versions', index : Versions'] /\ edits \in Nat /\ failures' \in Nat
      /\ mergeHead' \in Commits' \cup {0, -1}
  <2>1. Versions \subseteq Versions'
    BY <1>2, SetsGrow
  <2> QED BY <1>1, <1>2, <2>1, HostFacts DEF DeliveryInv, DeliveryTyped
<1>4. host' \in [tree : Versions', index : Versions']
  <2>1. CASE HostEdit(p)
    <3>1. edits + 1 \in 0..edits'
      BY <1>1, <2>1, MoreVersions DEF HostEdit
    <3> QED BY <1>3, <2>1, <3>1 DEF HostEdit, Versions
  <2>2. CASE HostStage(p)
    BY <1>3, <2>2 DEF HostStage, Versions
  <2>3. CASE HostMerge(p)
    <3>1. edits + 1 \in 0..edits'
      BY <1>1, <2>3, MoreVersions DEF HostMerge
    <3> QED BY <1>3, <2>3, <3>1 DEF HostMerge, Versions
  <2> QED BY <2>1, <2>2, <2>3
<1>5. Locks'
  <2>1. CASE lock = "free"
    BY <1>1, <2>1, FreeLocks
  <2>2. CASE mergeHead' = mergeHead
    BY <1>1, <1>2, <2>2 DEF DeliveryInv, Locks
  <2> QED BY <1>1, <2>1, <2>2
<1> QED BY <1>1, <1>2, <1>3, <1>4, <1>5, FrameStep

LEMMA AgentEditSafe ==
  ASSUME DeliveryInv, NEW t \in Tickets, NEW x \in Paths, AgentEdit(t, x)
  PROVE  DeliveryInv'
<1> DEFINE e == edits + 1
<1>1. PICK b, wt, k0, s, old, w0, top :
        /\ b = branch[t] /\ w0 = ws[t] /\ k0 = tk[t] /\ s = sc[t] /\ old = wrote[t]
        /\ wt = [ws[t] EXCEPT !.tree[x] = e] /\ top = edits
  OBVIOUS
<1>2. PICK r : r = [old EXCEPT ![x] = e]
  OBVIOUS
<1>3. /\ b \in Commits \cup {0} /\ w0 \in WorkspaceSet /\ k0 \in TicketSet /\ s \in ScriptSet
      /\ old \in Versions /\ w0.there
      /\ target \in Commits /\ LogTyped /\ edits \in Nat /\ failures \in Nat
      /\ Stages(b, w0, k0, s) /\ TipHas(b, old) /\ TreeHas(b, w0, old) /\ TipHas(w0.base, old)
      /\ Preserved(b, w0, k0, old) /\ Merges(b, w0, k0, s, old)
      /\ k0.at \in {"running", "idle", "merge", "remove"}
  BY <1>1, TicketFacts DEF AgentEdit, Writes, Stages, CardFits
<1>23. PICK late \in BOOLEAN : late <=> k0.at \in {"merge", "remove"} /\ x \notin k0.late
  OBVIOUS
<1>24. PICK kept : kept = [k0.kept EXCEPT ![x] = old[x]]
  OBVIOUS
<1>25. PICK k : k = IF late THEN [k0 EXCEPT !.late = @ \cup {x}, !.kept = kept] ELSE k0
  OBVIOUS
<1>26. /\ k0.kept \in Versions /\ kept \in Versions /\ kept[x] = old[x]
       /\ \A p \in Paths \ {x} : kept[p] = k0.kept[p]
  BY <1>3, <1>24 DEF TicketSet, Versions
<1>27. /\ k \in TicketSet /\ k.at = k0.at /\ k.state = k0.state /\ k.live = k0.live
       /\ k.stray = k0.stray
       /\ late => k.late = k0.late \cup {x} /\ k.kept = kept
       /\ ~late => k.late = k0.late /\ k.kept = k0.kept
  BY <1>3, <1>25, <1>26 DEF TicketSet
<1>28. tk' = [tk EXCEPT ![t] = k]
  <2>1. tk \in [Tickets -> TicketSet]
    BY DEF DeliveryInv, DeliveryTyped
  <2>2. CASE late
    <3>1. tk' = [tk EXCEPT ![t] = [k0 EXCEPT !.late = @ \cup {x}, !.kept[x] = old[x]]]
      BY <1>1, <1>23, <2>1, <2>2 DEF AgentEdit
    <3> QED BY <1>24, <1>25, <2>2, <3>1
  <2>3. CASE ~late
    BY <1>1, <1>23, <1>25, <2>1, <2>3, TicketFacts DEF AgentEdit
  <2> QED BY <2>2, <2>3
<1>4. /\ UNCHANGED <<log, target, policy, branch, sc, lock, host, mergeHead, failures>>
      /\ edits' = e
  BY DEF AgentEdit, git, ops
<1>5. /\ Grows /\ Commits' = Commits /\ e \notin 0..edits /\ e \in 0..edits'
  BY <1>4, MoreVersions
<1>6. /\ branch' = [branch EXCEPT ![t] = b] /\ ws' = [ws EXCEPT ![t] = wt]
      /\ sc' = [sc EXCEPT ![t] = s] /\ wrote' = [wrote EXCEPT ![t] = r]
  BY <1>1, <1>2, <1>4, TicketFacts DEF AgentEdit, DeliveryInv, DeliveryTyped
<1>7. /\ wt.there /\ wt.base = w0.base /\ w0.tree \in [Paths -> 0..edits] /\ w0.base \in Commits \cup {0}
      /\ wt.tree = [w0.tree EXCEPT ![x] = e] /\ old \in [Paths -> 0..edits]
      /\ wt = [there |-> TRUE, tree |-> [w0.tree EXCEPT ![x] = e], base |-> w0.base]
  BY <1>1, <1>3 DEF WorkspaceSet, Versions
<1> HIDE DEF e
<1>8. wt.tree \in Versions' /\ r \in Versions'
  <2>1. w0.tree \in [Paths -> 0..edits'] /\ old \in [Paths -> 0..edits']
    BY <1>4, <1>3, <1>7 DEF e
  <2> QED BY <1>2, <1>5, <1>7, <2>1 DEF Versions
<1>9. wt \in WorkspaceSet'
  BY <1>5, <1>7, <1>8 DEF WorkspaceSet
<1>10. /\ r[x] = e /\ wt.tree[x] = e
       /\ \A p \in Paths \ {x} : r[p] = old[p] /\ wt.tree[p] = w0.tree[p]
  BY <1>2, <1>7
<1>11. \A c \in Commits : Tree(c)[x] # e
  BY <1>3, <1>5, LogFacts DEF Versions
<1>12. \A c \in Commits \cup {0} : ~Below(c, e, x)
  BY <1>3, <1>11, LogFacts DEF Below
<1>13. /\ \A c \in Commits : Tree(c)' = Tree(c) /\ Anc(c)' = Anc(c)
       /\ \A c \in Commits \cup {0} : \A v, p : Below(c, v, p)' <=> Below(c, v, p)
       /\ \A v, p : InTarget(v, p) => InTarget(v, p)'
       /\ \A c \in Anc(target) : c \in Anc(target)'
  BY <1>3, <1>5, Carries
<1>14. ASSUME NEW c \in Commits \cup {0}, TipHas(c, old) PROVE TipHas(c, r)'
  <2> SUFFICES ASSUME NEW p \in Paths \ Excluded, Below(c, r[p], p)'
               PROVE  Tree(c)'[p] = r[p] \/ InTarget(r[p], p)'
    BY DEF TipHas
  <2>1. Below(c, r[p], p)
    BY <1>13
  <2>2. p # x
    BY <1>10, <1>12, <2>1
  <2>3. r[p] = old[p] /\ c # 0
    BY <1>10, <2>1, <2>2 DEF Below
  <2>4. Tree(c)[p] = r[p] \/ InTarget(r[p], p)
    BY <1>14, <2>1, <2>3 DEF TipHas
  <2> QED BY <1>13, <2>3, <2>4
<1>15. TreeHas(b, wt, r)'
  <2> SUFFICES ASSUME NEW p \in Paths \ Excluded, Below(b, r[p], p)'
               PROVE  wt.tree[p] = r[p] \/ InTarget(r[p], p)'
    BY DEF TreeHas
  <2>1. Below(b, r[p], p)
    BY <1>3, <1>13
  <2>2. p # x
    BY <1>3, <1>10, <1>12, <2>1
  <2>3. w0.tree[p] = old[p] \/ InTarget(old[p], p)
    BY <1>3, <1>10, <2>1, <2>2 DEF TreeHas
  <2> QED BY <1>10, <1>13, <2>2, <2>3
<1>16. Preserved(b, wt, k, r)'
  <2> SUFFICES ASSUME policy.reuse = "preserve" /\ policy.commit, NEW p \in Paths \ Excluded
               PROVE  /\ wt.tree[p] = r[p] \/ InTarget(r[p], p)'
                      /\ k.at \in {"history", "merge", "remove"} /\ p \notin k.late =>
                           (b # 0 /\ Tree(b)'[p] = r[p]) \/ InTarget(r[p], p)'
                      /\ p \in k.late =>
                           (b # 0 /\ Tree(b)'[p] = k.kept[p]) \/ InTarget(k.kept[p], p)'
    BY <1>4, <1>7 DEF Preserved
  <2>1. /\ w0.tree[p] = old[p] \/ InTarget(old[p], p)
        /\ k0.at \in {"history", "merge", "remove"} /\ p \notin k0.late =>
             (b # 0 /\ Tree(b)[p] = old[p]) \/ InTarget(old[p], p)
        /\ p \in k0.late => (b # 0 /\ Tree(b)[p] = k0.kept[p]) \/ InTarget(k0.kept[p], p)
    BY <1>3 DEF Preserved
  <2>2. b # 0 => Tree(b)' = Tree(b)
    BY <1>3, <1>13
  <2>3. wt.tree[p] = r[p] \/ InTarget(r[p], p)'
    BY <1>10, <1>13, <2>1
  <2>4. ASSUME k.at \in {"history", "merge", "remove"}, p \notin k.late
        PROVE  (b # 0 /\ Tree(b)'[p] = r[p]) \/ InTarget(r[p], p)'
    <3>1. p # x /\ p \notin k0.late /\ k0.at \in {"merge", "remove"}
      BY <1>3, <1>23, <1>27, <2>4
    <3>2. r[p] = old[p]
      BY <1>10, <3>1
    <3> QED BY <1>13, <2>1, <2>2, <3>1, <3>2
  <2>5. ASSUME p \in k.late
        PROVE  (b # 0 /\ Tree(b)'[p] = k.kept[p]) \/ InTarget(k.kept[p], p)'
    <3>1. CASE late /\ p = x
      <4>1. k.kept[p] = old[p] /\ ((b # 0 /\ Tree(b)[p] = old[p]) \/ InTarget(old[p], p))
        BY <1>23, <1>26, <1>27, <2>1, <3>1
      <4> QED BY <1>13, <2>2, <4>1
    <3>2. CASE ~(late /\ p = x)
      <4>1. p \in k0.late
        BY <1>27, <2>5, <3>2
      <4>2. k.kept[p] = k0.kept[p]
        BY <1>26, <1>27, <3>2
      <4> QED BY <1>13, <2>1, <2>2, <4>1, <4>2
    <3> QED BY <3>1, <3>2
  <2> QED BY <2>3, <2>4, <2>5
<1>17. Stages(b, wt, k, s)' /\ Merges(b, wt, k, s, r)'
  <2>1. wt.base \in Anc(b)' /\ b # 0 /\ wt.base # 0
    BY <1>3, <1>7, <1>13 DEF Stages
  <2>2. CardFits(k, s)
    BY <1>3, <1>23, <1>27 DEF Stages, CardFits
  <2>3. Stages(b, wt, k, s)'
    BY <1>3, <1>7, <1>27, <2>1, <2>2 DEF Stages
  <2>4. Delivered(b, old) => Delivered(b, r)'
    <3> SUFFICES ASSUME Delivered(b, old), NEW p \in Paths \ Excluded, Below(b, r[p], p)'
                 PROVE  InTarget(r[p], p)'
      BY DEF Delivered
    <3>1. Below(b, r[p], p)
      BY <1>3, <1>13
    <3>2. p # x
      BY <1>3, <1>10, <1>12, <3>1
    <3>3. r[p] = old[p] /\ InTarget(old[p], p)
      BY <1>10, <3>1, <3>2 DEF Delivered
    <3> QED BY <1>13, <3>3
  <2>5. Merges(b, wt, k, s, r)'
    BY <1>3, <1>7, <1>27, <2>4 DEF Merges
  <2> QED BY <2>3, <2>5
<1>18. Traced(b, wt, k, s, r)'
  BY <1>3, <1>7, <1>14, <1>15, <1>16, <1>17 DEF Traced
<1>19. ASSUME NEW u \in Tickets \ {t}
       PROVE  Apart(b, wt, wrote[u])' /\ Apart(branch[u], ws[u], r)'
  <2>1. PICK v, bb, ww : v = wrote[u] /\ bb = branch[u] /\ ww = ws[u]
    OBVIOUS
  <2>2. v = wrote'[u] /\ bb = branch'[u] /\ ww = ws'[u]
    BY <1>6, <2>1 DEF DeliveryInv, DeliveryTyped
  <2>3. /\ Apart(b, w0, v) /\ Apart(bb, ww, old) /\ bb \in Commits \cup {0}
        /\ v \in [Paths -> 0..edits] /\ ww.tree \in [Paths -> 0..edits]
    BY <1>1, <2>1 DEF DeliveryInv, DeliveryTyped, WorkspaceSet, Versions
  <2>4. v[x] # e /\ ww.tree[x] # e
    BY <1>5, <2>3
  <2>5. Apart(b, wt, v)'
    <3> SUFFICES ASSUME NEW p \in Paths
                 PROVE  /\ Below(b, v[p], p)' => InTarget(v[p], p)'
                        /\ wt.tree[p] = v[p] => InTarget(v[p], p)'
      BY DEF Apart
    <3>1. Below(b, v[p], p) => InTarget(v[p], p)
      BY <2>3 DEF Apart
    <3>2. wt.tree[p] = v[p] => InTarget(v[p], p)
      BY <1>3, <1>10, <2>3, <2>4 DEF Apart
    <3> QED BY <1>3, <1>13, <3>1, <3>2
  <2>6. Apart(bb, ww, r)'
    <3> SUFFICES ASSUME NEW p \in Paths
                 PROVE  /\ Below(bb, r[p], p)' => InTarget(r[p], p)'
                        /\ ww.there /\ ww.tree[p] = r[p] => InTarget(r[p], p)'
      BY DEF Apart
    <3>1. CASE p = x
      BY <1>10, <1>12, <1>13, <2>3, <2>4, <3>1
    <3>2. CASE p # x
      BY <1>10, <1>13, <2>3, <3>2 DEF Apart
    <3> QED BY <3>1, <3>2
  <2> QED BY <2>2, <2>5, <2>6
<1>20. Locks'
  <2>1. \A u \in Tickets : tk'[u].stray = tk[u].stray
    BY <1>1, <1>27, <1>28 DEF DeliveryInv, DeliveryTyped
  <2> QED BY <1>4, <1>5, <2>1 DEF DeliveryInv, Locks
<1>21. host' \in [tree : Versions, index : Versions]' /\ mergeHead' \in Commits' \cup {0, -1}
  <2>1. Versions \subseteq Versions'
    BY <1>5, SetsGrow
  <2> QED BY <1>4, <1>5, <2>1, HostFacts
<1>22. b \in Commits' \cup {0} /\ k \in TicketSet' /\ s \in ScriptSet' /\ failures' \in Nat
  BY <1>3, <1>4, <1>5, <1>27, SetsGrow
<1> QED BY <1>5, <1>6, <1>8, <1>9, <1>18, <1>19, <1>20, <1>21, <1>22, <1>28, Step

-----------------------------------------------------------------------------
(* The invariant.                                                          *)

LEMMA RestartSafe ==
  ASSUME DeliveryInv, Restart
  PROVE  DeliveryInv'
<1>1. /\ UNCHANGED <<log, target, branch, ws, policy, wrote, host, mergeHead, edits>>
      /\ failures' \in Nat
      /\ sc' = [t \in Tickets |-> NoScript]
      /\ tk' = [t \in Tickets |->
                  [tk[t] EXCEPT !.at = IF ws[t].there THEN "startup" ELSE "idle",
                                !.live = FALSE, !.late = IF ws[t].there THEN {} ELSE @]]
  BY FaultyIsNat DEF Restart, git, ops
<1>2. NoScript \in ScriptSet /\ NoScript.pc = "off"
  <2>1. edits \in Nat
    BY DEF DeliveryInv, DeliveryTyped
  <2>2. Blank \in Versions
    BY <2>1 DEF Blank, Versions
  <2> QED BY <2>2 DEF NoScript, ScriptSet
<1>3. /\ Versions' = Versions /\ Commits' = Commits /\ WorkspaceSet' = WorkspaceSet
      /\ TicketSet' = TicketSet /\ ScriptSet' = ScriptSet
  BY <1>1 DEF Versions, Commits, WorkspaceSet, TicketSet, ScriptSet
<1>4. ASSUME NEW t \in Tickets
      PROVE  /\ tk'[t] \in TicketSet /\ tk'[t].state = tk[t].state
             /\ tk'[t].at = (IF ws[t].there THEN "startup" ELSE "idle")
             /\ tk'[t].live = FALSE /\ tk'[t].kept = tk[t].kept /\ tk'[t].stray = tk[t].stray
             /\ tk'[t].late = IF ws[t].there THEN {} ELSE tk[t].late
  <2>1. tk[t] \in TicketSet
    BY TicketFacts
  <2>2. PICK at \in {"startup", "idle"} : at = IF ws[t].there THEN "startup" ELSE "idle"
    OBVIOUS
  <2>3. PICK late \in SUBSET Paths : late = IF ws[t].there THEN {} ELSE tk[t].late
    BY <2>1 DEF TicketSet
  <2>4. tk'[t] = [tk[t] EXCEPT !.at = at, !.live = FALSE, !.late = late]
    BY <1>1, <2>2, <2>3
  <2>5. PICK k0, k : k0 = tk[t] /\ k = tk'[t]
    OBVIOUS
  <2>6. /\ k \in TicketSet /\ k.at = at /\ k.state = k0.state /\ k.live = FALSE
        /\ k.kept = k0.kept /\ k.stray = k0.stray /\ k.late = late
    BY <2>1, <2>4, <2>5 DEF TicketSet, Busy
  <2> QED BY <2>2, <2>3, <2>5, <2>6
<1>5. DeliveryTyped'
  <2>1. tk' \in [Tickets -> TicketSet] /\ sc' \in [Tickets -> ScriptSet]
    BY <1>1, <1>2, <1>4
  <2> QED BY <1>1, <1>3, <2>1 DEF DeliveryInv, DeliveryTyped
<1>6. Locks'
  BY <1>1, <1>2 DEF Locks, Locked
<1>7. LogTyped' /\ Grows
  <2>1. LogTyped /\ edits \in Nat /\ target \in Commits
    BY DEF DeliveryInv, DeliveryTyped
  <2>2. LogTyped'
    BY <1>1, <1>3, <2>1 DEF LogTyped, Anc
  <2>3. log' = log /\ target' = target /\ edits' = edits /\ policy' = policy /\ Commits' = Commits
    BY <1>1, <1>3
  <2> QED BY <2>1, <2>2, <2>3 DEF Grows, Anc
<1>8. ASSUME NEW t \in Tickets PROVE Traced(branch[t], ws[t], tk[t], sc[t], wrote[t])'
  <2>1. PICK b, wt, k, r : b = branch[t] /\ wt = ws[t] /\ k = tk'[t] /\ r = wrote[t]
    OBVIOUS
  <2>2. Stages(b, wt, k, NoScript)
    BY <1>2, <1>4, <2>1, TicketFacts DEF Stages, CardFits, Busy
  <2>3. Preserved(b, wt, k, r)
    <3>1. PICK j : j = tk[t]
      OBVIOUS
    <3>2. /\ Preserved(b, wt, j, r) /\ k.kept = j.kept /\ k.at \in {"startup", "idle"}
          /\ k.late = IF wt.there THEN {} ELSE j.late
      BY <1>4, <2>1, <3>1, TicketFacts
    <3> QED BY <3>2 DEF Preserved
  <2>4. Merges(b, wt, k, NoScript, r)
    <3>1. tk[t].at # "idle" => ws[t].there
      BY TicketFacts DEF Stages, CardFits
    <3> QED BY <1>2, <1>4, <2>1, <3>1, TicketFacts DEF Merges
  <2>5. PICK s : s = NoScript
    OBVIOUS
  <2>6. Traced(b, wt, k, s, r) /\ b \in Commits \cup {0} /\ wt \in WorkspaceSet
    BY <2>1, <2>2, <2>3, <2>4, <2>5, TicketFacts DEF Traced
  <2>7. Traced(b, wt, k, s, r)'
    BY <1>7, <2>6, SoundCarries, HostFacts
  <2>8. b = branch'[t] /\ wt = ws'[t] /\ k = tk'[t] /\ s = sc'[t] /\ r = wrote'[t]
    BY <1>1, <2>1, <2>5
  <2> QED BY <2>7, <2>8
<1>9. ASSUME NEW x \in Tickets, NEW u \in Tickets, x # u PROVE Apart(branch[u], ws[u], wrote[x])'
  <2>1. PICK b, wt, r : b = branch[u] /\ wt = ws[u] /\ r = wrote[x]
    OBVIOUS
  <2>2. Apart(b, wt, r) /\ b \in Commits \cup {0}
    BY <1>9, <2>1 DEF DeliveryInv, DeliveryTyped
  <2>3. Apart(b, wt, r)'
    BY <1>7, <2>2, ApartCarries, HostFacts
  <2>4. b = branch'[u] /\ wt = ws'[u] /\ r = wrote'[x]
    BY <1>1, <2>1
  <2> QED BY <2>3, <2>4
<1> QED BY <1>5, <1>6, <1>7, <1>8, <1>9 DEF DeliveryInv

LEMMA InitDeliverySafe ==
  ASSUME InitDelivery
  PROVE  DeliveryInv
<1>1. Commits = {1} /\ target = 1 /\ edits = 0
  BY DEF InitDelivery, Commits
<1>2. Blank \in Versions
  BY <1>1 DEF Blank, Versions
<1>3. Tree(1) = Blank /\ Anc(1) = {1}
  BY DEF InitDelivery, Tree, Anc
<1>4. LogTyped
  <2> DEFINE e == [tree |-> Blank, anc |-> {1}]
  <2>1. e \in [tree : Versions, anc : SUBSET Nat] /\ log = <<e>>
    BY <1>2 DEF InitDelivery
  <2> HIDE DEF e
  <2>2. log \in Seq([tree : Versions, anc : SUBSET Nat]) /\ log # <<>> /\ Len(log) = 1
    BY <2>1
  <2> QED BY <1>3, <2>2 DEF LogTyped
<1>5. NoWorkspace \in WorkspaceSet /\ NoScript \in ScriptSet
  BY <1>2 DEF NoWorkspace, NoScript, WorkspaceSet, ScriptSet
<1>6. PICK card : card = [state |-> "Todo", paused |-> FALSE, at |-> "idle", plan |-> 0,
                        live |-> FALSE, late |-> {}, kept |-> Blank, stray |-> FALSE]
  OBVIOUS
<1>11. card \in TicketSet
  BY <1>2, <1>6 DEF TicketSet
<1>7. DeliveryTyped
  BY <1>1, <1>2, <1>5, <1>6, <1>11, DeliveryAssumption DEF InitDelivery, DeliveryTyped
<1>8. Locks
  BY DEF InitDelivery, Locks, Locked, NoScript
<1>9. ASSUME NEW t \in Tickets PROVE Traced(branch[t], ws[t], tk[t], sc[t], wrote[t])
  <2>1. /\ branch[t] = 0 /\ ws[t] = NoWorkspace /\ sc[t] = NoScript /\ wrote[t] = Blank
        /\ tk[t] = card /\ card.at = "idle" /\ ~card.live /\ card.late = {}
        /\ card.state = "Todo"
    BY <1>6 DEF InitDelivery
  <2>2. Stages(branch[t], ws[t], tk[t], sc[t])
    BY <2>1 DEF Stages, CardFits, NoWorkspace, NoScript, Busy
  <2>3. TipHas(branch[t], wrote[t]) /\ TreeHas(branch[t], ws[t], wrote[t]) /\ ~ws[t].there
    BY <2>1 DEF TipHas, TreeHas, Below, NoWorkspace
  <2>4. Preserved(branch[t], ws[t], tk[t], wrote[t])
    BY <2>1 DEF Preserved, InTarget, NoWorkspace, Blank
  <2>5. Merges(branch[t], ws[t], tk[t], sc[t], wrote[t])
    BY <2>1 DEF Merges, NoScript
  <2> QED BY <2>2, <2>3, <2>4, <2>5 DEF Traced
<1>10. ASSUME NEW t \in Tickets, NEW u \in Tickets PROVE Apart(branch[u], ws[u], wrote[t])
  BY DEF InitDelivery, Apart, Below, NoWorkspace
<1> QED BY <1>4, <1>7, <1>8, <1>9, <1>10 DEF DeliveryInv

(* The inductive invariant of delivery: where the last version an agent    *)
(* wrote of a path is in every stage of its ticket, which of it is in the  *)
(* target, that the fork point and the branch never hold an older version  *)
(* in its place, and that nobody else has it except from the target        *)
(* (workspace.py, utils/auto_merge.py).                                    *)
THEOREM DeliveryIsSound == DeliverySpec => []DeliveryInv
<1>1. DeliveryInv /\ [NextDelivery]_deliveryVars => DeliveryInv'
  <2> SUFFICES ASSUME DeliveryInv, [NextDelivery]_deliveryVars PROVE DeliveryInv'
    OBVIOUS
  <2>1. CASE UNCHANGED deliveryVars
    <3>1. UNCHANGED <<log, target, policy, branch, ws, tk, sc, wrote, lock, host, mergeHead,
                      edits, failures>>
      BY <2>1 DEF deliveryVars
    <3>2. Grows /\ Commits' = Commits
      BY <3>1, MoreVersions
    <3>3. /\ host' \in [tree : Versions, index : Versions]' /\ mergeHead' \in Commits' \cup {0, -1}
          /\ failures' \in Nat
      <4>1. Versions' = Versions
        BY <3>1 DEF Versions
      <4> QED BY <3>1, <3>2, <4>1, HostFacts
    <3>4. Locks'
      BY <3>1, <3>2 DEF DeliveryInv, Locks
    <3> QED BY <3>1, <3>2, <3>3, <3>4, FrameStep
  <2>2. ASSUME NEW t \in Tickets, TicketStep(t) PROVE DeliveryInv'
    <3>1. CASE CreateWorkspace(t) \/ RefreshWorkspace(t)
      BY <3>1, AttachSafe
    <3>2. CASE CreateFails(t) \/ WorkerError(t) \/ HistoryUnpublished(t) \/ AfterDoneBlocks(t)
               \/ RecoverHistory(t)
      BY <3>2, CardMovesSafe
    <3>3. CASE ReuseWorkspace(t) \/ ConfirmPlan(t)
      BY <3>3, ReuseWorkspaceSafe, ConfirmPlanSafe
    <3>4. CASE FastForward(t) \/ FastForwardFails(t)
      BY <3>4, FastForwardSafe
    <3>5. CASE (\E p \in Paths : AgentEdit(t, p)) \/ AgentCommit(t) \/ AgentStops(t)
      BY <3>5, AgentEditSafe, AgentCommitSafe, AgentStopsSafe
    <3>6. CASE ReapWorkspace(t) \/ \E state \in {"Todo", "Done", "Cancelled"} : WorkerExit(t, state)
      BY <3>6, RunEndsSafe
    <3>12. CASE \E state \in {"Done", "Cancelled"} : Reconcile(t, state)
      BY <3>12, ReconcileSafe
    <3>7. CASE SnapshotFails(t) \/ HistoryRecorded(t) \/ StartupCleanup(t)
      BY <3>7, SnapshotFailsSafe, HistoryRecordedSafe, StartupCleanupSafe
    <3>8. CASE WebMerge(t) \/ Preflight(t) \/ CaptureHead(t) \/ TakeIndexLock(t)
      BY <3>8, WebMergeSafe, PreflightSafe, CaptureHeadSafe, TakeIndexLockSafe
    <3>9. CASE ApplyRefused(t) \/ ApplyMerge(t) \/ CommitMerge(t) \/ CommitFails(t)
      BY <3>9, ApplySafe, CommitMergeSafe, CommitFailsSafe
    <3>10. CASE PublishIndex(t) \/ SyncUpstream(t) \/ SyncRefused(t) \/ KillScript(t)
      BY <3>10, PublishIndexSafe, SyncSafe
    <3>11. CASE RemoveWorkspace(t) \/ DeleteBranch(t)
      BY <3>11, RemoveWorkspaceSafe, DeleteBranchSafe
    <3> QED BY <2>2, <3>1, <3>2, <3>3, <3>4, <3>5, <3>6, <3>7, <3>8, <3>9, <3>10, <3>11,
              <3>12 DEF TicketStep
  <2>3. ASSUME NEW p \in Paths, HostEdit(p) \/ HostStage(p) \/ HostMerge(p) PROVE DeliveryInv'
    BY <2>3, HostEditsSafe
  <2> QED BY <2>1, <2>2, <2>3, HostCommitSafe, RestartSafe DEF NextDelivery
<1> QED BY <1>1, InitDeliverySafe, PTL DEF DeliverySpec

\* What is in the target is reached by a tip.
LEMMA TargetIsTip ==
  ASSUME DeliveryInv, NEW v, NEW p
  PROVE  /\ InTarget(v, p) <=> Reaches(v, p, {target})
         /\ InTarget(v, p) => Reaches(v, p, Tips)
         /\ \A t \in Tickets : Below(branch[t], v, p) => Reaches(v, p, Tips)
<1>1. target # 0
  BY HostFacts, LogFacts DEF Commits
<1>2. Reachable({target}) = Anc(target)
  BY <1>1 DEF Reachable
<1>3. Anc(target) \subseteq Reachable(Tips)
  BY <1>1 DEF Reachable, Tips
<1>4. ASSUME NEW t \in Tickets, branch[t] # 0 PROVE Anc(branch[t]) \subseteq Reachable(Tips)
  BY <1>4 DEF Reachable, Tips
<1> QED BY <1>2, <1>3, <1>4 DEF InTarget, Reaches, Below

(* With workspaces preserved across runs and snapshots on, no agent's work *)
(* is lost, whatever snapshot, fast-forward, merge, removal, failure or    *)
(* restart happens; of a path that a cancelled agent wrote late, what it   *)
(* had written before is kept (workspace.py commit_workspace_on_done,      *)
(* remove; retry_reconcile.py).                                            *)
THEOREM NoWorkIsLost == DeliverySpec => []WorkIsKept
<1>1. DeliveryInv => WorkIsKept
  <2> SUFFICES ASSUME DeliveryInv, policy.reuse = "preserve" /\ policy.commit,
                      NEW t \in Tickets, NEW p \in Paths \ Excluded
               PROVE  IF ~ws[t].there /\ p \in tk[t].late THEN Reaches(tk[t].kept[p], p, Tips)
                      ELSE Safe(t, p)
    BY DEF WorkIsKept
  <2>1. CASE ws[t].there
    <3>1. ws[t].tree[p] = wrote[t][p] \/ InTarget(wrote[t][p], p)
      BY <2>1, TicketFacts DEF Preserved
    <3> QED BY <2>1, <3>1, TargetIsTip DEF Safe
  <2>2. CASE ~ws[t].there
    <3>1. PICK v : v = IF p \in tk[t].late THEN tk[t].kept[p] ELSE wrote[t][p]
      OBVIOUS
    <3>2. (branch[t] # 0 /\ Tree(branch[t])[p] = v) \/ InTarget(v, p)
      BY <2>2, <3>1, TicketFacts DEF Preserved
    <3>3. branch[t] # 0 => branch[t] \in Anc(branch[t])
      BY TicketFacts, LogFacts
    <3>4. branch[t] # 0 /\ Tree(branch[t])[p] = v => Below(branch[t], v, p)
      BY <3>3 DEF Below
    <3>5. Reaches(v, p, Tips)
      BY <3>2, <3>4, TargetIsTip
    <3> QED BY <2>2, <3>1, <3>5 DEF Safe
  <2> QED BY <2>1, <2>2
<1> QED BY <1>1, DeliveryIsSound, PTL

(* A card that stays Done without its workspace is delivered: none of its  *)
(* agent's last work is left behind on a branch, but for what a cancelled  *)
(* agent committed when the merge had read it already                      *)
(* (orchestrator/core.py _auto_merge_done_gate_or_block,                   *)
(* _startup_terminal_cleanup).                                             *)
THEOREM DoneIsDelivered == DeliverySpec => []DoneIsMerged
<1>1. DeliveryInv => DoneIsMerged
  <2> SUFFICES ASSUME DeliveryInv, NEW t \in Tickets, tk[t].state = "Done", tk[t].at = "idle",
                      ~ws[t].there, ~tk[t].stray, NEW p \in Paths \ Excluded, Reaches(wrote[t][p], p, Tips)
               PROVE  Reaches(wrote[t][p], p, {target})
    BY DEF DoneIsMerged
  <2> DEFINE v == wrote[t][p]
  <2>1. Delivered(branch[t], wrote[t])
    BY TicketFacts DEF Merges
  <2>2. v = 0 \/ \E c \in Reachable(Tips) : Tree(c)[p] = v
    BY DEF Reaches
  <2>3. CASE v = 0
    BY <2>3 DEF Reaches
  <2>4. ASSUME NEW c \in Reachable(Tips), Tree(c)[p] = v PROVE InTarget(v, p)
    <3>1. PICK tip \in Tips \ {0} : c \in Anc(tip)
      BY DEF Reachable
    <3>2. CASE tip = target
      BY <2>4, <3>1, <3>2 DEF InTarget
    <3>3. ASSUME NEW u \in Tickets, tip = branch[u] PROVE InTarget(v, p)
      <4>1. Below(branch[u], v, p)
        BY <2>4, <3>1, <3>3 DEF Below
      <4>2. CASE u = t
        BY <2>1, <4>1, <4>2 DEF Delivered
      <4>3. CASE u # t
        BY <4>1, <4>3 DEF DeliveryInv, Apart
      <4> QED BY <4>2, <4>3
    <3> QED BY <3>1, <3>2, <3>3 DEF Tips
  <2> HIDE DEF v
  <2>5. InTarget(v, p)
    BY <2>2, <2>3, <2>4 DEF InTarget
  <2> QED BY <2>5, TargetIsTip DEF v
<1> QED BY <1>1, DeliveryIsSound, PTL

-----------------------------------------------------------------------------
(* Stored files.  What a tick remembers of the board: a ticket it would    *)
(* not retain was seen archived or gone, unless the board listed nothing   *)
(* at all.                                                                 *)
SweepSound ==
  /\ DOMAIN store = Names
  /\ tick \in [pc : {"idle", "archive", "list", "subtract", "sweep"}, stale : BOOLEAN,
              listed : SUBSET {"this", "other"}]
  /\ tick.pc = "subtract" /\ "this" \notin tick.listed =>
       tick.listed = {} \/ sighted \cap {"archived", "gone"} # {}
  /\ tick.pc = "sweep" /\ "this" \notin tick.listed => sighted \cap {"archived", "gone"} # {}

(* Every step of a collection, of a tick and of their surroundings keeps   *)
(* it: what the tick listed and what it saw of the ticket go together.     *)
LEMMA SweepStep == SweepSound /\ [NextStore]_storeVars => SweepSound'
<1> SUFFICES ASSUME SweepSound, [NextStore]_storeVars PROVE SweepSound'
  OBVIOUS
<1> USE DEF SweepSound, Board, Budgets
<1>1. CASE ListFor \/ Collect \/ Stat \/ Hash \/ CopyFails \/ WriteIndex
  BY <1>1 DEF ListFor, Collect, Stat, Hash, CopyFails, WriteIndex
<1>2. CASE Copy
  BY <1>2 DEF Copy
<1>3. CASE ReadTerminal
  <2>1. PICK old \in BOOLEAN : tick' = [tick EXCEPT !.pc = "archive", !.stale = Archivable(old)]
    BY <1>3 DEF ReadTerminal
  <2> QED BY <1>3, <2>1 DEF ReadTerminal, Archivable
<1>4. CASE Archive
  BY <1>4 DEF Archive
<1>5. CASE ListAll
  <2>1. PICK listed \in SUBSET {"this", "other"} :
          /\ tick' = [tick EXCEPT !.pc = "subtract", !.listed = listed]
          /\ "this" \in listed \/ listed = {} \/ onBoard = "gone"
    <3>1. tick' = [tick EXCEPT !.pc = "subtract", !.listed = {}]
            \/ \E l \in {{"other"}, {"this", "other"}} :
                 /\ tick' = [tick EXCEPT !.pc = "subtract", !.listed = l]
                 /\ onBoard # "gone" => l = {"this", "other"}
      BY <1>5 DEF ListAll
    <3> QED BY <3>1
  <2>2. tick'.pc = "subtract" /\ tick'.listed = listed
    BY <2>1
  <2>3. tick' \in [pc : {"idle", "archive", "list", "subtract", "sweep"}, stale : BOOLEAN,
                   listed : SUBSET {"this", "other"}]
    BY <2>1
  <2>4. sighted' = {onBoard} /\ store' = store
    BY <1>5 DEF ListAll
  <2> QED BY <2>1, <2>2, <2>3, <2>4
<1>6. CASE Retained
  BY <1>6 DEF Retained, NothingKnown, NoTick
<1>7. CASE Sweep
  BY <1>7 DEF Sweep, NoTick
<1>8. CASE Crash
  BY <1>8 DEF Crash, NoTick
<1>9. CASE WorkerWrites \/ TicketMoves \/ TimePasses \/ IndexDamaged
  BY <1>9 DEF WorkerWrites, TicketMoves, TimePasses, IndexDamaged
<1>10. CASE UNCHANGED storeVars
  BY <1>10 DEF storeVars
<1> QED BY <1>1, <1>2, <1>3, <1>4, <1>5, <1>6, <1>7, <1>8, <1>9, <1>10 DEF NextStore

(* It holds before the first tick.                                         *)
LEMMA SweepStarts == InitStore => SweepSound
  BY DEF InitStore, SweepSound, NoTick

(* No sweep removes a file of a ticket it saw alive: only a sweep removes  *)
(* files outside a collection, it keeps what the tick listed and retained  *)
(* (_artifact_sweep, sweeps.py:279), and what it does not retain it saw    *)
(* archived or gone, as a board that lists nothing ends the tick.          *)
THEOREM FilesAreKept == StoreSpec => LiveTicketKeepsFiles
<1>1. SweepSound /\ [NextStore]_storeVars =>
        [(\E k \in Names \ {0} : store[k] # None /\ store'[k] = None /\ job.pc = "idle")
           => sighted \cap {"archived", "gone"} # {}]_storeVars
  <2> SUFFICES ASSUME SweepSound, NextStore,
                      NEW k \in Names \ {0}, store[k] # None, store'[k] = None, job.pc = "idle"
               PROVE  sighted \cap {"archived", "gone"} # {}
    BY DEF storeVars
  <2>1. CASE Sweep
    BY <2>1 DEF Sweep, SweepSound
  <2>2. CASE Crash
    BY <2>2 DEF Crash
  <2>3. CASE ListFor \/ Collect \/ Stat \/ Hash \/ Copy \/ CopyFails \/ WriteIndex
    BY <2>3 DEF ListFor, Collect, Stat, Hash, Copy, CopyFails, WriteIndex
  <2>4. CASE ReadTerminal \/ Archive \/ ListAll \/ Retained
    BY <2>4 DEF ReadTerminal, Archive, ListAll, Retained
  <2>5. CASE WorkerWrites \/ TicketMoves \/ TimePasses \/ IndexDamaged
    BY <2>5 DEF WorkerWrites, TicketMoves, TimePasses, IndexDamaged
  <2> QED BY <2>1, <2>2, <2>3, <2>4, <2>5 DEF NextStore
<1>2. StoreSpec => []SweepSound
  BY SweepStarts, SweepStep, PTL DEF StoreSpec
<1> QED BY <1>1, <1>2, PTL DEF StoreSpec, LiveTicketKeepsFiles

=============================================================================
