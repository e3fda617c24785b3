--------------------------- MODULE PmAuthorityProofs ---------------------------
(***************************************************************************)
(* Proofs that the launch guard's verdict stands until the process it let  *)
(* through is published, and that an accepted task has no process, for any *)
(* plan, number of handoffs, attempts, approvals, edits and crashes        *)
(* (PmAuthority).                                                          *)
(*                                                                         *)
(* Whatever could withdraw the authority of a ticket takes the lock of the *)
(* change, and an attempt keeps that lock from its check to the publication *)
(* of its process (Guarded): only an external editor writes without it.    *)
(* The revocation of a ticket ends its permits (Permitted), so that a      *)
(* later publication of its handoff does not bring them back.  An          *)
(* acceptance needs the run row of the ticket gone, and every attempt that *)
(* has not ended keeps it (Leased).                                        *)
(***************************************************************************)
EXTENDS PmAuthority, PmDocuments, TLAPS

Row == [st : {None, "open", "done"}, op : Ops \cup {None}, ver : 0..1]
Permit ==
  [pc : {"held", "guard", "up", "orphan", "ended"} \cup InGuard, k : Tickets,
   permit : ActivePermit \cup {"REVOKED", "CONSUMED"}, lapsed : BOOLEAN,
   op : Ops \cup {None}, seen : Row]

Typed ==
  /\ managed \in [Tickets -> [st : {None, "STAGING", "PUBLISHED", "REVOKED"},
                              op : Ops \cup {None}]]
  /\ board \in [Tickets -> Row]
  /\ att \in [Attempts -> {NoAttempt} \cup Permit]
  /\ lease \in [Tickets -> Attempts \cup {None}]
  /\ accepted \in [Tickets -> Attempts \cup {None}]

(* An attempt in the guard has the lock of the change.                     *)
Guarded == \A a \in Attempts : att[a].pc \in {"guard"} \cup InGuard => lock = Held("guard", a)

(* A revoked ticket has no active permit.                                  *)
Permitted ==
  \A a \in Attempts : att[a].pc # "new" /\ att[a].permit \in ActivePermit => att[a].k \notin revoked

(* An acceptance keeps the receipts it was given for.                      *)
Receipted ==
  \A k \in Tickets : accepted[k] # None => \A p \in Procedures : <<k, p, accepted[k]>> \in receipts

(* An attempt that has not ended holds the run row of its ticket.          *)
Leased == \A a \in Attempts : att[a].pc \notin {"new", "ended"} => lease[att[a].k] = a

Inv == Typed /\ Guarded /\ Permitted /\ Receipted /\ Leased /\ LaunchIsAuthorised /\ AcceptedIsQuiet

-----------------------------------------------------------------------------
(* Operators of the model. *)

(* What the guard has checked of a ticket.                                 *)
Stands(k) ==
  /\ Authorised(k) /\ k \notin revoked
  /\ AcceptedPredecessors(k)
  /\ doc = batch[managed[k].op].scope \/ ws = "EXTERNAL_EDIT"

LEMMA Launches == LaunchIsAuthorised <=> \A a \in Attempts : att[a].pc \in InGuard => Stands(att[a].k)
  BY DEF LaunchIsAuthorised, Stands

LEMMA Locks ==
  /\ \A a \in Attempts : Held("guard", a) # Free
  /\ \A a \in Attempts : \A op \in Ops : Held("guard", a) # Held("handoff", op)
  /\ \A a \in Attempts : \A b \in Attempts : Held("guard", a) = Held("guard", b) => a = b
  BY DEF Held, Free, None

LEMMA NobodyInGuard ==
  ASSUME Guarded, lock = Free \/ \E op \in Ops : lock = Held("handoff", op)
  PROVE  \A a \in Attempts : att[a].pc \notin {"guard"} \cup InGuard
  BY Locks DEF Guarded

LEMMA Attempted ==
  ASSUME Typed, NEW a \in Attempts, att[a].pc # "new"
  PROVE  att[a] \in Permit
  BY DEF Typed, NoAttempt

(* The verdict on a ticket stands while nothing takes the lock: receipts   *)
(* may come, and an external editor may write.                             *)
LEMMA StandsKept ==
  ASSUME Typed, Receipted, NEW k \in Tickets, Stands(k),
         UNCHANGED <<batch, managed, revoked, approvals, accepted, ws>>,
         receipts \subseteq receipts', doc' = doc \/ ws = "EXTERNAL_EDIT"
  PROVE  Stands(k)'
  <1>1. AcceptedCommit(k) = None /\ accepted[k] = None
    BY DEF Stands, Authorised, AcceptedCommit, Receipted
  <1>2. AcceptedCommit(k)' = None
    BY <1>1 DEF AcceptedCommit
  <1>3. Authorised(k)'
    BY <1>2 DEF Stands, Authorised, ActiveApproval
  <1>4. ASSUME NEW b, AcceptedCommit(b) # None PROVE AcceptedCommit(b)' # None
    BY <1>4 DEF AcceptedCommit
  <1>5. AcceptedPredecessors(k)'
    BY <1>4 DEF Stands, AcceptedPredecessors, Blockers
  <1> QED BY <1>3, <1>5 DEF Stands

(* What a revocation of permits may do to the attempts.                    *)
Weaker(n) ==
  /\ n \in [Attempts -> {NoAttempt} \cup Permit]
  /\ \A b \in Attempts :
       /\ n[b].pc = att[b].pc
       /\ att[b].pc # "new" =>
            n[b].k = att[b].k /\ (n[b].permit \in ActivePermit => att[b].permit \in ActivePermit)

LEMMA RevokeWeakens ==
  ASSUME Typed, NEW k \in Tickets
  PROVE  /\ Weaker(RevokeDispatch(att, k))
         /\ \A b \in Attempts : att[b].pc # "new" /\ att[b].k = k =>
              RevokeDispatch(att, k)[b].permit \notin ActivePermit
  <1> DEFINE n == RevokeDispatch(att, k)
  <1>1. \A b \in Attempts :
          n[b] = IF att[b].pc # "new" /\ att[b].k = k /\ att[b].permit \in ActivePermit
                 THEN [att[b] EXCEPT !.permit = "REVOKED"] ELSE att[b]
    BY DEF RevokeDispatch, ActivePermitsOf, PermitsOf
  <1>2. \A b \in Attempts : att[b].pc = "new" => n[b] = att[b]
    BY <1>1
  <1>3. ASSUME NEW b \in Attempts, att[b].pc # "new"
        PROVE  /\ n[b] \in Permit /\ n[b].pc = att[b].pc /\ n[b].k = att[b].k
               /\ n[b].permit \in ActivePermit => att[b].permit \in ActivePermit /\ att[b].k # k
    <2>1. att[b] \in Permit
      BY <1>3, Attempted
    <2>2. CASE att[b].k = k /\ att[b].permit \in ActivePermit
      <3>1. n[b] = [att[b] EXCEPT !.permit = "REVOKED"]
        BY <1>1, <1>3, <2>2
      <3> HIDE DEF n
      <3> QED BY <2>1, <3>1 DEF Permit, ActivePermit
    <2>3. CASE ~(att[b].k = k /\ att[b].permit \in ActivePermit)
      <3>1. n[b] = att[b]
        BY <1>1, <1>3, <2>3
      <3> HIDE DEF n
      <3> QED BY <2>1, <2>3, <3>1
    <2> QED BY <2>2, <2>3
  <1>4. n \in [Attempts -> {NoAttempt} \cup Permit]
    <2>1. n = [b \in Attempts |-> n[b]]
      BY DEF RevokeDispatch
    <2>2. \A b \in Attempts : n[b] \in {NoAttempt} \cup Permit
      BY <1>2, <1>3 DEF Typed
    <2> HIDE DEF n
    <2> QED BY <2>1, <2>2
  <1> HIDE DEF n
  <1> QED BY <1>2, <1>3, <1>4 DEF Weaker, n

-----------------------------------------------------------------------------
(* A step of one attempt, which may revoke permits of others. *)

Frame == UNCHANGED <<batch, managed, revoked, approvals, accepted, ws, receipts, doc>>

LEMMA OneAttempt ==
  ASSUME Inv, Frame, board' \in [Tickets -> Row],
         NEW a \in Attempts, att[a].pc # "new",
         NEW n, Weaker(n), NEW r \in Permit, att' = [n EXCEPT ![a] = r],
         r.k = att[a].k, r.permit \in ActivePermit => att[a].permit \in ActivePermit,
         r.pc \in {"guard"} \cup InGuard => lock' = Held("guard", a),
         lock' = lock \/ lock = Free \/ lock = Held("guard", a),
         \/ lease' = lease
         \/ r.pc = "ended" /\ \E k \in Tickets : lease[k] = a /\ lease' = [lease EXCEPT ![k] = None],
         r.pc # "ended" => att[a].pc # "ended",
         r.pc \in InGuard => Stands(att[a].k),
         r.pc \in HasProcess => accepted[att[a].k] = None
  PROVE  Inv'
  <1>1. /\ att' \in [Attempts -> {NoAttempt} \cup Permit] /\ att'[a] = r
        /\ \A b \in Attempts : b # a => att'[b] = n[b]
    BY DEF Weaker
  <1>2. \A b \in Attempts : b # a =>
          /\ att'[b].pc = att[b].pc
          /\ att[b].pc # "new" => att'[b].k = att[b].k
                                  /\ (att'[b].permit \in ActivePermit => att[b].permit \in ActivePermit)
    BY <1>1 DEF Weaker
  <1>3. \A b \in Attempts : att'[b].pc # "new" => att[b].pc # "new" /\ att'[b].k = att[b].k
    BY <1>1, <1>2
  <1>4. \A b \in Attempts : att[b].pc # "new" => att[b].k \in Tickets
    BY Attempted DEF Inv, Permit
  <1>5. lease' \in [Tickets -> Attempts \cup {None}]
    BY DEF Inv, Typed
  <1>6. Typed'
    BY <1>1, <1>5 DEF Inv, Typed, Frame
  <1>7. Guarded'
    <2> SUFFICES ASSUME NEW b \in Attempts, att'[b].pc \in {"guard"} \cup InGuard
                 PROVE  lock' = Held("guard", b)
      BY DEF Guarded
    <2>1. CASE b = a
      BY <1>1, <2>1
    <2>2. CASE b # a
      <3>1. lock = Held("guard", b)
        BY <1>2, <2>2 DEF Inv, Guarded
      <3> QED BY <2>2, <3>1, Locks
    <2> QED BY <2>1, <2>2
  <1>8. Permitted'
    BY <1>1, <1>2, <1>3 DEF Inv, Permitted, Frame
  <1>9. Receipted'
    BY DEF Inv, Receipted, Frame
  <1>10. Leased'
    <2> SUFFICES ASSUME NEW b \in Attempts, att'[b].pc \notin {"new", "ended"}
                 PROVE  lease'[att'[b].k] = b
      BY DEF Leased
    <2>1. att[b].pc \notin {"new", "ended"} /\ att'[b].k = att[b].k
      BY <1>1, <1>2, <1>3
    <2>2. lease[att[b].k] = b /\ att[b].k \in Tickets
      BY <1>4, <2>1 DEF Inv, Leased
    <2>3. CASE lease' = lease
      BY <2>1, <2>2, <2>3
    <2>4. CASE r.pc = "ended" /\ \E k \in Tickets : lease[k] = a /\ lease' = [lease EXCEPT ![k] = None]
      <3>1. b # a
        BY <1>1, <2>4
      <3>2. PICK k \in Tickets : lease[k] = a /\ lease' = [lease EXCEPT ![k] = None]
        BY <2>4
      <3>3. k # att[b].k
        BY <2>2, <3>1, <3>2
      <3> QED BY <2>1, <2>2, <3>2, <3>3 DEF Inv, Typed
    <2> QED BY <2>3, <2>4
  <1>11. ASSUME NEW b \in Attempts, NEW k \in Tickets, att'[b].pc \in InGuard, att'[b].k = k
         PROVE  Stands(k)'
    <2>1. att[b].pc # "new" /\ att[b].k = k
      BY <1>3, <1>11 DEF InGuard
    <2>2. Stands(k)
      BY <1>1, <1>2, <1>11, <2>1, Launches DEF Inv
    <2> QED BY <2>2, StandsKept DEF Inv, Frame
  <1>12. LaunchIsAuthorised'
    <2> SUFFICES ASSUME NEW b \in Attempts, att'[b].pc \in InGuard, NEW k, k = att'[b].k
                 PROVE  Stands(k)'
      BY DEF LaunchIsAuthorised, Stands, Authorised, AcceptedPredecessors, Blockers, AcceptedCommit,
             ActiveApproval
    <2> QED BY <1>3, <1>4, <1>11 DEF InGuard
  <1>13. AcceptedIsQuiet'
    BY <1>1, <1>2, <1>3 DEF Inv, AcceptedIsQuiet, Frame, HasProcess
  <1> QED BY <1>6, <1>7, <1>8, <1>9, <1>10, <1>12, <1>13 DEF Inv

(* Steps that leave the attempts in the guard, or empty it.                *)
LEMMA LaunchKept ==
  ASSUME Inv, UNCHANGED <<batch, managed, revoked, approvals, accepted, ws>>,
         receipts \subseteq receipts', doc' = doc \/ ws = "EXTERNAL_EDIT",
         \A b \in Attempts : att'[b].pc \in InGuard => att[b].pc \in InGuard /\ att'[b].k = att[b].k
  PROVE  LaunchIsAuthorised'
  <1>1. ASSUME NEW b \in Attempts, NEW k \in Tickets, att'[b].pc \in InGuard, att'[b].k = k
        PROVE  Stands(k)'
    <2>1. Stands(k)
      BY <1>1, Launches DEF Inv
    <2> QED BY <2>1, StandsKept DEF Inv
  <1>2. \A b \in Attempts : att'[b].pc \in InGuard => att'[b].k \in Tickets
    BY Attempted DEF Inv, Permit, InGuard
  <1> SUFFICES ASSUME NEW b \in Attempts, att'[b].pc \in InGuard, NEW k, k = att'[b].k
               PROVE  Stands(k)'
    BY DEF LaunchIsAuthorised, Stands, Authorised, AcceptedPredecessors, Blockers, AcceptedCommit,
           ActiveApproval
  <1> QED BY <1>1, <1>2

LEMMA LaunchEmpty ==
  ASSUME \A b \in Attempts : att'[b].pc \notin InGuard
  PROVE  LaunchIsAuthorised'
  BY DEF LaunchIsAuthorised

-----------------------------------------------------------------------------
(* The plan and the handoff. *)

LEMMA PlanKeeps ==
  ASSUME Inv, PlanStep
  PROVE  Inv'
  <1>1. UNCHANGED <<batch, managed, revoked, board, lock, att, lease, receipts, accepted>>
    BY DEF PlanStep, PatchDocument, ExternalWrite, BeginExternalEdit, EndExternalEdit,
           ClaimWorkspace, Approve, handoffVars, runVars, reviewVars
  <1>2. Typed' /\ Guarded' /\ Permitted' /\ Receipted' /\ Leased' /\ AcceptedIsQuiet'
    BY <1>1 DEF Inv, Typed, Guarded, Permitted, Receipted, Leased, AcceptedIsQuiet
  <1>3. LaunchIsAuthorised'
    <2>1. CASE lock = Free
      BY <1>1, <2>1, NobodyInGuard, LaunchEmpty DEF Inv
    <2>2. CASE \E t \in Tasks, c \in Contents : ExternalWrite(t, c)
      BY <1>1, <2>2, LaunchKept DEF ExternalWrite
    <2>3. CASE ClaimWorkspace
      <3>1. \A a \in Attempts : att[a].pc \notin InGuard
        BY <2>3 DEF Inv, LaunchIsAuthorised, Authorised, ClaimWorkspace
      <3> QED BY <1>1, <3>1, LaunchEmpty
    <2> QED BY <2>1, <2>2, <2>3
            DEF PlanStep, PatchDocument, BeginExternalEdit, EndExternalEdit, Approve
  <1> QED BY <1>2, <1>3 DEF Inv

LEMMA HandoffKeeps ==
  ASSUME Inv, HandoffStep
  PROVE  Inv'
  <1>1. UNCHANGED <<revoked, att, lease, receipts, accepted>>
    BY DEF HandoffStep, StageHandoff, PublishHandoff, HandoffFails, CreateTicket,
           planVars, handoffVars, runVars, reviewVars
  <1>2. PICK op \in Ops : \/ StageHandoff(op) \/ PublishHandoff(op) \/ HandoffFails(op)
                          \/ \E k \in Tickets : CreateTicket(op, k)
    BY DEF HandoffStep
  <1>3. \A a \in Attempts : att[a].pc \notin {"guard"} \cup InGuard
    BY <1>2, NobodyInGuard DEF Inv, StageHandoff, PublishHandoff, HandoffFails, CreateTicket
  <1>4. Typed'
    <2> DEFINE M == [st : {None, "STAGING", "PUBLISHED", "REVOKED"}, op : Ops \cup {None}]
    <2>0. managed \in [Tickets -> M] /\ board \in [Tickets -> Row]
      BY DEF Inv, Typed
    <2>1. CASE StageHandoff(op)
      <3>1. board' = board /\ CreateHandoffBatch(op, doc, ActiveApproval)
        BY <2>1 DEF StageHandoff
      <3>2. [st |-> "STAGING", op |-> op] \in M
        OBVIOUS
      <3> HIDE DEF M
      <3>3. managed' \in [Tickets -> M]
        BY <2>0, <3>1, <3>2 DEF CreateHandoffBatch
      <3> QED BY <1>1, <2>0, <3>1, <3>3 DEF Inv, Typed, M
    <2>2. CASE PublishHandoff(op)
      <3>1. board' = board /\ PublishRows(op)
        BY <2>2 DEF PublishHandoff
      <3>2. \A k \in Tickets : [managed[k] EXCEPT !.st = "PUBLISHED"] \in M
        BY <2>0
      <3> HIDE DEF M
      <3>3. managed' \in [Tickets -> M]
        BY <2>0, <3>1, <3>2 DEF PublishRows
      <3> QED BY <1>1, <2>0, <3>1, <3>3 DEF Inv, Typed, M
    <2>3. CASE HandoffFails(op)
      BY <1>1, <2>3 DEF HandoffFails, handoffVars, Inv, Typed
    <2>4. CASE \E k \in Tickets : CreateTicket(op, k)
      <3>1. managed' = managed /\ [st |-> "open", op |-> op, ver |-> 0] \in Row
        BY <2>4 DEF CreateTicket, Row
      <3>2. board' \in [Tickets -> Row]
        BY <2>0, <2>4, <3>1 DEF CreateTicket
      <3> QED BY <1>1, <3>1, <3>2 DEF Inv, Typed
    <2> QED BY <1>2, <2>1, <2>2, <2>3, <2>4
  <1>5. Guarded' /\ LaunchIsAuthorised'
    BY <1>1, <1>3, LaunchEmpty DEF Guarded
  <1> QED BY <1>1, <1>4, <1>5 DEF Inv, Permitted, Receipted, Leased, AcceptedIsQuiet

-----------------------------------------------------------------------------
(* The attempts. *)

LEMMA ReserveKeeps ==
  ASSUME Inv, NEW a \in Attempts, NEW k \in Tickets, Reserve(a, k)
  PROVE  Inv'
  <1> DEFINE n == RevokeDispatch(att, k)
             r == [pc |-> "held", k |-> k, permit |-> "RESERVED", lapsed |-> FALSE,
                   op |-> managed[k].op, seen |-> board[k]]
  <1>1. /\ k \notin revoked /\ att[a].pc = "new" /\ lease[k] = None
        /\ att' = [n EXCEPT ![a] = r] /\ lease' = [lease EXCEPT ![k] = a]
        /\ UNCHANGED <<batch, managed, revoked, board, approvals, accepted, ws, receipts, doc, lock>>
    BY DEF Reserve, ReservePermit, planVars, handoffVars, reviewVars
  <1>2. r \in Permit
    BY DEF Permit, Inv, Typed, ActivePermit
  <1>3. r.pc = "held" /\ r.k = k
    OBVIOUS
  <1>4. Weaker(n)
    BY RevokeWeakens DEF Inv
  <1> HIDE DEF n, r
  <1>5. /\ att' \in [Attempts -> {NoAttempt} \cup Permit] /\ att'[a] = r
        /\ \A b \in Attempts : b # a =>
             /\ att'[b].pc = att[b].pc
             /\ att[b].pc # "new" => att'[b].k = att[b].k
                                     /\ (att'[b].permit \in ActivePermit => att[b].permit \in ActivePermit)
    BY <1>1, <1>2, <1>4 DEF Weaker
  <1>6. Typed'
    BY <1>1, <1>5 DEF Inv, Typed
  <1>7. Guarded' /\ Permitted' /\ Receipted'
    BY <1>1, <1>3, <1>5 DEF Inv, Guarded, Permitted, Receipted, InGuard
  <1>8. Leased'
    <2> SUFFICES ASSUME NEW b \in Attempts, att'[b].pc \notin {"new", "ended"}
                 PROVE  lease'[att'[b].k] = b
      BY DEF Leased
    <2>1. CASE b = a
      BY <1>1, <1>3, <1>5, <2>1 DEF Inv, Typed
    <2>2. CASE b # a
      <3>1. att'[b].k = att[b].k /\ lease[att[b].k] = b
        BY <1>5, <2>2 DEF Inv, Leased
      <3>2. att[b].k # k
        BY <1>1, <3>1, PmAssumption DEF None
      <3> QED BY <1>1, <3>1, <3>2 DEF Inv, Typed
    <2> QED BY <2>1, <2>2
  <1>9. LaunchIsAuthorised'
    BY <1>1, <1>3, <1>5, LaunchKept DEF InGuard
  <1>10. AcceptedIsQuiet'
    BY <1>1, <1>3, <1>5 DEF Inv, AcceptedIsQuiet, HasProcess
  <1> QED BY <1>6, <1>7, <1>8, <1>9, <1>10 DEF Inv

LEMMA GuardKeeps ==
  ASSUME Inv, NEW a \in Attempts, GuardStep(a) \/ PermitLapses(a) \/ TurnEnds(a)
  PROVE  Inv'
  <1>0. Weaker(att) /\ board \in [Tickets -> Row] /\ Frame /\ board' = board /\ lease' = lease
    <2>1. Weaker(att) /\ board \in [Tickets -> Row]
      BY DEF Inv, Typed, Weaker
    <2>2. Frame /\ board' = board /\ lease' = lease
      BY DEF GuardStep, PermitLapses, TurnEnds, GuardEnter, GuardCheck, GuardRefuses, Spawn,
             PublishStarted, GuardExit, planVars, handoffVars, reviewVars, Frame
    <2> QED BY <2>1, <2>2
  <1>1. att[a].pc # "new" /\ att[a].pc \in {"held", "guard", "up", "orphan", "ended"} \cup InGuard
    <2>1. att[a].pc # "new"
      BY DEF GuardStep, PermitLapses, TurnEnds, GuardEnter, GuardCheck, Spawn, PublishStarted, GuardExit
    <2> QED BY <2>1, Attempted DEF Inv, Permit
  <1>2. att[a] \in Permit /\ att[a].k \in Tickets /\ board[att[a].k] \in Row
    BY <1>0, <1>1, Attempted DEF Inv, Permit
  <1>3. att[a].pc \in HasProcess => accepted[att[a].k] = None
    BY DEF Inv, AcceptedIsQuiet
  <1>4. att[a].pc \in InGuard => Stands(att[a].k)
    BY Launches DEF Inv
  <1>5. att[a].pc \in {"guard"} \cup InGuard => lock = Held("guard", a)
    BY DEF Inv, Guarded
  <1>6. ASSUME NEW k \in Tickets, Stands(k) PROVE accepted[k] = None
    BY <1>6 DEF Stands, Authorised, AcceptedCommit, Inv, Receipted
  <1>7. CASE PermitLapses(a)
    <2> DEFINE r == [att[a] EXCEPT !.lapsed = TRUE]
    <2>1. att' = [att EXCEPT ![a] = r] /\ lock' = lock
      BY <1>7 DEF PermitLapses
    <2>2. r \in Permit /\ r.pc = att[a].pc /\ r.k = att[a].k /\ r.permit = att[a].permit
      BY <1>2 DEF Permit
    <2> HIDE DEF r
    <2> QED BY <1>0, <1>1, <1>3, <1>4, <1>5, <2>1, <2>2, OneAttempt
  <1>8. CASE GuardEnter(a)
    <2> DEFINE r == [att[a] EXCEPT !.pc = "guard", !.seen = board[att[a].k]]
    <2>1. att' = [att EXCEPT ![a] = r] /\ lock = Free /\ lock' = Held("guard", a) /\ att[a].pc = "held"
      BY <1>8 DEF GuardEnter
    <2>2. r \in Permit /\ r.pc = "guard" /\ r.k = att[a].k /\ r.permit = att[a].permit
      BY <1>2 DEF Permit
    <2> HIDE DEF r
    <2> QED BY <1>0, <1>1, <2>1, <2>2, OneAttempt DEF InGuard, HasProcess
  <1>9. CASE GuardRefuses(a) /\ att[a].pc \in {"guard", "spawned"}
    <2> DEFINE n == RevokeDispatch(att, att[a].k)
               p == IF n[a].permit \in ActivePermit THEN "REVOKED" ELSE n[a].permit
               r == [n[a] EXCEPT !.pc = "ended", !.permit = p]
    <2>1. Weaker(n)
      BY <1>2, RevokeWeakens DEF Inv
    <2>2. att' = [n EXCEPT ![a] = r] /\ lock' = Free /\ lock = Held("guard", a)
      <3>1. att' = [n EXCEPT ![a].pc = "ended",
                             ![a].permit = IF @ \in ActivePermit THEN "REVOKED" ELSE @]
        BY <1>9 DEF GuardRefuses
      <3>2. att' = [n EXCEPT ![a] = r]
        <4>1. n \in [Attempts -> {NoAttempt} \cup Permit]
          BY <2>1 DEF Weaker
        <4> HIDE DEF n
        <4> QED BY <3>1, <4>1
      <3> QED BY <1>5, <1>9, <3>2 DEF InGuard, GuardRefuses
    <2>3. n[a] \in Permit /\ n[a].k = att[a].k
      BY <1>1, <2>1 DEF Weaker, NoAttempt
    <2> HIDE DEF n
    <2>4. p \in {"REVOKED", "CONSUMED"}
      BY <2>3 DEF Permit, ActivePermit
    <2> HIDE DEF p
    <2>5. r \in Permit /\ r.pc = "ended" /\ r.k = att[a].k /\ r.permit = p
      BY <2>3, <2>4 DEF Permit
    <2> HIDE DEF r
    <2>6. r.permit \notin ActivePermit /\ r.pc \notin {"guard"} \cup InGuard \cup HasProcess
      BY <2>4, <2>5 DEF ActivePermit, InGuard, HasProcess
    <2> QED BY <1>0, <1>1, <2>1, <2>2, <2>5, <2>6, OneAttempt
  <1>10. CASE /\ att[a].pc = "guard" /\ GuardPasses(a)
              /\ att' = [att EXCEPT ![a].pc = "starting", ![a].permit = "STARTING"]
              /\ UNCHANGED lock
    <2> DEFINE r == [att[a] EXCEPT !.pc = "starting", !.permit = "STARTING"]
    <2>1. att' = [att EXCEPT ![a] = r] /\ lock' = lock /\ lock = Held("guard", a)
      BY <1>5, <1>10 DEF InGuard
    <2>2. r \in Permit /\ r.pc = "starting" /\ r.k = att[a].k /\ r.permit = "STARTING"
      BY <1>2 DEF Permit, InGuard, ActivePermit
    <2> HIDE DEF r
    <2>3. att[a].permit \in ActivePermit
      BY <1>10 DEF GuardPasses, Transition, ActivePermit
    <2>4. att[a].k \notin revoked
      BY <1>1, <2>3 DEF Inv, Permitted
    <2>5. Stands(att[a].k)
      BY <1>10, <2>4 DEF GuardPasses, Recognize, Stands
    <2> QED BY <1>0, <1>1, <1>10, <2>1, <2>2, <2>3, <2>5, OneAttempt DEF HasProcess
  <1>11. CASE Spawn(a)
    <2> DEFINE r == [att[a] EXCEPT !.pc = "spawned"]
    <2>1. /\ att' = [att EXCEPT ![a] = r] /\ lock' = lock /\ lock = Held("guard", a)
          /\ Stands(att[a].k) /\ att[a].pc = "starting"
      BY <1>4, <1>5, <1>11 DEF Spawn, InGuard
    <2>2. r \in Permit /\ r.pc = "spawned" /\ r.k = att[a].k /\ r.permit = att[a].permit
      BY <1>2 DEF Permit, InGuard
    <2> HIDE DEF r
    <2>3. accepted[att[a].k] = None
      BY <1>2, <1>6, <2>1
    <2> QED BY <1>0, <1>1, <2>1, <2>2, <2>3, OneAttempt
  <1>12. CASE /\ att[a].pc = "spawned" /\ Transition(a, {"STARTING"})
              /\ att' = [att EXCEPT ![a].pc = "published", ![a].permit = "RUNNING"]
              /\ UNCHANGED lock
    <2> DEFINE r == [att[a] EXCEPT !.pc = "published", !.permit = "RUNNING"]
    <2>1. /\ att' = [att EXCEPT ![a] = r] /\ lock' = lock /\ lock = Held("guard", a)
          /\ Stands(att[a].k) /\ att[a].permit \in ActivePermit
      BY <1>4, <1>5, <1>12 DEF InGuard, Transition, ActivePermit
    <2>2. r \in Permit /\ r.pc = "published" /\ r.k = att[a].k /\ r.permit = "RUNNING"
      BY <1>2 DEF Permit, InGuard, ActivePermit
    <2> HIDE DEF r
    <2>3. accepted[att[a].k] = None
      BY <1>2, <1>6, <2>1
    <2> QED BY <1>0, <1>1, <1>12, <2>1, <2>2, <2>3, OneAttempt
  <1>13. CASE GuardExit(a)
    <2> DEFINE r == [att[a] EXCEPT !.pc = "up"]
    <2>1. /\ att' = [att EXCEPT ![a] = r] /\ lock = Held("guard", a)
          /\ accepted[att[a].k] = None /\ att[a].pc = "published"
      BY <1>3, <1>5, <1>13 DEF GuardExit, InGuard, HasProcess
    <2>2. r \in Permit /\ r.pc = "up" /\ r.k = att[a].k /\ r.permit = att[a].permit
      BY <1>2 DEF Permit, InGuard
    <2> HIDE DEF r
    <2> QED BY <1>0, <1>1, <2>1, <2>2, OneAttempt DEF InGuard
  <1>14. CASE TurnEnds(a)
    <2> DEFINE r == [att[a] EXCEPT !.pc = "held"]
    <2>1. att' = [att EXCEPT ![a] = r] /\ lock' = lock /\ att[a].pc = "up"
      BY <1>14 DEF TurnEnds
    <2>2. r \in Permit /\ r.pc = "held" /\ r.k = att[a].k /\ r.permit = att[a].permit
      BY <1>2 DEF Permit, InGuard
    <2> HIDE DEF r
    <2> QED BY <1>0, <1>1, <2>1, <2>2, OneAttempt DEF InGuard, HasProcess
  <1> QED BY <1>7, <1>8, <1>9, <1>10, <1>11, <1>12, <1>13, <1>14
          DEF GuardStep, GuardCheck, PublishStarted

LEMMA EndKeeps ==
  ASSUME Inv,
         \/ \E a \in Attempts : CompleteAttempt(a)
         \/ \E k \in Tickets : FinalizeAttempt(k)
  PROVE  Inv'
  <1>0. Weaker(att) /\ board \in [Tickets -> Row] /\ Frame /\ lock' = lock
    BY DEF CompleteAttempt, FinalizeAttempt, planVars, handoffVars, reviewVars, Frame, Inv, Typed, Weaker
  <1>1. ASSUME NEW a \in Attempts, CompleteAttempt(a) PROVE Inv'
    <2>1. att[a] \in Permit /\ att[a].k \in Tickets /\ att[a].pc \in {"up", "held"}
      BY <1>1, Attempted DEF CompleteAttempt, Inv, Permit
    <2>2. lease[att[a].k] = a
      BY <2>1 DEF Inv, Leased
    <2>3. CASE Consumable(a)
      <3> DEFINE r == [att[a] EXCEPT !.pc = "ended", !.permit = "CONSUMED"]
      <3>1. att' = [att EXCEPT ![a] = r] /\ lease' = [lease EXCEPT ![att[a].k] = None]
        BY <1>1, <2>3 DEF CompleteAttempt
      <3>2. r \in Permit /\ r.pc = "ended" /\ r.k = att[a].k /\ r.permit = "CONSUMED"
        BY <2>1 DEF Permit
      <3> HIDE DEF r
      <3>3. board' \in [Tickets -> Row]
        <4>1. PICK done \in BOOLEAN :
                board' = [board EXCEPT ![att[a].k].st = IF done THEN "done" ELSE @]
          BY <1>1, <2>3 DEF CompleteAttempt
        <4> DEFINE st == IF done THEN "done" ELSE board[att[a].k].st
        <4>2. board[att[a].k] \in Row /\ st \in {None, "open", "done"}
          BY <1>0, <2>1 DEF Row
        <4>3. board' = [board EXCEPT ![att[a].k] = [board[att[a].k] EXCEPT !.st = st]]
          BY <4>1
        <4> HIDE DEF st
        <4>4. [board[att[a].k] EXCEPT !.st = st] \in Row
          BY <4>2 DEF Row
        <4> QED BY <1>0, <4>3, <4>4
      <3> QED BY <1>0, <2>1, <2>2, <3>1, <3>2, <3>3, OneAttempt
              DEF InGuard, HasProcess, ActivePermit
    <2>4. CASE ~Consumable(a)
      <3> DEFINE r == [att[a] EXCEPT !.pc = "ended"]
      <3>1. att' = [att EXCEPT ![a] = r] /\ lease' = lease /\ board' = board
        BY <1>1, <2>4 DEF CompleteAttempt
      <3>2. r \in Permit /\ r.pc = "ended" /\ r.k = att[a].k /\ r.permit = att[a].permit
        BY <2>1 DEF Permit
      <3> HIDE DEF r
      <3> QED BY <1>0, <2>1, <3>1, <3>2, OneAttempt DEF InGuard, HasProcess
    <2> QED BY <2>3, <2>4
  <1>2. ASSUME NEW k \in Tickets, FinalizeAttempt(k) PROVE Inv'
    <2> DEFINE a == lease[k]
               p == IF att[a].permit = "RUNNING" THEN "CONSUMED" ELSE att[a].permit
               r == [att[a] EXCEPT !.pc = "ended", !.permit = p]
    <2>1. a \in Attempts /\ att[a].pc \in {"ended", "orphan"}
      BY <1>2 DEF FinalizeAttempt, Inv, Typed
    <2>2. att[a] \in Permit
      BY <2>1, Attempted DEF Inv
    <2>3. att' = [att EXCEPT ![a] = r]
      <3>1. att' = [att EXCEPT ![a].pc = "ended",
                               ![a].permit = IF @ = "RUNNING" THEN "CONSUMED" ELSE @]
        BY <1>2 DEF FinalizeAttempt
      <3>2. att \in [Attempts -> {NoAttempt} \cup Permit]
        BY DEF Inv, Typed
      <3> HIDE DEF a
      <3> QED BY <2>1, <3>1, <3>2
    <2>4. /\ p \in ActivePermit \cup {"REVOKED", "CONSUMED"}
          /\ p \in ActivePermit => att[a].permit \in ActivePermit
      BY <2>2 DEF Permit, ActivePermit
    <2> HIDE DEF p
    <2>5. r \in Permit /\ r.pc = "ended" /\ r.k = att[a].k /\ r.permit = p
      BY <2>2, <2>4 DEF Permit
    <2> HIDE DEF r
    <2>6. board' = board /\ lease' = [lease EXCEPT ![k] = None] /\ lease[k] = a
      BY <1>2 DEF FinalizeAttempt, handoffVars
    <2> HIDE DEF a
    <2> QED BY <1>0, <2>1, <2>3, <2>4, <2>5, <2>6, OneAttempt DEF InGuard, HasProcess
  <1> QED BY <1>1, <1>2

(* A crash lets nobody through the guard, and a process that survives it   *)
(* was there before.                                                       *)
LEMMA CrashKeeps ==
  ASSUME Inv, ServiceDies
  PROVE  Inv'
  <1>1. UNCHANGED <<batch, managed, revoked, board, lease, receipts, accepted>>
    BY DEF ServiceDies, planVars, handoffVars
  <1>2. ASSUME NEW b \in Attempts
        PROVE  /\ att'[b] \in {NoAttempt} \cup Permit
               /\ att'[b].pc \in {"new", "orphan", "ended"}
               /\ att'[b].pc = "orphan" => att[b].pc \in {"published", "up", "orphan"}
               /\ att'[b].pc # "new" => /\ att[b].pc # "new" /\ att'[b].k = att[b].k
                                        /\ att'[b].permit = att[b].permit
    <2> DEFINE pc == IF att[b].pc \in {"published", "up"} THEN "orphan" ELSE "ended"
    <2>1. CASE Dead(b) \/ att[b].pc = "orphan"
      <3>1. att'[b] = att[b]
        BY <2>1 DEF ServiceDies
      <3> QED BY <2>1, <3>1 DEF Dead, Inv, Typed
    <2>2. CASE ~(Dead(b) \/ att[b].pc = "orphan")
      <3>1. att'[b] = [att[b] EXCEPT !.pc = pc]
        BY <2>2 DEF ServiceDies
      <3>2. att[b] \in Permit /\ att[b].pc # "new"
        BY <2>2, Attempted DEF Dead, Inv
      <3>3. pc \in {"orphan", "ended"} /\ (pc = "orphan" => att[b].pc \in {"published", "up"})
        OBVIOUS
      <3> HIDE DEF pc
      <3> QED BY <3>1, <3>2, <3>3 DEF Permit
    <2> QED BY <2>1, <2>2
  <1>3. att' = [b \in Attempts |-> att'[b]]
    BY DEF ServiceDies
  <1>4. Typed'
    <2>1. att' \in [Attempts -> {NoAttempt} \cup Permit]
      BY <1>2, <1>3
    <2> QED BY <1>1, <2>1 DEF Inv, Typed
  <1>5. Guarded' /\ Permitted' /\ Receipted' /\ Leased' /\ AcceptedIsQuiet'
    BY <1>1, <1>2 DEF Inv, Guarded, Permitted, Receipted, Leased, AcceptedIsQuiet, InGuard, HasProcess
  <1>6. LaunchIsAuthorised'
    BY <1>2, LaunchEmpty DEF InGuard
  <1> QED BY <1>4, <1>5, <1>6 DEF Inv

LEMMA RevokeKeeps ==
  ASSUME Inv, NEW k \in Tickets, RevokeAuthority(k)
  PROVE  Inv'
  <1> DEFINE n == RevokeDispatch(att, k)
             m == [managed[k] EXCEPT !.st = "REVOKED"]
  <1>1. /\ lock = Free /\ lock' = lock /\ revoked' = revoked \cup {k} /\ att' = n
        /\ managed' = [managed EXCEPT ![k] = m]
        /\ UNCHANGED <<board, lease, receipts, accepted>>
    BY DEF RevokeAuthority, planVars, reviewVars
  <1>2. /\ Weaker(n)
        /\ \A b \in Attempts : att[b].pc # "new" /\ att[b].k = k => n[b].permit \notin ActivePermit
    BY RevokeWeakens DEF Inv
  <1>3. m \in [st : {None, "STAGING", "PUBLISHED", "REVOKED"}, op : Ops \cup {None}]
    BY DEF Inv, Typed
  <1> HIDE DEF n, m
  <1>4. Typed'
    BY <1>1, <1>2, <1>3 DEF Inv, Typed, Weaker
  <1>5. \A b \in Attempts : att'[b].pc = att[b].pc /\ att[b].pc \notin {"guard"} \cup InGuard
    BY <1>1, <1>2, NobodyInGuard DEF Inv, Weaker
  <1>6. Guarded' /\ LaunchIsAuthorised'
    BY <1>5, LaunchEmpty DEF Guarded
  <1>7. Permitted' /\ Receipted' /\ Leased' /\ AcceptedIsQuiet'
    BY <1>1, <1>2, <1>5 DEF Inv, Permitted, Receipted, Leased, AcceptedIsQuiet, Weaker, HasProcess
  <1> QED BY <1>4, <1>6, <1>7 DEF Inv

(* Receipts, acceptance and the operator's edits.                          *)
LEMMA ReceiptKeeps ==
  ASSUME Inv, NEW k \in Tickets, NEW p \in Procedures, NEW a \in Attempts,
         RunProcedure(k, p, a) \/ ConfirmManualEvidence(k, p, a)
  PROVE  Inv'
  <1>1. /\ receipts \subseteq receipts'
        /\ UNCHANGED <<batch, managed, revoked, board, approvals, accepted, ws, doc, lock, att, lease>>
    BY DEF RunProcedure, ConfirmManualEvidence, RecordVerification, planVars, handoffVars, runVars
  <1>2. LaunchIsAuthorised'
    BY <1>1, LaunchKept
  <1> QED BY <1>1, <1>2 DEF Inv, Typed, Guarded, Permitted, Receipted, Leased, AcceptedIsQuiet

LEMMA EditKeeps ==
  ASSUME Inv, NEW k \in Tickets, EditTicket(k)
  PROVE  Inv'
  <1>1. UNCHANGED <<batch, managed, revoked, approvals, accepted, receipts, ws, doc, lock, att, lease>>
    BY DEF EditTicket, planVars, runVars
  <1> DEFINE ver == 1 - board[k].ver
  <1>2. board[k] \in Row /\ ver \in 0..1 /\ board' = [board EXCEPT ![k] = [board[k] EXCEPT !.ver = ver]]
    BY DEF EditTicket, Inv, Typed, Row
  <1> HIDE DEF ver
  <1>3. [board[k] EXCEPT !.ver = ver] \in Row
    BY <1>2 DEF Row
  <1>4. board' \in [Tickets -> Row]
    BY <1>2, <1>3 DEF Inv, Typed
  <1>5. LaunchIsAuthorised'
    BY <1>1, LaunchKept
  <1> QED BY <1>1, <1>4, <1>5 DEF Inv, Typed, Guarded, Permitted, Receipted, Leased, AcceptedIsQuiet

LEMMA AcceptKeeps ==
  ASSUME Inv, NEW k \in Tickets, NEW a \in Attempts, Accept(k, a)
  PROVE  Inv'
  <1>1. /\ lock = Free /\ lease[k] = None /\ accepted' = [accepted EXCEPT ![k] = a]
        /\ \A p \in Procedures : <<k, p, a>> \in receipts
        /\ UNCHANGED <<batch, managed, revoked, receipts, lock, att, lease>>
    BY DEF Accept, NoNativeAttempt, AcceptanceReady, RecordAcceptance, planVars, runVars
  <1>2. board' \in [Tickets -> Row]
    <2>1. PICK done \in BOOLEAN :
            board' = [board EXCEPT ![k].st = IF done /\ @ # None THEN "done" ELSE @]
      BY DEF Accept, CompleteTicket
    <2> DEFINE st == IF done /\ board[k].st # None THEN "done" ELSE board[k].st
    <2>2. board[k] \in Row /\ st \in {None, "open", "done"}
      BY DEF Inv, Typed, Row
    <2>3. board' = [board EXCEPT ![k] = [board[k] EXCEPT !.st = st]]
      BY <2>1
    <2> HIDE DEF st
    <2>4. [board[k] EXCEPT !.st = st] \in Row
      BY <2>2 DEF Row
    <2> QED BY <2>3, <2>4 DEF Inv, Typed
  <1>3. \A b \in Attempts : att[b].pc \notin {"guard"} \cup InGuard
    BY <1>1, NobodyInGuard DEF Inv
  <1>4. Typed' /\ Guarded' /\ Permitted' /\ Leased' /\ LaunchIsAuthorised'
    BY <1>1, <1>2, <1>3, LaunchEmpty DEF Inv, Typed, Guarded, Permitted, Leased
  <1>5. Receipted'
    BY <1>1 DEF Inv, Receipted, Typed
  <1>6. AcceptedIsQuiet'
    <2> SUFFICES ASSUME NEW b \in Attempts, att[b].pc \in HasProcess
                 PROVE  accepted'[att[b].k] = None
      BY <1>1 DEF AcceptedIsQuiet
    <2>1. lease[att[b].k] = b /\ accepted[att[b].k] = None
      BY DEF Inv, Leased, AcceptedIsQuiet, HasProcess
    <2>2. att[b].k # k /\ att[b].k \in Tickets
      BY <1>1, <2>1, PmAssumption, Attempted DEF None, Inv, Permit, HasProcess
    <2> QED BY <1>1, <2>1, <2>2 DEF Inv, Typed
  <1> QED BY <1>4, <1>5, <1>6 DEF Inv

-----------------------------------------------------------------------------
LEMMA InitInv == ASSUME InitAuthority PROVE Inv
  <1>1. Typed
    BY DEF InitAuthority, Typed, Row, NoAttempt
  <1>2. \A a \in Attempts : att[a].pc = "new"
    BY DEF InitAuthority, NoAttempt
  <1> QED BY <1>1, <1>2 DEF InitAuthority, Inv, Guarded, Permitted, Receipted, Leased, LaunchIsAuthorised,
                             AcceptedIsQuiet, InGuard, HasProcess

LEMMA AuthorityInvariant == AuthoritySpec => []Inv
  <1>1. Inv /\ [NextAuthority]_authorityVars => Inv'
    <2> SUFFICES ASSUME Inv, [NextAuthority]_authorityVars PROVE Inv'
      OBVIOUS
    <2>1. CASE UNCHANGED authorityVars
      <3>1. UNCHANGED <<batch, managed, revoked, board, approvals, accepted, receipts, ws, doc, lock,
                        att, lease>>
        BY <2>1 DEF authorityVars
      <3>2. LaunchIsAuthorised'
        BY <3>1, LaunchKept
      <3> QED BY <3>1, <3>2 DEF Inv, Typed, Guarded, Permitted, Receipted, Leased, AcceptedIsQuiet
    <2>2. CASE AttemptStep
      BY <2>2, ReserveKeeps, GuardKeeps, EndKeeps DEF AttemptStep
    <2>3. CASE ReviewStep
      BY <2>3, EndKeeps, RevokeKeeps, EditKeeps, AcceptKeeps, ReceiptKeeps DEF ReviewStep
    <2> QED BY <2>1, <2>2, <2>3, PlanKeeps, HandoffKeeps, CrashKeeps DEF NextAuthority
  <1> QED BY <1>1, InitInv, PTL DEF AuthoritySpec

(* From the moment the launch guard has checked a ticket until the started *)
(* process is published, the ticket's authority still stands, whatever     *)
(* operators, editors, other attempts and crashes do in between            *)
(* (authority.py launch_guard).                                            *)
THEOREM LaunchesAreAuthorised == AuthoritySpec => []LaunchIsAuthorised
  BY AuthorityInvariant, PTL DEF Inv

(* An accepted task revision has no native process, and gets none again    *)
(* (verification.py accept, authority.py recognize).                       *)
THEOREM AcceptedStaysQuiet == AuthoritySpec => []AcceptedIsQuiet
  BY AuthorityInvariant, PTL DEF Inv

-----------------------------------------------------------------------------
(* The planning documents.                                                 *)
LedgerSet == [active : SUBSET Ids, retired : SUBSET Ids]
SemSet == [on : {TRUE}, doc : BOOLEAN, id : BOOLEAN, tasks : SUBSET Ids, ident : LedgerSet]
MultiSet == [on : {TRUE}, tasks : SUBSET Ids, spec : Nat, ident : LedgerSet]
ProposalSet == [st : {Absent, "completed", "applied"}, ids : SUBSET Ids,
                base : {<< >>} \cup ((SUBSET Ids) \X Nat \X LedgerSet)]

\* Program points of the three writers: one document, several, recovery.
SemJournaled == {"journal", "document", "identity"}
SemPoints == {"staged"} \cup SemJournaled
MultiPoints == {"multi", "tasks", "spec", "multi_identity"}
RecoveryPoints == {"recover", "recover_document", "recover_identity"}
JobSet ==
  [pc : {Absent} \cup RecoveryPoints] \cup
  [pc : SemPoints, tasks : SUBSET Ids, ident : LedgerSet] \cup
  [pc : MultiPoints, tasks : SUBSET Ids, spec : Nat, ident : LedgerSet]

DocsTyped ==
  /\ tasks \in SUBSET Ids /\ ever \in SUBSET Ids /\ spec \in Nat /\ ident \in LedgerSet
  /\ sem \in {NoJournal} \cup SemSet /\ multi \in {NoJournal} \cup MultiSet
  /\ job \in JobSet
  /\ claimState \in {"ACTIVE", "EXTERNAL_EDIT", "REPAIR_REQUIRED"} /\ rebound \in BOOLEAN
  /\ externals \in Nat
  /\ proposal \in ProposalSet

\* One journal at a time, and the writer that is at work wrote it.
Journals ==
  /\ ~(sem.on /\ multi.on)
  /\ job.pc = "staged" => Recovered
  /\ job.pc \in SemJournaled => sem.on
  /\ job.pc \in MultiPoints => multi.on
  /\ job.pc \in RecoveryPoints => ~Recovered
  /\ claimState = "EXTERNAL_EDIT" => externals # 0

\* A task set and a ledger that belong together, and remember every id.
Whole(t, l) ==
  /\ t = l.active
  /\ externals = 0 => ever \subseteq l.active \cup l.retired
Proper(w) == Whole(w.tasks, w.ident)

\* How much of a journal's content has reached the files.
SemProgress ==
  /\ job.pc \in SemPoints => Proper(job)
  /\ job.pc = "staged" => Whole(tasks, ident)
  /\ job.pc \in SemJournaled => sem.tasks = job.tasks /\ sem.ident = job.ident
  /\ job.pc \in {"document", "identity"} => tasks = job.tasks
  /\ job.pc = "identity" => ident = job.ident
  /\ sem.on => /\ Proper(sem)
               /\ ~sem.doc => tasks = sem.tasks
               /\ ~sem.id => ident = sem.ident
               /\ job.pc \in {"recover_document", "recover_identity"} => ~sem.doc
               /\ job.pc = "recover_identity" => ~sem.id
MultiProgress ==
  /\ job.pc \in MultiPoints =>
       Proper(job) /\ multi.tasks = job.tasks /\ multi.ident = job.ident
  /\ job.pc \in {"tasks", "spec", "multi_identity"} => tasks = job.tasks
  /\ job.pc = "multi_identity" => ident = job.ident
  /\ multi.on => /\ Proper(multi)
                 /\ job.pc \in {"recover_document", "recover_identity"} => tasks = multi.tasks
                 /\ job.pc = "recover_identity" => ident = multi.ident

\* A claim nobody edits outside the service and nobody had to repair.
Trusted == claimState = "ACTIVE" /\ ~rebound
Settled == Unlocked /\ Recovered => Whole(tasks, ident)

DocsInv == DocsTyped /\ Journals /\ (Trusted => Settled /\ SemProgress /\ MultiProgress)

-----------------------------------------------------------------------------
(* An operation under way is at one of the points of its writer.           *)
LEMMA JobFacts ==
  ASSUME DocsTyped
  PROVE  /\ job.pc \in {Absent} \cup SemPoints \cup MultiPoints \cup RecoveryPoints
         /\ job.pc = Absent => Unlocked
<1>1. CASE job \in [pc : {Absent} \cup RecoveryPoints]
  BY <1>1 DEF Unlocked, NoJob
<1>2. CASE job \in [pc : SemPoints, tasks : SUBSET Ids, ident : LedgerSet]
  BY <1>2 DEF SemPoints, SemJournaled, Absent
<1>3. CASE job \in [pc : MultiPoints, tasks : SUBSET Ids, spec : Nat, ident : LedgerSet]
  BY <1>3 DEF MultiPoints, Absent
<1> QED BY <1>1, <1>2, <1>3 DEF DocsTyped, JobSet

(* The ledger that reconciles a new task set belongs to it.                *)
LEMMA ReconcileIsWhole ==
  ASSUME Whole(tasks, ident), NEW after, NEW minted, NEW restored,
         Reconciles(after, minted, restored), restored \subseteq after
  PROVE  Whole(after, Reconcile(after, restored))
<1>1. Reconcile(after, restored).active = (ident.active \ (tasks \ after)) \cup after
      /\ Reconcile(after, restored).retired = (ident.retired \cup (tasks \ after)) \ restored
  BY DEF Reconcile, Ledger
<1> QED BY <1>1 DEF Whole

(* What a writer stages belongs together.                                  *)
LEMMA StageSafe ==
  ASSUME DocsInv, Writable, NEW after \in SUBSET Ids, NEW minted, NEW restored \in SUBSET after,
         Reconciles(after, minted, restored), Stage(after, restored)
  PROVE  DocsInv'
<1>1. DocsTyped /\ Journals /\ (Trusted => Settled /\ SemProgress /\ MultiProgress)
  BY DEF DocsInv
<1> DEFINE next == Reconcile(after, restored)
<1>2. next \in LedgerSet
  BY <1>1 DEF DocsTyped, LedgerSet, ProposalSet, Reconcile, Ledger
<1>3. /\ Recovered /\ Unlocked /\ job' = [pc |-> "staged", tasks |-> after, ident |-> next]
      /\ UNCHANGED <<tasks, spec, ident, sem, multi, ever, claimState, approved, proposal, rebound,
                     legacy, externals>>
  BY DEF Stage, Writable, files, claimVars
<1>4. Trusted => Whole(tasks, ident) /\ Whole(after, next)
  BY <1>1, <1>3, ReconcileIsWhole DEF Settled
<1> HIDE DEF next
<1>5. DocsTyped'
  BY <1>1, <1>2, <1>3 DEF DocsTyped, JobSet, SemPoints
<1>6. Journals'
  BY <1>1, <1>3 DEF Journals, SemJournaled, MultiPoints, RecoveryPoints, Recovered
<1>7. Trusted' => Settled' /\ SemProgress' /\ MultiProgress'
  BY <1>3, <1>4 DEF Trusted, Settled, SemProgress, MultiProgress, Proper, Whole, Unlocked, NoJob, Absent, Recovered, SemPoints, SemJournaled, MultiPoints
<1> QED BY <1>5, <1>6, <1>7 DEF DocsInv

(* So does what a proposal writes.                                         *)
LEMMA ApplyProposalSafe ==
  ASSUME DocsInv, ApplyProposal
  PROVE  DocsInv'
<1>1. DocsTyped /\ Journals /\ (Trusted => Settled /\ SemProgress /\ MultiProgress)
  BY DEF DocsInv
<1> DEFINE after == tasks \cup proposal.ids
           next == Reconcile(after, {})
<1>2. next \in LedgerSet /\ after \in SUBSET Ids
  BY <1>1 DEF DocsTyped, LedgerSet, ProposalSet, Reconcile, Ledger
<1>3. /\ Recovered /\ Unlocked
      /\ job' = [pc |-> "multi", tasks |-> after, spec |-> spec + 1, ident |-> next]
      /\ multi' = [on |-> TRUE, tasks |-> job'.tasks, spec |-> job'.spec, ident |-> job'.ident]
      /\ UNCHANGED <<tasks, spec, ident, sem, ever, claimState, approved, proposal, rebound,
                     legacy, externals>>
  BY DEF ApplyProposal, claimVars
<1>4. Trusted => Whole(tasks, ident) /\ Whole(after, next)
  BY <1>1, <1>3, ReconcileIsWhole DEF Settled, ApplyProposal
<1> HIDE DEF next, after
<1>5. multi' = [on |-> TRUE, tasks |-> after, spec |-> spec + 1, ident |-> next]
  BY <1>3
<1>6. DocsTyped'
  BY <1>1, <1>2, <1>3, <1>5 DEF DocsTyped, JobSet, MultiSet, MultiPoints
<1>7. Journals'
  BY <1>1, <1>3, <1>5 DEF Journals, SemJournaled, MultiPoints, RecoveryPoints, Recovered
<1>8. Trusted' => Settled' /\ SemProgress' /\ MultiProgress'
  BY <1>3, <1>4, <1>5 DEF Trusted, Settled, SemProgress, MultiProgress, Proper, Whole, Unlocked, NoJob, Absent, Recovered, SemPoints, SemJournaled
<1> QED BY <1>6, <1>7, <1>8 DEF DocsInv

(* Creating, deleting, restoring a work item.                              *)
LEMMA WriterSafe ==
  ASSUME DocsInv, CreateTask \/ DeleteTask \/ RestoreTask
  PROVE  DocsInv'
<1>1. tasks \in SUBSET Ids /\ ident.retired \in SUBSET Ids
  BY DEF DocsInv, DocsTyped, LedgerSet
<1>2. CASE CreateTask
  BY <1>1, <1>2, StageSafe DEF CreateTask, Mintable
<1>3. CASE DeleteTask
  BY <1>1, <1>3, StageSafe DEF DeleteTask
<1>4. CASE RestoreTask
  BY <1>1, <1>4, StageSafe DEF RestoreTask
<1> QED BY <1>2, <1>3, <1>4

(* The journal names what was staged.                                      *)
LEMMA WriteJournalSafe ==
  ASSUME DocsInv, WriteJournal
  PROVE  DocsInv'
<1>1. DocsTyped /\ Journals /\ (Trusted => Settled /\ SemProgress /\ MultiProgress)
  BY DEF DocsInv
<1>2. DocsTyped'
  BY <1>1 DEF WriteJournal, files, claimVars, bounds, DocsTyped, LedgerSet, SemSet, MultiSet, ProposalSet, JobSet, SemPoints, SemJournaled, MultiPoints, RecoveryPoints, Absent, NoJob, NoJournal, Ledger, Recovered, Journals
<1>3. Journals'
  BY <1>1 DEF WriteJournal, files, claimVars, bounds, Journals, SemPoints, SemJournaled, MultiPoints, RecoveryPoints, Absent, NoJob, NoJournal, Unlocked, Recovered
<1>4. ASSUME Trusted'
      PROVE  Settled' /\ SemProgress' /\ MultiProgress'
  <2>1. Trusted /\ Settled /\ SemProgress /\ MultiProgress
    BY <1>1, <1>4 DEF WriteJournal, files, claimVars, bounds, Trusted
  <2>2. Settled'
    BY <1>1, <1>4, <2>1 DEF WriteJournal, files, claimVars, bounds, DocsTyped, LedgerSet, Journals, Settled, SemProgress, MultiProgress, Proper, Whole, SemPoints, SemJournaled, MultiPoints, RecoveryPoints, Absent, NoJob, NoJournal, Unlocked, Recovered
  <2>3. SemProgress'
    BY <1>1, <1>4, <2>1 DEF WriteJournal, files, claimVars, bounds, DocsTyped, LedgerSet, Journals, Settled, SemProgress, Proper, Whole, SemPoints, SemJournaled, MultiPoints, RecoveryPoints, Absent, NoJob, NoJournal, Unlocked, Recovered
  <2>4. MultiProgress'
    BY <1>1, <1>4, <2>1 DEF WriteJournal, files, claimVars, bounds, DocsTyped, LedgerSet, Journals, Settled, MultiProgress, Proper, Whole, SemPoints, SemJournaled, MultiPoints, RecoveryPoints, Absent, NoJob, NoJournal, Unlocked, Recovered
  <2> QED BY <2>2, <2>3, <2>4
<1> QED BY <1>2, <1>3, <1>4 DEF DocsInv

(* The document is in place.                                               *)
LEMMA ReplaceDocumentSafe ==
  ASSUME DocsInv, ReplaceDocument
  PROVE  DocsInv'
<1>1. DocsTyped /\ Journals /\ (Trusted => Settled /\ SemProgress /\ MultiProgress)
  BY DEF DocsInv
<1>2. DocsTyped'
  BY <1>1 DEF ReplaceDocument, files, claimVars, bounds, DocsTyped, LedgerSet, SemSet, MultiSet, ProposalSet, JobSet, SemPoints, SemJournaled, MultiPoints, RecoveryPoints, Absent, NoJob, NoJournal, Ledger, Recovered, Journals
<1>3. Journals'
  BY <1>1 DEF ReplaceDocument, files, claimVars, bounds, Journals, SemPoints, SemJournaled, MultiPoints, RecoveryPoints, Absent, NoJob, NoJournal, Unlocked, Recovered
<1>4. ASSUME Trusted'
      PROVE  Settled' /\ SemProgress' /\ MultiProgress'
  <2>1. Trusted /\ Settled /\ SemProgress /\ MultiProgress
    BY <1>1, <1>4 DEF ReplaceDocument, files, claimVars, bounds, Trusted
  <2>2. Settled'
    BY <1>1, <1>4, <2>1 DEF ReplaceDocument, files, claimVars, bounds, DocsTyped, LedgerSet, Journals, Settled, SemProgress, MultiProgress, Proper, Whole, SemPoints, SemJournaled, MultiPoints, RecoveryPoints, Absent, NoJob, NoJournal, Unlocked, Recovered
  <2>3. SemProgress'
    BY <1>1, <1>4, <2>1 DEF ReplaceDocument, files, claimVars, bounds, DocsTyped, LedgerSet, Journals, Settled, SemProgress, Proper, Whole, SemPoints, SemJournaled, MultiPoints, RecoveryPoints, Absent, NoJob, NoJournal, Unlocked, Recovered
  <2>4. MultiProgress'
    BY <1>1, <1>4, <2>1 DEF ReplaceDocument, files, claimVars, bounds, DocsTyped, LedgerSet, Journals, Settled, MultiProgress, Proper, Whole, SemPoints, SemJournaled, MultiPoints, RecoveryPoints, Absent, NoJob, NoJournal, Unlocked, Recovered
  <2> QED BY <2>2, <2>3, <2>4
<1> QED BY <1>2, <1>3, <1>4 DEF DocsInv

(* The ledger is in place.                                                 *)
LEMMA ReplaceIdentitySafe ==
  ASSUME DocsInv, ReplaceIdentity
  PROVE  DocsInv'
<1>1. DocsTyped /\ Journals /\ (Trusted => Settled /\ SemProgress /\ MultiProgress)
  BY DEF DocsInv
<1>2. DocsTyped'
  BY <1>1 DEF ReplaceIdentity, files, claimVars, bounds, DocsTyped, LedgerSet, SemSet, MultiSet, ProposalSet, JobSet, SemPoints, SemJournaled, MultiPoints, RecoveryPoints, Absent, NoJob, NoJournal, Ledger, Recovered, Journals
<1>3. Journals'
  BY <1>1 DEF ReplaceIdentity, files, claimVars, bounds, Journals, SemPoints, SemJournaled, MultiPoints, RecoveryPoints, Absent, NoJob, NoJournal, Unlocked, Recovered
<1>4. ASSUME Trusted'
      PROVE  Settled' /\ SemProgress' /\ MultiProgress'
  <2>1. Trusted /\ Settled /\ SemProgress /\ MultiProgress
    BY <1>1, <1>4 DEF ReplaceIdentity, files, claimVars, bounds, Trusted
  <2>2. Settled'
    BY <1>1, <1>4, <2>1 DEF ReplaceIdentity, files, claimVars, bounds, DocsTyped, LedgerSet, Journals, Settled, SemProgress, MultiProgress, Proper, Whole, SemPoints, SemJournaled, MultiPoints, RecoveryPoints, Absent, NoJob, NoJournal, Unlocked, Recovered
  <2>3. SemProgress'
    BY <1>1, <1>4, <2>1 DEF ReplaceIdentity, files, claimVars, bounds, DocsTyped, LedgerSet, Journals, Settled, SemProgress, Proper, Whole, SemPoints, SemJournaled, MultiPoints, RecoveryPoints, Absent, NoJob, NoJournal, Unlocked, Recovered
  <2>4. MultiProgress'
    BY <1>1, <1>4, <2>1 DEF ReplaceIdentity, files, claimVars, bounds, DocsTyped, LedgerSet, Journals, Settled, MultiProgress, Proper, Whole, SemPoints, SemJournaled, MultiPoints, RecoveryPoints, Absent, NoJob, NoJournal, Unlocked, Recovered
  <2> QED BY <2>2, <2>3, <2>4
<1> QED BY <1>2, <1>3, <1>4 DEF DocsInv

(* The journal goes when both are.                                         *)
LEMMA UnlinkSafe ==
  ASSUME DocsInv, Unlink
  PROVE  DocsInv'
<1>1. DocsTyped /\ Journals /\ (Trusted => Settled /\ SemProgress /\ MultiProgress)
  BY DEF DocsInv
<1>2. DocsTyped'
  BY <1>1 DEF Unlink, files, claimVars, bounds, DocsTyped, LedgerSet, SemSet, MultiSet, ProposalSet, JobSet, SemPoints, SemJournaled, MultiPoints, RecoveryPoints, Absent, NoJob, NoJournal, Ledger, Recovered, Journals
<1>3. Journals'
  BY <1>1 DEF Unlink, files, claimVars, bounds, Journals, SemPoints, SemJournaled, MultiPoints, RecoveryPoints, Absent, NoJob, NoJournal, Unlocked, Recovered
<1>4. ASSUME Trusted'
      PROVE  Settled' /\ SemProgress' /\ MultiProgress'
  <2>1. Trusted /\ Settled /\ SemProgress /\ MultiProgress
    BY <1>1, <1>4 DEF Unlink, files, claimVars, bounds, Trusted
  <2>2. Settled'
    BY <1>1, <1>4, <2>1 DEF Unlink, files, claimVars, bounds, DocsTyped, LedgerSet, Journals, Settled, SemProgress, MultiProgress, Proper, Whole, SemPoints, SemJournaled, MultiPoints, RecoveryPoints, Absent, NoJob, NoJournal, Unlocked, Recovered
  <2>3. SemProgress'
    BY <1>1, <1>4, <2>1 DEF Unlink, files, claimVars, bounds, DocsTyped, LedgerSet, Journals, Settled, SemProgress, Proper, Whole, SemPoints, SemJournaled, MultiPoints, RecoveryPoints, Absent, NoJob, NoJournal, Unlocked, Recovered
  <2>4. MultiProgress'
    BY <1>1, <1>4, <2>1 DEF Unlink, files, claimVars, bounds, DocsTyped, LedgerSet, Journals, Settled, MultiProgress, Proper, Whole, SemPoints, SemJournaled, MultiPoints, RecoveryPoints, Absent, NoJob, NoJournal, Unlocked, Recovered
  <2> QED BY <2>2, <2>3, <2>4
<1> QED BY <1>2, <1>3, <1>4 DEF DocsInv

(* A journal that is left is rolled forward.                               *)
LEMMA BeginRecoverySafe ==
  ASSUME DocsInv, BeginRecovery
  PROVE  DocsInv'
<1>1. DocsTyped /\ Journals /\ (Trusted => Settled /\ SemProgress /\ MultiProgress)
  BY DEF DocsInv
<1>2. DocsTyped'
  BY <1>1 DEF BeginRecovery, files, claimVars, bounds, DocsTyped, LedgerSet, SemSet, MultiSet, ProposalSet, JobSet, SemPoints, SemJournaled, MultiPoints, RecoveryPoints, Absent, NoJob, NoJournal, Ledger, Recovered, Journals
<1>3. Journals'
  BY <1>1 DEF BeginRecovery, files, claimVars, bounds, Journals, SemPoints, SemJournaled, MultiPoints, RecoveryPoints, Absent, NoJob, NoJournal, Unlocked, Recovered
<1>4. ASSUME Trusted'
      PROVE  Settled' /\ SemProgress' /\ MultiProgress'
  <2>1. Trusted /\ Settled /\ SemProgress /\ MultiProgress
    BY <1>1, <1>4 DEF BeginRecovery, files, claimVars, bounds, Trusted
  <2>2. Settled'
    BY <1>1, <1>4, <2>1 DEF BeginRecovery, files, claimVars, bounds, DocsTyped, LedgerSet, Journals, Settled, SemProgress, MultiProgress, Proper, Whole, SemPoints, SemJournaled, MultiPoints, RecoveryPoints, Absent, NoJob, NoJournal, Unlocked, Recovered
  <2>3. SemProgress'
    BY <1>1, <1>4, <2>1 DEF BeginRecovery, files, claimVars, bounds, DocsTyped, LedgerSet, Journals, Settled, SemProgress, Proper, Whole, SemPoints, SemJournaled, MultiPoints, RecoveryPoints, Absent, NoJob, NoJournal, Unlocked, Recovered
  <2>4. MultiProgress'
    BY <1>1, <1>4, <2>1 DEF BeginRecovery, files, claimVars, bounds, DocsTyped, LedgerSet, Journals, Settled, MultiProgress, Proper, Whole, SemPoints, SemJournaled, MultiPoints, RecoveryPoints, Absent, NoJob, NoJournal, Unlocked, Recovered
  <2> QED BY <2>2, <2>3, <2>4
<1> QED BY <1>2, <1>3, <1>4 DEF DocsInv

(* Recovery replaces the document first.                                   *)
LEMMA RecoverDocumentSafe ==
  ASSUME DocsInv, RecoverDocument
  PROVE  DocsInv'
<1>1. DocsTyped /\ Journals /\ (Trusted => Settled /\ SemProgress /\ MultiProgress)
  BY DEF DocsInv
<1>2. DocsTyped' /\ Journals'
  <2>1. CASE sem.on
    <3>1. sem \in SemSet /\ sem' = [sem EXCEPT !.doc = FALSE] /\ tasks' \in {sem.tasks, tasks} /\ spec' = spec
      BY <1>1, <2>1 DEF RecoverDocument, DocsTyped, NoJournal
    <3>2. sem' \in SemSet /\ sem'.on /\ tasks' \in SUBSET Ids
      BY <1>1, <3>1 DEF SemSet, DocsTyped
    <3>3. DocsTyped'
      BY <1>1, <3>1, <3>2 DEF RecoverDocument, DocsTyped, JobSet, RecoveryPoints, claimVars, bounds
    <3> QED BY <1>1, <2>1, <3>2, <3>3 DEF RecoverDocument, Journals, SemPoints, SemJournaled, MultiPoints, RecoveryPoints, Absent, NoJob, NoJournal, Unlocked, Recovered, claimVars, bounds
  <2>2. CASE ~sem.on
    <3>1. multi \in MultiSet /\ multi.on /\ tasks' = multi.tasks /\ spec' = multi.spec /\ sem' = sem
      BY <1>1, <2>2 DEF RecoverDocument, DocsTyped, Journals, Recovered, RecoveryPoints, NoJournal
    <3>2. tasks' \in SUBSET Ids /\ spec' \in Nat
      BY <1>1, <3>1 DEF MultiSet
    <3>3. DocsTyped'
      BY <1>1, <3>1, <3>2 DEF RecoverDocument, DocsTyped, JobSet, RecoveryPoints, claimVars, bounds
    <3> QED BY <1>1, <2>2, <3>1, <3>3 DEF RecoverDocument, Journals, SemPoints, SemJournaled, MultiPoints, RecoveryPoints, Absent, NoJob, NoJournal, Unlocked, Recovered, claimVars, bounds
  <2> QED BY <2>1, <2>2
<1>3. sem.on => sem' = [sem EXCEPT !.doc = FALSE] /\ sem \in SemSet
  BY <1>1 DEF RecoverDocument, DocsTyped, NoJournal
<1>5. sem.on => /\ sem'.on /\ ~sem'.doc /\ sem'.tasks = sem.tasks /\ sem'.ident = sem.ident
                 /\ sem'.id = sem.id
  BY <1>3 DEF SemSet
<1>4. ASSUME Trusted'
      PROVE  Settled' /\ SemProgress' /\ MultiProgress'
  <2>1. /\ Trusted /\ SemProgress /\ MultiProgress /\ job'.pc = "recover_document" /\ job.pc = "recover"
        /\ UNCHANGED <<ident, multi, externals>> /\ ever' = ever \cup tasks'
    BY <1>1, <1>4 DEF RecoverDocument, claimVars, bounds, Trusted
  <2>2. CASE sem.on
    <3>1. ~multi.on /\ tasks' = sem.tasks /\ Proper(sem)
      BY <1>1, <2>1, <2>2 DEF RecoverDocument, Journals, SemProgress
    <3>2. Proper(sem)'
      BY <1>5, <2>1, <2>2, <3>1 DEF Proper, Whole
    <3> QED BY <1>5, <2>1, <2>2, <3>1, <3>2 DEF Settled, SemProgress, MultiProgress, Unlocked, NoJob, Absent, SemPoints, SemJournaled, MultiPoints
  <2>3. CASE ~sem.on
    <3>1. multi.on /\ tasks' = multi.tasks /\ Proper(multi) /\ sem' = sem
      BY <1>1, <2>1, <2>3 DEF RecoverDocument, Journals, MultiProgress, RecoveryPoints, Recovered
    <3>2. Proper(multi)'
      BY <2>1, <3>1 DEF Proper, Whole
    <3> QED BY <2>1, <2>3, <3>1, <3>2 DEF Settled, SemProgress, MultiProgress, Unlocked, NoJob, Absent, SemPoints, SemJournaled, MultiPoints
  <2> QED BY <2>2, <2>3
<1> QED BY <1>2, <1>4 DEF DocsInv

(* Recovery replaces the ledger.                                           *)
LEMMA RecoverIdentitySafe ==
  ASSUME DocsInv, RecoverIdentity
  PROVE  DocsInv'
<1>1. DocsTyped /\ Journals /\ (Trusted => Settled /\ SemProgress /\ MultiProgress)
  BY DEF DocsInv
<1>2. DocsTyped'
  BY <1>1 DEF RecoverIdentity, files, claimVars, bounds, DocsTyped, LedgerSet, SemSet, MultiSet, ProposalSet, JobSet, SemPoints, SemJournaled, MultiPoints, RecoveryPoints, Absent, NoJob, NoJournal, Ledger, Recovered, Journals
<1>3. Journals'
  BY <1>1 DEF RecoverIdentity, files, claimVars, bounds, Journals, SemPoints, SemJournaled, MultiPoints, RecoveryPoints, Absent, NoJob, NoJournal, Unlocked, Recovered
<1>4. ASSUME Trusted'
      PROVE  Settled' /\ SemProgress' /\ MultiProgress'
  <2>1. Trusted /\ Settled /\ SemProgress /\ MultiProgress
    BY <1>1, <1>4 DEF RecoverIdentity, files, claimVars, bounds, Trusted
  <2>2. Settled'
    BY <1>1, <1>4, <2>1 DEF RecoverIdentity, files, claimVars, bounds, DocsTyped, LedgerSet, Journals, Settled, SemProgress, MultiProgress, Proper, Whole, SemPoints, SemJournaled, MultiPoints, RecoveryPoints, Absent, NoJob, NoJournal, Unlocked, Recovered
  <2>3. SemProgress'
    BY <1>1, <1>4, <2>1 DEF RecoverIdentity, files, claimVars, bounds, DocsTyped, LedgerSet, Journals, Settled, SemProgress, Proper, Whole, SemPoints, SemJournaled, MultiPoints, RecoveryPoints, Absent, NoJob, NoJournal, Unlocked, Recovered
  <2>4. MultiProgress'
    BY <1>1, <1>4, <2>1 DEF RecoverIdentity, files, claimVars, bounds, DocsTyped, LedgerSet, Journals, Settled, MultiProgress, Proper, Whole, SemPoints, SemJournaled, MultiPoints, RecoveryPoints, Absent, NoJob, NoJournal, Unlocked, Recovered
  <2> QED BY <2>2, <2>3, <2>4
<1> QED BY <1>2, <1>3, <1>4 DEF DocsInv

(* Recovery drops a journal whose targets match it.                        *)
LEMMA RecoverUnlinkSafe ==
  ASSUME DocsInv, RecoverUnlink
  PROVE  DocsInv'
<1>1. DocsTyped /\ Journals /\ (Trusted => Settled /\ SemProgress /\ MultiProgress)
  BY DEF DocsInv
<1>2. DocsTyped'
  BY <1>1 DEF RecoverUnlink, files, claimVars, bounds, DocsTyped, LedgerSet, SemSet, MultiSet, ProposalSet, JobSet, SemPoints, SemJournaled, MultiPoints, RecoveryPoints, Absent, NoJob, NoJournal, Ledger, Recovered, Journals
<1>3. Journals'
  BY <1>1 DEF RecoverUnlink, files, claimVars, bounds, Journals, SemPoints, SemJournaled, MultiPoints, RecoveryPoints, Absent, NoJob, NoJournal, Unlocked, Recovered
<1>4. ASSUME Trusted'
      PROVE  Settled' /\ SemProgress' /\ MultiProgress'
  <2>1. Trusted /\ Settled /\ SemProgress /\ MultiProgress
    BY <1>1, <1>4 DEF RecoverUnlink, files, claimVars, bounds, Trusted
  <2>2. Settled'
    BY <1>1, <1>4, <2>1 DEF RecoverUnlink, files, claimVars, bounds, DocsTyped, LedgerSet, Journals, Settled, SemProgress, MultiProgress, Proper, Whole, SemPoints, SemJournaled, MultiPoints, RecoveryPoints, Absent, NoJob, NoJournal, Unlocked, Recovered
  <2>3. SemProgress'
    BY <1>1, <1>4, <2>1 DEF RecoverUnlink, files, claimVars, bounds, DocsTyped, LedgerSet, Journals, Settled, SemProgress, Proper, Whole, SemPoints, SemJournaled, MultiPoints, RecoveryPoints, Absent, NoJob, NoJournal, Unlocked, Recovered
  <2>4. MultiProgress'
    BY <1>1, <1>4, <2>1 DEF RecoverUnlink, files, claimVars, bounds, DocsTyped, LedgerSet, Journals, Settled, MultiProgress, Proper, Whole, SemPoints, SemJournaled, MultiPoints, RecoveryPoints, Absent, NoJob, NoJournal, Unlocked, Recovered
  <2> QED BY <2>2, <2>3, <2>4
<1> QED BY <1>2, <1>3, <1>4 DEF DocsInv

(* Reserved ids are no part of the plan yet.                               *)
LEMMA CompleteProposalSafe ==
  ASSUME DocsInv, CompleteProposal
  PROVE  DocsInv'
<1>1. DocsTyped /\ Journals /\ (Trusted => Settled /\ SemProgress /\ MultiProgress)
  BY DEF DocsInv
<1>2. DocsTyped'
  <2>1. Revision \in (SUBSET Ids) \X Nat \X LedgerSet
    BY <1>1 DEF Revision, DocsTyped
  <2>2. PICK id \in Ids : proposal' = [st |-> "completed", ids |-> {id}, base |-> Revision]
    BY DEF CompleteProposal, Mintable
  <2>3. proposal' \in ProposalSet
    BY <2>1, <2>2 DEF ProposalSet
  <2> QED BY <1>1, <2>3 DEF CompleteProposal, files, bounds, DocsTyped
<1>3. Journals'
  BY <1>1 DEF CompleteProposal, files, claimVars, bounds, Mintable, Revision, Journals, SemPoints, SemJournaled, MultiPoints, RecoveryPoints, Absent, NoJob, NoJournal, Unlocked, Recovered
<1>4. ASSUME Trusted'
      PROVE  Settled' /\ SemProgress' /\ MultiProgress'
  <2>1. Trusted /\ Settled /\ SemProgress /\ MultiProgress
    BY <1>1, <1>4 DEF CompleteProposal, files, claimVars, bounds, Mintable, Revision, Trusted
  <2>2. Settled'
    BY <1>1, <1>4, <2>1 DEF CompleteProposal, files, claimVars, bounds, Mintable, Revision, DocsTyped, LedgerSet, Journals, Settled, SemProgress, MultiProgress, Proper, Whole, SemPoints, SemJournaled, MultiPoints, RecoveryPoints, Absent, NoJob, NoJournal, Unlocked, Recovered
  <2>3. SemProgress'
    BY <1>1, <1>4, <2>1 DEF CompleteProposal, files, claimVars, bounds, Mintable, Revision, DocsTyped, LedgerSet, Journals, Settled, SemProgress, Proper, Whole, SemPoints, SemJournaled, MultiPoints, RecoveryPoints, Absent, NoJob, NoJournal, Unlocked, Recovered
  <2>4. MultiProgress'
    BY <1>1, <1>4, <2>1 DEF CompleteProposal, files, claimVars, bounds, Mintable, Revision, DocsTyped, LedgerSet, Journals, Settled, MultiProgress, Proper, Whole, SemPoints, SemJournaled, MultiPoints, RecoveryPoints, Absent, NoJob, NoJournal, Unlocked, Recovered
  <2> QED BY <2>2, <2>3, <2>4
<1> QED BY <1>2, <1>3, <1>4 DEF DocsInv

(* A proposal's work items are in place.                                   *)
LEMMA ApplyTasksSafe ==
  ASSUME DocsInv, ApplyTasks
  PROVE  DocsInv'
<1>1. DocsTyped /\ Journals /\ (Trusted => Settled /\ SemProgress /\ MultiProgress)
  BY DEF DocsInv
<1>2. DocsTyped'
  BY <1>1 DEF ApplyTasks, files, claimVars, bounds, DocsTyped, LedgerSet, SemSet, MultiSet, ProposalSet, JobSet, SemPoints, SemJournaled, MultiPoints, RecoveryPoints, Absent, NoJob, NoJournal, Ledger, Recovered, Journals
<1>3. Journals'
  BY <1>1 DEF ApplyTasks, files, claimVars, bounds, Journals, SemPoints, SemJournaled, MultiPoints, RecoveryPoints, Absent, NoJob, NoJournal, Unlocked, Recovered
<1>4. ASSUME Trusted'
      PROVE  Settled' /\ SemProgress' /\ MultiProgress'
  <2>1. Trusted /\ Settled /\ SemProgress /\ MultiProgress
    BY <1>1, <1>4 DEF ApplyTasks, files, claimVars, bounds, Trusted
  <2>2. Settled'
    BY <1>1, <1>4, <2>1 DEF ApplyTasks, files, claimVars, bounds, DocsTyped, LedgerSet, Journals, Settled, SemProgress, MultiProgress, Proper, Whole, SemPoints, SemJournaled, MultiPoints, RecoveryPoints, Absent, NoJob, NoJournal, Unlocked, Recovered
  <2>3. SemProgress'
    BY <1>1, <1>4, <2>1 DEF ApplyTasks, files, claimVars, bounds, DocsTyped, LedgerSet, Journals, Settled, SemProgress, Proper, Whole, SemPoints, SemJournaled, MultiPoints, RecoveryPoints, Absent, NoJob, NoJournal, Unlocked, Recovered
  <2>4. MultiProgress'
    BY <1>1, <1>4, <2>1 DEF ApplyTasks, files, claimVars, bounds, DocsTyped, LedgerSet, Journals, Settled, MultiProgress, Proper, Whole, SemPoints, SemJournaled, MultiPoints, RecoveryPoints, Absent, NoJob, NoJournal, Unlocked, Recovered
  <2> QED BY <2>2, <2>3, <2>4
<1> QED BY <1>2, <1>3, <1>4 DEF DocsInv

(* A proposal's second document is in place.                               *)
LEMMA ApplySpecSafe ==
  ASSUME DocsInv, ApplySpec
  PROVE  DocsInv'
<1>1. DocsTyped /\ Journals /\ (Trusted => Settled /\ SemProgress /\ MultiProgress)
  BY DEF DocsInv
<1>2. DocsTyped'
  BY <1>1 DEF ApplySpec, files, claimVars, bounds, DocsTyped, LedgerSet, SemSet, MultiSet, ProposalSet, JobSet, SemPoints, SemJournaled, MultiPoints, RecoveryPoints, Absent, NoJob, NoJournal, Ledger, Recovered, Journals
<1>3. Journals'
  BY <1>1 DEF ApplySpec, files, claimVars, bounds, Journals, SemPoints, SemJournaled, MultiPoints, RecoveryPoints, Absent, NoJob, NoJournal, Unlocked, Recovered
<1>4. ASSUME Trusted'
      PROVE  Settled' /\ SemProgress' /\ MultiProgress'
  <2>1. Trusted /\ Settled /\ SemProgress /\ MultiProgress
    BY <1>1, <1>4 DEF ApplySpec, files, claimVars, bounds, Trusted
  <2>2. Settled'
    BY <1>1, <1>4, <2>1 DEF ApplySpec, files, claimVars, bounds, DocsTyped, LedgerSet, Journals, Settled, SemProgress, MultiProgress, Proper, Whole, SemPoints, SemJournaled, MultiPoints, RecoveryPoints, Absent, NoJob, NoJournal, Unlocked, Recovered
  <2>3. SemProgress'
    BY <1>1, <1>4, <2>1 DEF ApplySpec, files, claimVars, bounds, DocsTyped, LedgerSet, Journals, Settled, SemProgress, Proper, Whole, SemPoints, SemJournaled, MultiPoints, RecoveryPoints, Absent, NoJob, NoJournal, Unlocked, Recovered
  <2>4. MultiProgress'
    BY <1>1, <1>4, <2>1 DEF ApplySpec, files, claimVars, bounds, DocsTyped, LedgerSet, Journals, Settled, MultiProgress, Proper, Whole, SemPoints, SemJournaled, MultiPoints, RecoveryPoints, Absent, NoJob, NoJournal, Unlocked, Recovered
  <2> QED BY <2>2, <2>3, <2>4
<1> QED BY <1>2, <1>3, <1>4 DEF DocsInv

(* A proposal's ledger is in place.                                        *)
LEMMA ApplyIdentitySafe ==
  ASSUME DocsInv, ApplyIdentity
  PROVE  DocsInv'
<1>1. DocsTyped /\ Journals /\ (Trusted => Settled /\ SemProgress /\ MultiProgress)
  BY DEF DocsInv
<1>2. DocsTyped'
  BY <1>1 DEF ApplyIdentity, files, claimVars, bounds, DocsTyped, LedgerSet, SemSet, MultiSet, ProposalSet, JobSet, SemPoints, SemJournaled, MultiPoints, RecoveryPoints, Absent, NoJob, NoJournal, Ledger, Recovered, Journals
<1>3. Journals'
  BY <1>1 DEF ApplyIdentity, files, claimVars, bounds, Journals, SemPoints, SemJournaled, MultiPoints, RecoveryPoints, Absent, NoJob, NoJournal, Unlocked, Recovered
<1>4. ASSUME Trusted'
      PROVE  Settled' /\ SemProgress' /\ MultiProgress'
  <2>1. Trusted /\ Settled /\ SemProgress /\ MultiProgress
    BY <1>1, <1>4 DEF ApplyIdentity, files, claimVars, bounds, Trusted
  <2>2. Settled'
    BY <1>1, <1>4, <2>1 DEF ApplyIdentity, files, claimVars, bounds, DocsTyped, LedgerSet, Journals, Settled, SemProgress, MultiProgress, Proper, Whole, SemPoints, SemJournaled, MultiPoints, RecoveryPoints, Absent, NoJob, NoJournal, Unlocked, Recovered
  <2>3. SemProgress'
    BY <1>1, <1>4, <2>1 DEF ApplyIdentity, files, claimVars, bounds, DocsTyped, LedgerSet, Journals, Settled, SemProgress, Proper, Whole, SemPoints, SemJournaled, MultiPoints, RecoveryPoints, Absent, NoJob, NoJournal, Unlocked, Recovered
  <2>4. MultiProgress'
    BY <1>1, <1>4, <2>1 DEF ApplyIdentity, files, claimVars, bounds, DocsTyped, LedgerSet, Journals, Settled, MultiProgress, Proper, Whole, SemPoints, SemJournaled, MultiPoints, RecoveryPoints, Absent, NoJob, NoJournal, Unlocked, Recovered
  <2> QED BY <2>2, <2>3, <2>4
<1> QED BY <1>2, <1>3, <1>4 DEF DocsInv

(* A proposal is applied.                                                  *)
LEMMA ApplyDoneSafe ==
  ASSUME DocsInv, ApplyDone
  PROVE  DocsInv'
<1>1. DocsTyped /\ Journals /\ (Trusted => Settled /\ SemProgress /\ MultiProgress)
  BY DEF DocsInv
<1>2. DocsTyped'
  BY <1>1 DEF ApplyDone, files, claimVars, bounds, DocsTyped, LedgerSet, SemSet, MultiSet, ProposalSet, JobSet, SemPoints, SemJournaled, MultiPoints, RecoveryPoints, Absent, NoJob, NoJournal, Ledger, Recovered, Journals
<1>3. Journals'
  BY <1>1 DEF ApplyDone, files, claimVars, bounds, Journals, SemPoints, SemJournaled, MultiPoints, RecoveryPoints, Absent, NoJob, NoJournal, Unlocked, Recovered
<1>4. ASSUME Trusted'
      PROVE  Settled' /\ SemProgress' /\ MultiProgress'
  <2>1. Trusted /\ Settled /\ SemProgress /\ MultiProgress
    BY <1>1, <1>4 DEF ApplyDone, files, claimVars, bounds, Trusted
  <2>2. Settled'
    BY <1>1, <1>4, <2>1 DEF ApplyDone, files, claimVars, bounds, DocsTyped, LedgerSet, Journals, Settled, SemProgress, MultiProgress, Proper, Whole, SemPoints, SemJournaled, MultiPoints, RecoveryPoints, Absent, NoJob, NoJournal, Unlocked, Recovered
  <2>3. SemProgress'
    BY <1>1, <1>4, <2>1 DEF ApplyDone, files, claimVars, bounds, DocsTyped, LedgerSet, Journals, Settled, SemProgress, Proper, Whole, SemPoints, SemJournaled, MultiPoints, RecoveryPoints, Absent, NoJob, NoJournal, Unlocked, Recovered
  <2>4. MultiProgress'
    BY <1>1, <1>4, <2>1 DEF ApplyDone, files, claimVars, bounds, DocsTyped, LedgerSet, Journals, Settled, MultiProgress, Proper, Whole, SemPoints, SemJournaled, MultiPoints, RecoveryPoints, Absent, NoJob, NoJournal, Unlocked, Recovered
  <2> QED BY <2>2, <2>3, <2>4
<1> QED BY <1>2, <1>3, <1>4 DEF DocsInv

(* The operator takes the documents.                                       *)
LEMMA BeginEditSafe ==
  ASSUME DocsInv, BeginEdit
  PROVE  DocsInv'
<1>1. DocsTyped /\ Journals /\ (Trusted => Settled /\ SemProgress /\ MultiProgress)
  BY DEF DocsInv
<1>2. DocsTyped'
  <2>1. ident' \in LedgerSet
    BY <1>1 DEF BeginEdit, DocsTyped, LedgerSet
  <2> QED BY <1>1, <2>1 DEF BeginEdit, DocsTyped
<1>3. Journals'
  <2>1. externals' # 0
    BY <1>1 DEF BeginEdit, DocsTyped
  <2> QED BY <1>1, <2>1 DEF BeginEdit, Journals, Recovered
<1>4. ~Trusted'
  BY DEF BeginEdit, Trusted
<1> QED BY <1>2, <1>3, <1>4 DEF DocsInv

(* An edit is not trusted.                                                 *)
LEMMA EditTasksSafe ==
  ASSUME DocsInv, EditTasks
  PROVE  DocsInv'
<1>1. DocsTyped /\ Journals /\ (Trusted => Settled /\ SemProgress /\ MultiProgress)
  BY DEF DocsInv
<1>2. DocsTyped'
  <2>1. tasks' \in SUBSET Ids /\ ever' \in SUBSET Ids
    BY <1>1 DEF EditTasks, DocsTyped
  <2> QED BY <1>1, <2>1 DEF EditTasks, claimVars, bounds, DocsTyped
<1>3. Journals'
  BY <1>1 DEF EditTasks, files, claimVars, bounds, Journals, SemPoints, SemJournaled, MultiPoints, RecoveryPoints, Absent, NoJob, NoJournal, Unlocked, Recovered
<1>4. ~Trusted'
  BY DEF EditTasks, claimVars, Trusted
<1> QED BY <1>2, <1>3, <1>4 DEF DocsInv

(* An edit that reconciles is taken over, ledger and all.                  *)
LEMMA EndEditSafe ==
  ASSUME DocsInv, EndEdit
  PROVE  DocsInv'
<1>1. DocsTyped /\ Journals /\ (Trusted => Settled /\ SemProgress /\ MultiProgress)
  BY DEF DocsInv
<1>2. DocsTyped'
  <2>1. ident' \in LedgerSet
    BY <1>1 DEF EndEdit, Ledger, DocsTyped, LedgerSet
  <2> QED BY <1>1, <2>1 DEF EndEdit, bounds, DocsTyped
<1>3. Journals'
  BY <1>1 DEF EndEdit, files, claimVars, bounds, ExternalReconciles, Ledger, Journals, SemPoints, SemJournaled, MultiPoints, RecoveryPoints, Absent, NoJob, NoJournal, Unlocked, Recovered
<1>4. ASSUME Trusted'
      PROVE  Settled' /\ SemProgress' /\ MultiProgress'
  <2>1. /\ ident' = Ledger(tasks, ident.retired \cup (ident.active \ tasks)) /\ externals # 0
        /\ externals' = externals /\ tasks' = tasks /\ sem' = sem /\ multi' = multi /\ job' = job
    BY <1>1, <1>4 DEF EndEdit, bounds, Trusted, Journals
  <2>2. ident'.active = tasks
    BY <2>1 DEF Ledger
  <2>3. job.pc = Absent /\ ~sem.on /\ ~multi.on
    BY DEF EndEdit, Unlocked, Recovered, NoJob
  <2> QED BY <2>1, <2>2, <2>3 DEF Settled, SemProgress, MultiProgress, Proper, Whole, Absent, SemPoints, SemJournaled, MultiPoints
<1> QED BY <1>2, <1>3, <1>4 DEF DocsInv

(* A repaired claim is a claim that was repaired.                          *)
LEMMA RepairClaimSafe ==
  ASSUME DocsInv, RepairClaim
  PROVE  DocsInv'
<1>1. DocsTyped /\ Journals /\ (Trusted => Settled /\ SemProgress /\ MultiProgress)
  BY DEF DocsInv
<1>2. DocsTyped'
  BY <1>1 DEF RepairClaim, files, claimVars, bounds, DocsTyped, LedgerSet, SemSet, MultiSet, ProposalSet, JobSet, SemPoints, SemJournaled, MultiPoints, RecoveryPoints, Absent, NoJob, NoJournal, Ledger, Recovered, Journals
<1>3. Journals'
  BY <1>1 DEF RepairClaim, files, claimVars, bounds, Journals, SemPoints, SemJournaled, MultiPoints, RecoveryPoints, Absent, NoJob, NoJournal, Unlocked, Recovered
<1>4. ASSUME Trusted'
      PROVE  Settled' /\ SemProgress' /\ MultiProgress'
  <2>1. Trusted /\ Settled /\ SemProgress /\ MultiProgress
    BY <1>1, <1>4 DEF RepairClaim, files, claimVars, bounds, Trusted
  <2>2. Settled'
    BY <1>1, <1>4, <2>1 DEF RepairClaim, files, claimVars, bounds, DocsTyped, LedgerSet, Journals, Settled, SemProgress, MultiProgress, Proper, Whole, SemPoints, SemJournaled, MultiPoints, RecoveryPoints, Absent, NoJob, NoJournal, Unlocked, Recovered
  <2>3. SemProgress'
    BY <1>1, <1>4, <2>1 DEF RepairClaim, files, claimVars, bounds, DocsTyped, LedgerSet, Journals, Settled, SemProgress, Proper, Whole, SemPoints, SemJournaled, MultiPoints, RecoveryPoints, Absent, NoJob, NoJournal, Unlocked, Recovered
  <2>4. MultiProgress'
    BY <1>1, <1>4, <2>1 DEF RepairClaim, files, claimVars, bounds, DocsTyped, LedgerSet, Journals, Settled, MultiProgress, Proper, Whole, SemPoints, SemJournaled, MultiPoints, RecoveryPoints, Absent, NoJob, NoJournal, Unlocked, Recovered
  <2> QED BY <2>2, <2>3, <2>4
<1> QED BY <1>2, <1>3, <1>4 DEF DocsInv

(* An approval changes no document.                                        *)
LEMMA ApproveTasksSafe ==
  ASSUME DocsInv, ApproveTasks
  PROVE  DocsInv'
<1>1. DocsTyped /\ Journals /\ (Trusted => Settled /\ SemProgress /\ MultiProgress)
  BY DEF DocsInv
<1>2. DocsTyped'
  BY <1>1 DEF ApproveTasks, files, claimVars, bounds, DocsTyped, LedgerSet, SemSet, MultiSet, ProposalSet, JobSet, SemPoints, SemJournaled, MultiPoints, RecoveryPoints, Absent, NoJob, NoJournal, Ledger, Recovered, Journals
<1>3. Journals'
  BY <1>1 DEF ApproveTasks, files, claimVars, bounds, Journals, SemPoints, SemJournaled, MultiPoints, RecoveryPoints, Absent, NoJob, NoJournal, Unlocked, Recovered
<1>4. ASSUME Trusted'
      PROVE  Settled' /\ SemProgress' /\ MultiProgress'
  <2>1. Trusted /\ Settled /\ SemProgress /\ MultiProgress
    BY <1>1, <1>4 DEF ApproveTasks, files, claimVars, bounds, Trusted
  <2>2. Settled'
    BY <1>1, <1>4, <2>1 DEF ApproveTasks, files, claimVars, bounds, DocsTyped, LedgerSet, Journals, Settled, SemProgress, MultiProgress, Proper, Whole, SemPoints, SemJournaled, MultiPoints, RecoveryPoints, Absent, NoJob, NoJournal, Unlocked, Recovered
  <2>3. SemProgress'
    BY <1>1, <1>4, <2>1 DEF ApproveTasks, files, claimVars, bounds, DocsTyped, LedgerSet, Journals, Settled, SemProgress, Proper, Whole, SemPoints, SemJournaled, MultiPoints, RecoveryPoints, Absent, NoJob, NoJournal, Unlocked, Recovered
  <2>4. MultiProgress'
    BY <1>1, <1>4, <2>1 DEF ApproveTasks, files, claimVars, bounds, DocsTyped, LedgerSet, Journals, Settled, MultiProgress, Proper, Whole, SemPoints, SemJournaled, MultiPoints, RecoveryPoints, Absent, NoJob, NoJournal, Unlocked, Recovered
  <2> QED BY <2>2, <2>3, <2>4
<1> QED BY <1>2, <1>3, <1>4 DEF DocsInv

(* A crash leaves files and journals.                                      *)
LEMMA WriterCrashSafe ==
  ASSUME DocsInv, WriterCrash
  PROVE  DocsInv'
<1>1. DocsTyped /\ Journals /\ (Trusted => Settled /\ SemProgress /\ MultiProgress)
  BY DEF DocsInv
<1>2. DocsTyped'
  BY <1>1 DEF WriterCrash, files, claimVars, bounds, DocsTyped, LedgerSet, SemSet, MultiSet, ProposalSet, JobSet, SemPoints, SemJournaled, MultiPoints, RecoveryPoints, Absent, NoJob, NoJournal, Ledger, Recovered, Journals
<1>3. Journals'
  BY <1>1 DEF WriterCrash, files, claimVars, bounds, Journals, SemPoints, SemJournaled, MultiPoints, RecoveryPoints, Absent, NoJob, NoJournal, Unlocked, Recovered
<1>4. ASSUME Trusted'
      PROVE  Settled' /\ SemProgress' /\ MultiProgress'
  <2>1. /\ Trusted /\ Settled /\ SemProgress /\ MultiProgress /\ job'.pc = Absent /\ ~Unlocked
        /\ UNCHANGED <<files, claimVars, writes, externals>>
    BY <1>1, <1>4 DEF WriterCrash, files, claimVars, Trusted, NoJob
  <2>2. ~Recovered \/ job.pc = "staged"
    BY <1>1, <2>1, JobFacts DEF Journals, SemPoints, Recovered
  <2>3. Settled'
    BY <2>1, <2>2 DEF Settled, SemProgress, Recovered, Whole, files
  <2>4. SemProgress' /\ MultiProgress'
    BY <2>1 DEF SemProgress, MultiProgress, Proper, Whole, files, SemPoints, SemJournaled, MultiPoints, Absent
  <2> QED BY <2>3, <2>4
<1> QED BY <1>2, <1>3, <1>4 DEF DocsInv

(* A superseded ticket is none of the documents.                           *)
LEMMA LegacyStepSafe ==
  ASSUME DocsInv, LegacyStep
  PROVE  DocsInv'
<1>1. DocsTyped /\ Journals /\ (Trusted => Settled /\ SemProgress /\ MultiProgress)
  BY DEF DocsInv
<1>2. UNCHANGED <<files, job, claimState, proposal, rebound, externals>>
  BY DEF LegacyStep, LegacyLease, LegacyStart, LegacyEnds, ReserveConversion, ParkLegacy, legacyOnly, bounds
<1>3. DocsTyped' /\ Journals'
  BY <1>1, <1>2 DEF files, DocsTyped, Journals, Recovered
<1>4. Trusted' => Settled' /\ SemProgress' /\ MultiProgress'
  BY <1>1, <1>2 DEF files, Trusted, Settled, SemProgress, MultiProgress, Proper, Whole, Unlocked, Recovered
<1> QED BY <1>3, <1>4 DEF DocsInv

-----------------------------------------------------------------------------
(* Whatever crash interrupts a writer, the documents of a claim that was   *)
(* never repaired are recovered to task sets and ledgers that belong       *)
(* together (documents.py _atomic_semantic_write,                          *)
(* _atomic_multi_document_write and their recovery).                       *)
THEOREM DocumentsStayWhole == DocsSpec => []DocsInv
<1>1. InitDocs => DocsInv
  <2> SUFFICES ASSUME InitDocs PROVE DocsInv
    OBVIOUS
  <2>1. job.pc = Absent /\ ~sem.on /\ ~multi.on /\ ident.active = {}
    BY DEF InitDocs, NoJob, NoJournal, Ledger
  <2>2. DocsTyped
    BY DEF InitDocs, DocsTyped, LedgerSet, ProposalSet, JobSet, NoJob, Ledger
  <2> QED BY <2>1, <2>2 DEF InitDocs, DocsInv, Journals, Trusted, Settled, SemProgress, MultiProgress, Whole, SemPoints, SemJournaled, MultiPoints, RecoveryPoints, Absent
<1>2. DocsInv /\ [NextDocs]_docVars => DocsInv'
  <2> SUFFICES ASSUME DocsInv, [NextDocs]_docVars PROVE DocsInv'
    OBVIOUS
  <2>1. CASE WriterStep
    BY <2>1, WriterSafe, WriteJournalSafe, ReplaceDocumentSafe, ReplaceIdentitySafe, UnlinkSafe DEF WriterStep
  <2>2. CASE RecoveryStep
    BY <2>2, BeginRecoverySafe, RecoverDocumentSafe, RecoverIdentitySafe, RecoverUnlinkSafe DEF RecoveryStep
  <2>3. CASE ProposalStep
    BY <2>3, CompleteProposalSafe, ApplyProposalSafe, ApplyTasksSafe, ApplySpecSafe, ApplyIdentitySafe, ApplyDoneSafe DEF ProposalStep
  <2>4. CASE OperatorStep
    BY <2>4, BeginEditSafe, EditTasksSafe, EndEditSafe, RepairClaimSafe, ApproveTasksSafe DEF OperatorStep
  <2>5. CASE UNCHANGED docVars
    BY <2>5 DEF docVars, DocsInv, DocsTyped, Journals, Trusted, Settled, SemProgress, MultiProgress, Whole, Proper, Recovered, Unlocked
  <2> QED BY <2>1, <2>2, <2>3, <2>4, <2>5, LegacyStepSafe, WriterCrashSafe DEF NextDocs
<1> QED BY <1>1, <1>2, PTL DEF DocsSpec

(* Once the change is recovered its work items are the ids the ledger      *)
(* holds active, and the ledger remembers every id there ever was          *)
(* (documents.py _reconcile_work_items, _mint_work_item_id).               *)
THEOREM PlanIsNeverTorn == DocsSpec => []NeverTorn
<1>1. DocsInv => NeverTorn
  BY DEF DocsInv, NeverTorn, Quiet, Trusted, Settled, Whole
<1> QED BY <1>1, DocumentsStayWhole, PTL

=============================================================================
