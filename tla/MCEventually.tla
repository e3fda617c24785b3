------------------------------ MODULE MCEventually ------------------------------
(*****************************************************************************)
(* What must come to an end: an operation on a ticket file (FileBoard), an   *)
(* archive that was begun (PmArchive), a fix ticket its source has lost      *)
(* (BlockedRecovery); and the upgrade of the registry (Migrations). Every    *)
(* behaviour is about one of them: the small instances, side by side.        *)
(*****************************************************************************)
EXTENDS Migrations, Parts, TLC

CONSTANTS w1, w2, Nobody

\* The operations of FileBoard.
AllKinds == {"note", "move", "activate", "pin", "artifacts", "patch",
             "resolve", "create", "delete"}

-----------------------------------------------------------------------------
\* Two processes that open one registry.
MigrInit == part = "Migr" /\ Init /\ Unused(0)
MigrNext == part = "Migr" /\ Next /\ UNCHANGED partVars

\* Its variables while a behaviour is about another component.
IdleMigr ==
  /\ db = "none" /\ txn = "none" /\ lock = None /\ proc = "none"
  /\ backups = {} /\ lost = {} /\ faults = 0 /\ work = 0

\* Any operation against a note, a new ticket or a delete on one of the tickets.
Board == INSTANCE FileBoard WITH
    Writers <- {w1, w2},
    Operations <- (w1 :> AllKinds @@ w2 :> {"note", "create", "delete"}),
    Targets <- (w1 :> {1} @@ w2 :> {1}), Lists <- {{}, {1}},
    Patches <- {{"blocked_by"}, {"close", "unpin", "description"}, {"open", "pin"}},
    Hands <- {"h1"}, Stamped <- {"h1"}, Breaking <- {"h1"},
    Damage <- {"broken", "markdown_inside"}, Rounds <- 2, MaxId <- 3, Old <- {1},
    None <- Nobody,
    file <- s1, flock <- s2, alloc <- s3, job <- s4, hand <- s5
BoardInit == part = "Board" /\ Board!InitBoard /\ Unused(5) /\ IdleMigr
BoardNext == part = "Board" /\ Board!NextBoard /\ UNCHANGED <<part, vars>> /\ Untouched(5)

\* Two requests archive a change of two specs.
Archive == INSTANCE PmArchive WITH
    Specs <- {"s1", "s2"}, Requests <- {"r1", "r2"}, MaxCrashes <- 2, MaxForeign <- 1,
    source <- s1, target <- s2, baseline <- s3, journal <- s4, claim <- s5, lock <- s6,
    req <- s7, crashes <- s8, foreign <- s9
ArchiveInit == part = "Archive" /\ Archive!Init /\ Unused(9) /\ IdleMigr
ArchiveNext == part = "Archive" /\ Archive!Next /\ UNCHANGED <<part, vars>> /\ Untouched(9)

\* One source, one fix ticket.
Recovery == INSTANCE BlockedRecovery WITH
    Fixes <- {1}, MaxEdits <- 2, MaxStarts <- 1, MaxRefusals <- 1, MaxBusy <- 0,
    st <- s1, notes <- s2, host <- s3, links <- s4, hist <- s5, rec <- s6, rescues <- s7,
    finished <- s8, running <- s9, guard <- s10, attempted <- s11, point <- s12,
    left <- s13, seen <- s14, source <- s15, target <- s16, op <- s17, issue <- s18,
    fix <- s19, lock <- s20, edits <- s21, starts <- s22, refusals <- s23, busy <- s24
RecoveryInit == part = "Recovery" /\ Recovery!InitFixes /\ Unused(24) /\ IdleMigr
RecoveryNext == part = "Recovery" /\ Recovery!NextFixes /\ UNCHANGED <<part, vars>> /\ Untouched(24)

-----------------------------------------------------------------------------
AllInit == MigrInit \/ BoardInit \/ ArchiveInit \/ RecoveryInit
AllNext == MigrNext \/ BoardNext \/ ArchiveNext \/ RecoveryNext
AllSpec == AllInit /\ [][AllNext]_<<vars, partVars>>

BoardStep(w) == part = "Board" /\ Board!WriterStep(w) /\ UNCHANGED <<part, vars>> /\ Untouched(5)
ArchiveStep(r) == part = "Archive" /\ Archive!RequestStep(r) /\ UNCHANGED <<part, vars>> /\ Untouched(9)
RecoveryTick == part = "Recovery" /\ Recovery!FixTick /\ UNCHANGED <<part, vars>> /\ Untouched(24)
RecoveryOpen(a) == part = "Recovery" /\ Recovery!Open(a) /\ UNCHANGED <<part, vars>> /\ Untouched(24)

\* A process that may go on does: a writer that waits for a lock gets it in
\* its turn, a request that was refused is repeated, the tick recurs.
FairSpec ==
  /\ AllSpec
  /\ \A w \in {w1, w2} : SF_partVars(BoardStep(w))
  /\ \A r \in {"r1", "r2"} : SF_partVars(ArchiveStep(r))
  /\ WF_partVars(RecoveryTick) /\ \A a \in {"tick", "manual"} : WF_partVars(RecoveryOpen(a))

-----------------------------------------------------------------------------
(* No operation waits for ever: a failed parse, a crash or a ticket that     *)
(* vanished does not leave a lock behind.                                    *)
WritersFinish ==
  part = "Board" => \A w \in {w1, w2} : <>(part = "Board" /\ Board!Finished(w))

(* An archive whose journal is prepared is finished by retries, from every   *)
(* prefix a crash left, unless other text is in the way.                     *)
ArchiveFinishes ==
  (part = "Archive" /\ Archive!Prepared) ~> (part = "Archive" /\ Archive!Resolved)

(* A source that lost the link to its fix ticket, to a refused write or to a *)
(* crash, gets it back as long as both stay open ("Partial creates are       *)
(* repaired by the active-board path", blocked_recovery.py:948-949).         *)
PartialCreateRepaired ==
  (part = "Recovery" /\ Recovery!Unlinked) ~> (part = "Recovery" /\ ~Recovery!Unlinked)

===============================================================================
