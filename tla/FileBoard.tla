----------------------------- MODULE FileBoard -----------------------------
(***************************************************************************)
(* The file tracker (src/symphony/trackers/file.py): a directory with one  *)
(* Markdown file per ticket.  The service, the web API and the CLI write   *)
(* through the tracker, each from a process or thread of its own; agents   *)
(* and people edit the files directly, without the tracker's locks.        *)
(*                                                                         *)
(* A step is what a writer does between two file-system calls that another *)
(* process can interleave with.  A ticket's text is abstracted to the sets *)
(* of changes that its front matter and its body contain (`by`) and the    *)
(* few fields the operations decide on.                                    *)
(***************************************************************************)
EXTENDS Integers, FiniteSets, Relation

CONSTANTS
    Writers,   \* operations through the tracker, each run once
    Operations, \* Operations[w]: the operations it may be
    Targets,   \* Targets[w]: the tickets it may name
    Lists,     \* the blocked_by lists that are asked for
    Patches,   \* the sets of fields a PATCH may give
    Hands,     \* direct edits of a file, each made once
    Stamped,   \* the direct edits that also change `updated_at`
    Damage,    \* what such an edit may leave
    Rounds,    \* attempts of a compare-and-swap (3 in the code)
    Breaking,  \* the direct edits that may leave front matter unparsable
    MaxId,     \* bound on ticket numbers; a create past it fails
    Old,       \* tickets on the board at the start
    None

TicketIds == 1..MaxId
AllKinds == {"note", "move", "activate", "pin", "artifacts", "patch",
             "resolve", "create", "delete"}

(* What update_fields decides on: the blockers, a state (an active one or   *)
(* not), an agent kind or none, a new body.                                *)
Fields == {"blocked_by", "open", "close", "pin", "unpin", "description"}

ASSUME BoardAssumption ==
    /\ None \notin Writers /\ Hands \cap Writers = {} /\ MaxId \in Nat
    /\ \A w \in Writers : Operations[w] \subseteq AllKinds /\ Targets[w] \subseteq TicketIds
    /\ Lists \subseteq SUBSET TicketIds /\ Patches \subseteq SUBSET Fields

(* Damage to front matter that parse_ticket_file reads through (dropped    *)
(* delimiters, Markdown before the closing one, an indented key); what it  *)
(* cannot read is "broken" and raises.                                     *)
Healed == {"no_delimiters", "markdown_inside", "indented_key"}
Shapes == {"fine", "broken"} \cup Healed
ASSUME DamageAssumption == Damage \subseteq Shapes

VARIABLES
    file,    \* file[t]: the ticket's file
    flock,   \* flock[t]: holder of the ticket's flock
    alloc,   \* holder of the allocator's flock
    job,     \* job[w]: where a tracker operation stands
    hand     \* hand[h]: whether the direct edit was made

boardVars == <<file, flock, alloc, job, hand>>

-----------------------------------------------------------------------------
(* Data *)

(* The front matter and body of a ticket.  `warn` is an orchestrator-      *)
(* authored warning section, `recovery` a host-written recovery note under *)
(* `## Blocker`, `pinned` the recorded agent kind.                         *)
Body == [by : SUBSET (Writers \cup Hands), warn : BOOLEAN, recovery : BOOLEAN,
         artifacts : BOOLEAN]
Text == [by : SUBSET (Writers \cup Hands), active : BOOLEAN, pinned : BOOLEAN,
         blocked_by : SUBSET TicketIds, stamp : Nat, body : Body]

NoBody == [by |-> {}, warn |-> FALSE, recovery |-> FALSE, artifacts |-> FALSE]
Blank == [by |-> {}, active |-> TRUE, pinned |-> FALSE, blocked_by |-> {},
          stamp |-> 0, body |-> NoBody]

Parses(f) == f.shape \in {"fine"} \cup Healed

(* File times and stamps count the saves of a file: only whether two are   *)
(* equal matters.                                                          *)
File == [there : BOOLEAN, shape : Shapes, text : Text, mtime : Nat]
NoFile == [there |-> FALSE, shape |-> "fine", text |-> Blank, mtime |-> 0]

(* `seen` is the body that the description of a PATCH was written from.    *)
IdleJob == [pc |-> "idle", kind |-> "note", fields |-> {}, seen |-> NoBody, want |-> {},
         ticket |-> 0, part |-> "all", look |-> 0,
         token |-> <<0, 0>>, latest |-> Blank, draft |-> Blank, tries |-> 0]

Over == {"done", "failed", "crashed"}

BoardTypeOK ==
    /\ file \in [TicketIds -> File]
    /\ flock \in [TicketIds -> Writers \cup {None}]
    /\ alloc \in Writers \cup {None}
    /\ job \in [Writers ->
         [pc : {"idle", "scan", "wait", "parse", "reread", "compare", "write",
                "exists"} \cup Over,
          kind : AllKinds, fields : SUBSET Fields, seen : Body, want : SUBSET TicketIds,
          ticket : 0..MaxId, part : {"all", "strip", "move"}, look : Nat,
          token : Nat \X Nat, latest : Text, draft : Text, tries : 0..Rounds]]
    /\ hand \in [Hands -> BOOLEAN]

InitBoard ==
    /\ \E fresh \in [Old -> BOOLEAN] :
         file = [t \in TicketIds |->
                   IF t \notin Old THEN NoFile
                   ELSE [NoFile EXCEPT !.there = TRUE,
                           !.text = [Blank EXCEPT !.active = fresh[t],
                                       !.body.warn = ~fresh[t], !.body.recovery = ~fresh[t]]]]
    /\ flock = [t \in TicketIds |-> None] /\ alloc = None
    /\ job = [w \in Writers |-> IdleJob]
    /\ hand = [h \in Hands |-> FALSE]

-----------------------------------------------------------------------------
(* Helpers *)

Set(w, j) == job' = [job EXCEPT ![w] = j]
Release(w) == flock' = [t \in TicketIds |-> IF flock[t] = w THEN None ELSE flock[t]]

(* scan_all: the tickets whose file parses. *)
Known == {t \in TicketIds : file[t].there /\ Parses(file[t])}

(* The operation leaves its lock and ends; the strip of an update_state is *)
(* followed by its transition.                                             *)
MutantFinish(w, pc) ==
    /\ IF pc = "failed" THEN UNCHANGED flock ELSE Release(w)
    /\ alloc' = IF alloc = w THEN None ELSE alloc
    /\ Set(w, IF job[w].part = "strip" /\ pc = "done"
              THEN [job[w] EXCEPT !.pc = "idle", !.part = "move"]
              ELSE [IdleJob EXCEPT !.pc = pc])
Finish(w, pc) ==
    /\ Release(w)
    /\ alloc' = IF alloc = w THEN None ELSE alloc
    /\ Set(w, IF job[w].part = "strip" /\ pc = "done"
              THEN [job[w] EXCEPT !.pc = "idle", !.part = "move"]
              ELSE [IdleJob EXCEPT !.pc = pc])

(* The `mutate` callbacks: the text each one returns.  All but the strip   *)
(* and the recovery splice set `updated_at`.                               *)
Touch(w, x) == [x EXCEPT !.by = @ \cup {w}, !.stamp = @ + 1]
Rewritten(w, x, body) == [x EXCEPT !.stamp = @ + 1, !.body = [body EXCEPT !.by = @ \cup {w}]]
Transitioned(w, x, active) == [Touch(w, x) EXCEPT !.active = active]
AppendNote(w, x) == Rewritten(w, x, [x.body EXCEPT !.warn = TRUE, !.recovery = TRUE])
RecordAgentKind(w, x) == [Touch(w, x) EXCEPT !.pinned = TRUE]
UpsertArtifacts(w, x) == Rewritten(w, x, [x.body EXCEPT !.artifacts = TRUE])
StripWarnings(x) == [x EXCEPT !.body.warn = FALSE]
ResolveRecovery(w, x) == [x EXCEPT !.body.by = @ \cup {w}, !.body.recovery = FALSE]
NewTicket(w) == [Blank EXCEPT !.by = {w}, !.body.by = {w}, !.blocked_by = job[w].want]

(* update_fields: a field that is not given stays; a description replaces  *)
(* the whole body, whatever was written to it since its caller read it.    *)
Given(w, k) == k \in job[w].fields
UpdateFields(w, x) ==
    [Touch(w, x) EXCEPT
       !.blocked_by = IF Given(w, "blocked_by") THEN job[w].want ELSE @,
       !.active = (@ \/ Given(w, "open")) /\ ~Given(w, "close"),
       !.pinned = (@ \/ Given(w, "pin")) /\ ~Given(w, "unpin"),
       !.body = IF Given(w, "description") THEN [job[w].seen EXCEPT !.by = @ \cup {w}] ELSE @]

(* The callbacks that return None, so that nothing is written. *)
NoChange(w, x) ==
    \/ job[w].part = "strip" /\ ~x.body.warn
    \/ job[w].kind = "pin" /\ x.pinned
    \/ job[w].kind = "artifacts" /\ x.body.artifacts
    \/ job[w].kind = "resolve" /\ (x.active \/ ~x.body.recovery)

Mutate(w, x) ==
    IF job[w].part = "strip" THEN StripWarnings(x)
    ELSE CASE job[w].kind = "note"      -> AppendNote(w, x)
           [] job[w].kind = "move"      -> Transitioned(w, x, FALSE)
           [] job[w].kind = "activate"  -> Transitioned(w, x, TRUE)
           [] job[w].kind = "pin"       -> RecordAgentKind(w, x)
           [] job[w].kind = "artifacts" -> UpsertArtifacts(w, x)
           [] job[w].kind = "patch"     -> UpdateFields(w, x)
           [] job[w].kind = "resolve"   -> ResolveRecovery(w, x)

(* board_edges of the scanned tickets, with the edited ticket's new list:  *)
(* does a path of edges lead from t back to t?                             *)
CycleThrough(t, wanted) ==
    LET ids == Known \cup {t}
        edge == [u, v \in ids |->
                   v \in IF u = t THEN wanted ELSE file[u].text.blocked_by]
    IN  TransitiveClosure(edge, ids)[t, t]

(* validate_ticket_dependencies: a new id is unused, every blocker exists, *)
(* and no cycle passes through the edited ticket.                          *)
DependenciesOK(t, wanted, new) ==
    /\ new => t \notin Known
    /\ wanted \subseteq Known
    /\ ~CycleThrough(t, wanted)

NextIdentifier ==
    1 + CHOOSE n \in 0..MaxId : /\ n = 0 \/ file[n].there
                                /\ \A t \in TicketIds : file[t].there => t <= n

-----------------------------------------------------------------------------
(* Mutations of an existing ticket *)

(* find_path before the lock.  A PATCH, or `board update`, carries what its*)
(* caller read when it began; the blockers it gives have been validated    *)
(* against an unlocked scan before it writes.                              *)
Begin(w) ==
    /\ job[w].pc = "idle" /\ job[w].part = "all"
    /\ \E k \in Operations[w] \ {"create"}, t \in Targets[w] :
       \E g \in IF k = "patch" THEN Patches ELSE {{}} :
       \E b \in IF "blocked_by" \in g THEN Lists ELSE {{}} :
         Set(w, [job[w] EXCEPT !.kind = k, !.ticket = t, !.fields = g, !.want = b,
                   !.seen = IF "description" \in g THEN file[t].text.body ELSE @,
                   !.part = IF k = "activate" THEN "strip" ELSE "all",
                   !.pc = CASE ~file[t].there -> "failed"
                            [] file[t].there /\ "blocked_by" \in g -> "scan"
                            [] OTHER -> "wait"])
    /\ UNCHANGED <<file, flock, alloc, hand>>

(* The second mutation of an update_state into an active state. *)
BeginMove(w) ==
    /\ job[w].pc = "idle" /\ job[w].part = "move"
    /\ Set(w, [job[w] EXCEPT !.pc = IF file[job[w].ticket].there
                                    THEN "wait" ELSE "failed"])
    /\ UNCHANGED <<file, flock, alloc, hand>>

Validate(w) ==
    /\ job[w].pc = "scan" /\ job[w].kind = "patch"
    /\ Set(w, [job[w] EXCEPT !.pc =
                 IF DependenciesOK(job[w].ticket, job[w].want, FALSE)
                 THEN "wait" ELSE "failed"])
    /\ UNCHANGED <<file, flock, alloc, hand>>

(* The ticket's lock, find_path again, and the file's mtime. *)
LockTicket(w) ==
    /\ job[w].pc = "wait" /\ job[w].kind # "delete"
    /\ LET t == job[w].ticket
       IN  /\ flock[t] = None
           /\ IF file[t].there
              THEN /\ flock' = [flock EXCEPT ![t] = w]
                   /\ Set(w, [job[w] EXCEPT !.look = file[t].mtime, !.tries = 0,
                        !.pc = IF job[w].kind = "resolve" THEN "reread" ELSE "parse"])
              ELSE /\ UNCHANGED flock
                   /\ Set(w, [job[w] EXCEPT !.pc = "failed"])
    /\ UNCHANGED <<file, alloc, hand>>

(* The first parse: the token of what was seen, and the change applied. *)
Parse(w) ==
    /\ job[w].pc = "parse"
    /\ LET f == file[job[w].ticket]
       IN  \/ /\ ~Parses(f)
              /\ Finish(w, "failed")
           \/ /\ Parses(f) /\ NoChange(w, f.text)
              /\ Finish(w, "done")
           \/ /\ Parses(f) /\ ~NoChange(w, f.text)
              /\ Set(w, [job[w] EXCEPT !.pc = "reread", !.latest = f.text,
                           !.token = <<f.text.stamp, job[w].look>>,
                           !.draft = Mutate(w, f.text)])
              /\ UNCHANGED <<flock, alloc>>
    /\ UNCHANGED <<file, hand>>

(* _write_ticket_with_updated_at_cas, one round: parse the file again ...  *)
(* A recovery splice reads the bytes it will compare in the same way.      *)
Reread(w) ==
    /\ job[w].pc = "reread"
    /\ LET f == file[job[w].ticket]
       IN  \/ /\ ~Parses(f)
              /\ Finish(w, "failed")
           \/ /\ Parses(f) /\ job[w].kind = "resolve" /\ NoChange(w, f.text)
              /\ Finish(w, "done")
           \/ /\ Parses(f) /\ ~(job[w].kind = "resolve" /\ NoChange(w, f.text))
              /\ Set(w, [job[w] EXCEPT !.pc = "compare", !.latest = f.text,
                     !.draft = IF job[w].kind = "resolve" THEN Mutate(w, f.text) ELSE @])
              /\ UNCHANGED <<flock, alloc>>
    /\ UNCHANGED <<file, hand>>

(* ... then stat it: the token unchanged lets the draft be written,        *)
(* otherwise the change is applied to what was just parsed.                *)
MutantReapply(w, token) ==
    Set(w, [job[w] EXCEPT !.token = token, !.tries = @ + 1,
              !.pc = IF job[w].tries = Rounds - 1 THEN "write" ELSE "reread"])
Reapply(w, token) ==
    Set(w, [job[w] EXCEPT !.token = token, !.tries = @ + 1,
              !.draft = Mutate(w, job[w].latest),
              !.pc = IF job[w].tries = Rounds - 1 THEN "write" ELSE "reread"])

Compare(w) ==
    /\ job[w].pc = "compare" /\ job[w].kind # "resolve"
    /\ LET token == <<job[w].latest.stamp, file[job[w].ticket].mtime>>
       IN  \/ /\ token = job[w].token
              /\ Set(w, [job[w] EXCEPT !.pc = "write"])
              /\ UNCHANGED <<flock, alloc>>
           \/ /\ token # job[w].token /\ NoChange(w, job[w].latest)
              /\ Finish(w, "done")
           \/ /\ token # job[w].token /\ ~NoChange(w, job[w].latest)
              /\ Reapply(w, token)
              /\ UNCHANGED <<flock, alloc>>
    /\ UNCHANGED <<file, hand>>

(* _resolve_factory_recovery_blockers gives up after three changes. *)
CompareBytes(w) ==
    /\ job[w].pc = "compare" /\ job[w].kind = "resolve"
    /\ LET f == file[job[w].ticket]
       IN  \/ /\ Parses(f) /\ f.text = job[w].latest
              /\ Set(w, [job[w] EXCEPT !.pc = "write"])
              /\ UNCHANGED <<flock, alloc>>
           \/ /\ ~Parses(f) \/ f.text # job[w].latest
              /\ IF job[w].tries = Rounds - 1 THEN Finish(w, "failed")
                 ELSE /\ Set(w, [job[w] EXCEPT !.pc = "reread", !.tries = @ + 1])
                      /\ UNCHANGED <<flock, alloc>>
    /\ UNCHANGED <<file, hand>>

(* write_ticket_atomic: the rename replaces whatever is there. *)
WriteTicket(w) ==
    /\ job[w].pc = "write"
    /\ file' = [file EXCEPT ![job[w].ticket] =
                  [there |-> TRUE, shape |-> "fine", text |-> job[w].draft,
                   mtime |-> file[job[w].ticket].mtime + 1]]
    /\ Finish(w, "done")
    /\ UNCHANGED hand

Delete(w) ==
    /\ job[w].pc = "wait" /\ job[w].kind = "delete"
    /\ LET t == job[w].ticket
       IN  /\ flock[t] = None
           /\ file' = [file EXCEPT ![t] = NoFile]
           /\ Set(w, [job[w] EXCEPT !.pc = IF file[t].there THEN "done" ELSE "failed"])
    /\ UNCHANGED <<flock, alloc, hand>>

-----------------------------------------------------------------------------
(* Creation *)

(* create_validated: under the allocator's lock, the scan, the next number *)
(* and the validation of the blockers.                                     *)
AllocateId(w) ==
    /\ job[w].pc = "idle" /\ "create" \in Operations[w] /\ alloc = None
    /\ job[w].part = "all"
    /\ \E b \in Lists :
         IF NextIdentifier <= MaxId /\ DependenciesOK(NextIdentifier, b, TRUE)
         THEN /\ alloc' = w
              /\ Set(w, [job[w] EXCEPT !.pc = "exists", !.kind = "create",
                           !.want = b, !.ticket = NextIdentifier])
         ELSE /\ UNCHANGED alloc
              /\ Set(w, [job[w] EXCEPT !.pc = "failed"])
    /\ UNCHANGED <<file, flock, hand>>

(* create: the ticket's lock, and a number that was taken meanwhile is     *)
(* given up for the next one.                                              *)
CreateExists(w) ==
    /\ job[w].pc = "exists"
    /\ LET t == job[w].ticket
       IN  /\ flock[t] = None
           /\ \/ /\ file[t].there
                 /\ IF NextIdentifier <= MaxId /\ DependenciesOK(NextIdentifier, job[w].want, TRUE)
                    THEN /\ Set(w, [job[w] EXCEPT !.ticket = NextIdentifier])
                         /\ UNCHANGED <<flock, alloc>>
                    ELSE Finish(w, "failed")
              \/ /\ ~file[t].there
                 /\ flock' = [flock EXCEPT ![t] = w]
                 /\ Set(w, [job[w] EXCEPT !.pc = "write",
                     !.draft = NewTicket(w)])
                 /\ UNCHANGED alloc
    /\ UNCHANGED <<file, hand>>

-----------------------------------------------------------------------------
(* Direct edits and crashes *)

(* An agent or a person saves the file: a new ticket, a change of an old   *)
(* one, front matter that no longer parses, or its repair.                 *)
HandEdit(h) ==
    /\ ~hand[h]
    /\ \E t \in TicketIds, shape \in IF h \in Breaking THEN Damage ELSE {"fine"} :
         /\ file[t].there \/ t = NextIdentifier   \* bound: the next number
         /\ file' = [file EXCEPT ![t] =
              [there |-> TRUE, shape |-> shape, mtime |-> file[t].mtime + 1,
               text |-> [file[t].text EXCEPT !.by = @ \cup {h}, !.body.by = @ \cup {h},
                   !.stamp = IF h \in Stamped THEN @ + 1 ELSE @]]]
    /\ hand' = [hand EXCEPT ![h] = TRUE]
    /\ UNCHANGED <<flock, alloc, job>>

(* The process dies; the kernel releases its flocks, the rename was or was *)
(* not made.                                                               *)
WriterDies(w) ==
    /\ job[w].pc \notin Over \cup {"idle"}
    /\ Finish(w, "crashed")
    /\ UNCHANGED <<file, hand>>

WriterStep(w) == \/ Begin(w) \/ BeginMove(w) \/ Validate(w) \/ LockTicket(w) \/ Parse(w) \/ Reread(w)
           \/ Compare(w) \/ CompareBytes(w) \/ WriteTicket(w) \/ Delete(w)
           \/ AllocateId(w) \/ CreateExists(w)

NextBoard == \/ \E w \in Writers : WriterStep(w) \/ WriterDies(w)
        \/ \E h \in Hands : HandEdit(h)

BoardSpec == InitBoard /\ [][NextBoard]_boardVars

(* flock hands the lock to some waiter; every process is scheduled. *)
FairBoard == BoardSpec /\ \A w \in Writers : SF_boardVars(WriterStep(w))

-----------------------------------------------------------------------------
(* Properties *)

(* The save of a PATCH that gives a description. *)
Describes(w) == Given(w, "description")
Describing(w, t) == job[w].pc = "write" /\ job[w].ticket = t /\ Describes(w)

(* Nothing the tracker wrote to a ticket (a state move, a pin, a note, a   *)
(* new ticket) is undone by a later save, by whichever process, while the  *)
(* file exists: per-ticket flock and re-applied mutations.  A description  *)
(* replaces the body, but for what its caller had read of it; the front    *)
(* matter stays even then.                                                 *)
TrackerWritesKept ==
    \A t \in TicketIds :
       (file[t].there /\ file'[t].there) =>
          /\ file[t].text.by \cap Writers \subseteq file'[t].text.by
          /\ \A v \in file[t].text.body.by \cap Writers :
               \/ v \in file'[t].text.body.by
               \/ \E w \in Writers : Describing(w, t) /\ v \notin job[w].seen.by

(* A direct edit that changed `updated_at` and that the tracker has parsed *)
(* is in what the tracker then writes, even after three concurrent         *)
(* changes (_write_ticket_with_updated_at_cas), but for the body where a   *)
(* description replaces it.                                                *)
StampedEditsKept ==
    \A w \in Writers :
       (job[w].pc = "write" /\ file'[job[w].ticket] # file[job[w].ticket])
          => /\ job[w].latest.by \cap Stamped \subseteq file'[job[w].ticket].text.by
             /\ Describes(w) \/ job[w].latest.body.by \cap Stamped
                                  \subseteq file'[job[w].ticket].text.body.by

(* Both hold of every step: a save undoes neither what the tracker wrote   *)
(* to the ticket before nor a direct edit with a new `updated_at` that the *)
(* tracker has read, whichever processes and hands interleave, except that *)
(* a PATCH with a description undoes what the body got since its caller    *)
(* read it (per-ticket flock, _write_ticket_with_updated_at_cas).          *)
SavesUndoNothing == [][TrackerWritesKept /\ StampedEditsKept]_boardVars

(* What does not hold, because update_fields puts the description in the   *)
(* place of the body without asking what it was written from: a note that  *)
(* was appended meanwhile is gone.                                         *)
NotesKept ==
    \A t \in TicketIds :
       (file[t].there /\ file'[t].there) =>
          file[t].text.body.by \cap Writers \subseteq file'[t].text.body.by
BodiesKept == [][NotesKept]_boardVars

Finished(w) == job[w].pc \in Over

(* No operation waits for ever: a failed parse, a crash or a ticket that   *)
(* vanished does not leave a lock behind.                                  *)
WritersFinish == \A w \in Writers : <>Finished(w)

(* The validation's promise: blocked_by edges never form a cycle. *)
AcyclicBoard == \A t \in Known : ~CycleThrough(t, file[t].text.blocked_by)
=============================================================================
