------------------------------ MODULE ChatActions -------------------------------
(***************************************************************************)
(* The proposals a chat agent makes and an operator confirms: an intent,   *)
(* which files a ticket, and a project setup, which creates a repository.  *)
(* One session; each confirmation runs as a task of its own, and the       *)
(* session may be stopped while it runs.                                   *)
(***************************************************************************)
EXTENDS Naturals, FiniteSets

CONSTANTS Intents, SetupCards, Choices,
          MaxCards,       \* live proposals of a kind in one session
          MaxProposals,   \* proposals of both kinds
          MaxDiskFaults,  \* intent artifacts that cannot be written
          MaxCardEvents       \* operator messages, mode changes, expiries, failures

VARIABLES intent, setup,
          mode, session,  \* the session and how far its stop has come
          left,           \* setups the stop has still to wait for
          transcript,     \* setup outcomes recorded in the transcript
          tickets,        \* tickets filed for an intent
          atStop,         \* setups that ran when the session's stop began
          fresh,          \* setups proposed since the last message or mode change
          diskFaults, clock, cardEvents

cardVars == <<intent, setup, mode, session, left, transcript, tickets, atStop, fresh,
          diskFaults, clock, cardEvents>>

Statuses == {"none", "pending", "running", "approved", "succeeded", "failed", "expired",
             "superseded", "removed"}

CardsTypeOK ==
  /\ intent \in [Intents -> [st : Statuses, task : {"none", "file", "artifact"},
                             due : BOOLEAN, seq : Nat]]
  /\ setup \in [SetupCards -> [st : Statuses, task : BOOLEAN, due : BOOLEAN, seq : Nat,
                           choice : Choices, active : BOOLEAN]]
  /\ mode \in {"qa", "edit"}
  /\ session \in {"live", "turn", "setups", "backend", "flush", "gone"}
  /\ left \subseteq SetupCards /\ transcript \subseteq SetupCards
  /\ tickets \in [Intents -> Nat]

InitCards ==
  /\ intent = [i \in Intents |-> [st |-> "none", task |-> "none", due |-> FALSE, seq |-> 0]]
  /\ setup = [s \in SetupCards |-> [st |-> "none", task |-> FALSE, due |-> FALSE, seq |-> 0,
                                choice |-> CHOOSE c \in Choices : TRUE, active |-> FALSE]]
  /\ mode \in {"qa", "edit"} /\ session = "live"
  /\ left = {} /\ transcript = {} /\ atStop = {} /\ fresh = {}
  /\ tickets = [i \in Intents |-> 0]
  /\ diskFaults = 0 /\ clock = 0 /\ cardEvents = 0

CardEvent == cardEvents < MaxCardEvents /\ cardEvents' = cardEvents + 1
Live == session # "gone"

\* Expiry is noticed when somebody looks.
Expired(c) == IF c.st \in {"pending", "failed"} /\ c.due THEN [c EXCEPT !.st = "expired"] ELSE c
ExpireIntents == [i \in Intents |-> Expired(intent[i])]
ExpireSetups ==
  [s \in SetupCards |-> LET c == Expired(setup[s])
                    IN IF c.st = "expired" THEN [c EXCEPT !.active = FALSE] ELSE c]

\* Each proposal is a card of its own.
IsNew(cards, a) ==
  /\ clock < MaxProposals /\ cards[a].st = "none"
  /\ a = CHOOSE b \in DOMAIN cards : cards[b].st = "none"

Shown(cards) == {a \in DOMAIN cards : cards[a].st \notin {"none", "removed"}}

\* To make room the oldest settled cards go; open ones are never evicted.
Evicted(cards, settled) ==
  LET over == IF Cardinality(Shown(cards)) >= MaxCards
              THEN Cardinality(Shown(cards)) + 1 - MaxCards ELSE 0
      old(a) == Cardinality({b \in Shown(cards) : cards[b].st \in settled
                                                 /\ cards[b].seq < cards[a].seq})
  IN {a \in Shown(cards) : cards[a].st \in settled /\ old(a) < over}
Prune(cards, settled) ==
  [a \in DOMAIN cards |-> IF a \in Evicted(cards, settled)
                          THEN [cards[a] EXCEPT !.st = "removed"] ELSE cards[a]]

-----------------------------------------------------------------------------
(* Proposals.                                                               *)

\* A pending intent nobody is approving gives way.
Supersede(cards) ==
  [i \in Intents |-> IF cards[i].st = "pending" /\ cards[i].task = "none"
                     THEN [cards[i] EXCEPT !.st = "superseded"] ELSE cards[i]]

\* The agent's text carries an intent: the server keeps the latest draft.
ProposeIntent(i) ==
  LET kept == Prune(Supersede(ExpireIntents), {"approved", "expired", "superseded"}) IN
  /\ session \in {"live", "turn"} /\ IsNew(intent, i)
  /\ intent' = IF Cardinality(Shown(kept)) < MaxCards
               THEN [kept EXCEPT ![i] = [@ EXCEPT !.st = "pending", !.seq = clock]]
               ELSE kept
  /\ clock' = clock + 1
  /\ UNCHANGED <<setup, mode, session, left, transcript, tickets, atStop, fresh, diskFaults, cardEvents>>

Taken(choice) ==
  \E s \in SetupCards : LET c == ExpireSetups[s] IN
    c.choice = choice /\ ((c.st = "pending" /\ c.active) \/ c.st = "running")

ProposeSetup(s, choice) ==
  LET kept == Prune(ExpireSetups, {"succeeded", "expired"}) IN
  /\ session \in {"live", "turn"} /\ mode = "edit" /\ IsNew(setup, s)
  /\ IF Taken(choice) THEN setup' = ExpireSetups /\ UNCHANGED fresh
     ELSE IF Cardinality(Shown(kept)) < MaxCards
     THEN /\ setup' = [kept EXCEPT ![s] = [@ EXCEPT !.st = "pending", !.seq = clock,
                                                    !.choice = choice, !.active = TRUE]]
          /\ fresh' = fresh \cup {s}
     ELSE setup' = kept /\ UNCHANGED fresh
  /\ clock' = clock + 1
  /\ UNCHANGED <<intent, mode, session, left, transcript, tickets, atStop, diskFaults, cardEvents>>

Elapse ==
  /\ CardEvent
  /\ \/ \E i \in Intents : ~intent[i].due /\ intent[i].st \in {"pending", "running", "failed"}
          /\ intent' = [intent EXCEPT ![i].due = TRUE] /\ UNCHANGED setup
     \/ \E s \in SetupCards : ~setup[s].due /\ setup[s].st \in {"pending", "running", "failed"}
          /\ setup' = [setup EXCEPT ![s].due = TRUE] /\ UNCHANGED intent
  /\ UNCHANGED <<mode, session, left, transcript, tickets, atStop, fresh, diskFaults, clock>>

CloseWindows(cards) == [s \in SetupCards |-> [cards[s] EXCEPT !.active = FALSE]]

\* Any text that selects nothing is a message: numbers stop selecting, and
\* a pending intent is taken to be criticised.
PostMessage ==
  /\ Live /\ CardEvent
  /\ setup' = CloseWindows(ExpireSetups) /\ fresh' = {}
  /\ intent' = Supersede(ExpireIntents)
  /\ UNCHANGED <<mode, session, left, transcript, tickets, atStop, diskFaults, clock>>

SwitchMode ==
  /\ session = "live" /\ CardEvent
  /\ mode' = IF mode = "qa" THEN "edit" ELSE "qa"
  /\ setup' = CloseWindows(setup) /\ fresh' = {}
  /\ UNCHANGED <<intent, session, left, transcript, tickets, atStop, diskFaults, clock>>

-----------------------------------------------------------------------------
(* Confirmation, from the card's own button or from a reply.                *)

MutantMayApprove(c) == c.st \notin {"none", "removed", "approved", "superseded"} /\ ~c.due

\* Settled, running and superseded cards start nothing.
MayApprove(c) ==
  /\ c.st \notin {"none", "removed", "approved"} /\ c.task = "none"
  /\ c.st \notin {"superseded", "expired"} /\ ~c.due

ConfirmIntent(i) ==
  /\ Live /\ MayApprove(intent[i])
  /\ intent' = [intent EXCEPT ![i].st = "running", ![i].task = "file"]
  /\ UNCHANGED <<setup, mode, session, left, transcript, tickets, atStop, fresh, diskFaults, clock, cardEvents>>

\* A bare "approve" selects the one live proposal, or nothing.
Approvable == {i \in Intents : ExpireIntents[i].st \in {"pending", "failed"}}
Approve(i) == Approvable = {i} /\ ConfirmIntent(i)

ConfirmExpired(a) ==
  /\ Live
  /\ \/ /\ a \in Intents /\ intent[a].task = "none" /\ intent[a].due
        /\ intent[a].st \in {"pending", "failed"}
        /\ intent' = [intent EXCEPT ![a].st = "expired"] /\ UNCHANGED setup
     \/ /\ a \in SetupCards /\ ~setup[a].task /\ setup[a].due
        /\ setup[a].st \in {"pending", "failed"} /\ mode = "edit"
        /\ setup' = [setup EXCEPT ![a].st = "expired", ![a].active = FALSE] /\ UNCHANGED intent
  /\ UNCHANGED <<mode, session, left, transcript, tickets, atStop, fresh, diskFaults, clock, cardEvents>>

MayCreate(c) ==
  /\ c.st \notin {"none", "removed", "succeeded", "expired"} /\ ~c.task /\ ~c.due

ConfirmSetup(s) ==
  /\ Live /\ mode = "edit" /\ MayCreate(setup[s])
  /\ setup' = [setup EXCEPT ![s].st = "running", ![s].task = TRUE, ![s].active = FALSE]
  /\ UNCHANGED <<intent, mode, session, left, transcript, tickets, atStop, fresh, diskFaults, clock, cardEvents>>

Selected(choice) ==
  {s \in SetupCards : LET c == ExpireSetups[s] IN
     c.choice = choice /\ c.active /\ c.st \in {"pending", "failed"}}
Number(choice) == \E s \in SetupCards : Selected(choice) = {s} /\ ConfirmSetup(s)

-----------------------------------------------------------------------------
(* The tasks.                                                               *)

FileTicket(i) ==
  /\ intent[i].task = "file"
  /\ tickets' = [tickets EXCEPT ![i] = @ + 1]
  /\ intent' = [intent EXCEPT ![i].task = "artifact"]
  /\ UNCHANGED <<setup, mode, session, left, transcript, atStop, fresh, diskFaults, clock, cardEvents>>

TicketFails(i) ==
  /\ intent[i].task = "file" /\ CardEvent
  /\ intent' = [intent EXCEPT ![i].st = "failed", ![i].task = "none"]
  /\ UNCHANGED <<setup, mode, session, left, transcript, tickets, atStop, fresh, diskFaults, clock>>

\* The ticket stays when its artifact cannot be written.
WriteArtifact(i) ==
  /\ intent[i].task = "artifact"
  /\ \/ intent' = [intent EXCEPT ![i].st = "approved", ![i].task = "none"] /\ UNCHANGED diskFaults
     \/ /\ diskFaults < MaxDiskFaults /\ diskFaults' = diskFaults + 1
        /\ intent' = [intent EXCEPT ![i].st = "failed", ![i].task = "none"]
  /\ UNCHANGED <<setup, mode, session, left, transcript, tickets, atStop, fresh, clock, cardEvents>>

\* A row reaches the transcript while its writer is open.
Record(s) == transcript' = IF session \in {"flush", "gone"} THEN transcript ELSE transcript \cup {s}

RunSetup(s) ==
  /\ setup[s].task
  /\ \E st \in {"succeeded", "failed"} :
       /\ st = "failed" => cardEvents < MaxCardEvents
       /\ cardEvents' = cardEvents + (IF st = "failed" THEN 1 ELSE 0)
       /\ setup' = [setup EXCEPT ![s].st = st, ![s].task = FALSE]
  /\ Record(s)
  /\ UNCHANGED <<intent, mode, session, left, tickets, atStop, fresh, diskFaults, clock>>

-----------------------------------------------------------------------------
(* Stop.                                                                    *)

Stop ==
  /\ session = "live" /\ session' = "turn"
  /\ atStop' = {s \in SetupCards : setup[s].task} /\ left' = Shown(setup)
  /\ UNCHANGED <<intent, setup, mode, transcript, tickets, fresh, diskFaults, clock, cardEvents>>

\* The wait goes through the cards in order; a card it has passed is not
\* looked at again.
Passed(s) == \A u \in left : setup[u].seq <= setup[s].seq => ~setup[u].task

AwaitSetups ==
  /\ session \in {"turn", "setups"}
  /\ left' = {s \in (IF session = "turn" THEN Shown(setup) ELSE left) : ~Passed(s)}
  /\ session' = IF left' = {} THEN "backend" ELSE "setups"
  /\ left' # left \/ session' # session
  /\ UNCHANGED <<intent, setup, mode, transcript, tickets, atStop, fresh, diskFaults, clock, cardEvents>>

StopChatAgent ==
  /\ session = "backend" /\ session' = "flush"
  /\ UNCHANGED <<intent, setup, mode, left, transcript, tickets, atStop, fresh, diskFaults, clock, cardEvents>>

LeaveSession ==
  /\ session = "flush" /\ session' = "gone"
  /\ UNCHANGED <<intent, setup, mode, left, transcript, tickets, atStop, fresh, diskFaults, clock, cardEvents>>

-----------------------------------------------------------------------------
IntentStep(i) ==
  \/ ProposeIntent(i) \/ ConfirmIntent(i) \/ Approve(i) \/ ConfirmExpired(i)
  \/ FileTicket(i) \/ TicketFails(i) \/ WriteArtifact(i)

SetupCardStep(s) ==
  \/ \E choice \in Choices : ProposeSetup(s, choice)
  \/ ConfirmSetup(s) \/ ConfirmExpired(s) \/ RunSetup(s)

NextCards ==
  \/ \E i \in Intents : IntentStep(i)
  \/ \E s \in SetupCards : SetupCardStep(s)
  \/ \E choice \in Choices : Number(choice)
  \/ Elapse \/ PostMessage \/ SwitchMode
  \/ Stop \/ AwaitSetups \/ StopChatAgent \/ LeaveSession

CardsSpec == InitCards /\ [][NextCards]_cardVars

-----------------------------------------------------------------------------
(* However often and from wherever an intent is approved, requests share one *)
(* filing: only an artifact that could not be written leads to a second      *)
(* ticket (chat confirm_intent, _run_intent_approval).                       *)
ApprovalsShareFiling == \A i \in Intents : tickets[i] <= 1 + diskFaults

(* "an in-flight approval shared by concurrent requests so the ticket is     *)
(* filed once" (chat/__init__.py:1208-1210): the board gets one ticket.      *)
FiledOnce == \A i \in Intents : tickets[i] <= 1

(* "the operator approves the latest card, never a stale draft"              *)
(* (chat/__init__.py:1537): a pending intent is the newest one proposed.     *)
LatestDraft ==
  \A i, j \in Intents : intent[i].st = "pending" /\ intent[j].st = "pending" => i = j

(* A bare number names one proposal made since the operator last said        *)
(* anything else: an old list never turns a later number into a repository.  *)
NumberIsCurrent ==
  \A s \in SetupCards : setup[s].active =>
    /\ s \in fresh
    /\ \A u \in SetupCards : setup[u].active /\ setup[u].choice = setup[s].choice => u = s

(* The outcome of a setup that ran when its session was stopped reaches the  *)
(* transcript before the writer closes (chat/__init__.py:846-848).           *)
SetupSurvivesStop ==
  session \in {"flush", "gone"} => \A s \in atStop : s \in transcript

===============================================================================
