--------------------------- MODULE ReleaseProofs ---------------------------
(***************************************************************************)
(* Proofs about module Release, for any number of runs, commits, cycles    *)
(* and disturbances: an approval and a completion are earned, and the      *)
(* registry and the tasks that race on it implement ReleaseCycle.  Then    *)
(* about module Improvement, for any number of orchestrators, turns and    *)
(* incidents: a heartbeat removes its worktree and reports nothing twice.  *)
(*                                                                         *)
(* The argument follows the evidence.  What a task carries from the turn   *)
(* that tested a commit to the transaction that approves it is a validation*)
(* (val) and the row it read (snap); both may be stale.  Carried says that *)
(* a green validation is one that was recorded for the generation of that  *)
(* row, so that an approval, which the registry grants only while the row  *)
(* is still the same, is earned.                                           *)
(***************************************************************************)
EXTENDS Release, Improvement, SequenceTheorems, TLAPS

Contracts == {0} \cup {ContractOf[t] : t \in Targets}
Commits == Targets \cup {NoTarget}
Fingerprints == {<<>>} \cup (Verifiers \X Commits)
Holders == Runs \cup {NoRun}

Gate == [status : {"none", "pending", "approved"}, gen : Nat, vfy : Verifiers,
         contract : Contracts, fp : Fingerprints, vrun : Holders, frun : Holders,
         tgt : Commits, done : Nat, fresh : SUBSET Runs]

\* Where a task is before its run has a lease, of a finalizer, and of a verifier.
Early == {"off", "reopenV", "reopenF", "acquire", "bind"}
Finalizing == {"guard", "mark", "confirm", "rewindF", "endF"}
Verifying == {"enforce", "validate", "decide", "approve", "reserve", "create", "pend",
              "relink", "prove", "rewind"}

Task == [pc : Early \cup Finalizing \cup Verifying \cup {"work"},
         of : Verifiers \cup {Finalizer}, snap : Gate, val : Validation,
         role : {"repair", "verifier"}, tok : Nat,
         then : {"off", "acquire", "work", "mark", "endF", "rewindF"}]

(* The registry's side of the invariant: the row is well formed, its        *)
(* generation is the last one drawn, no later one is approved and neither   *)
(* is a pending one.                                                        *)
GateInv ==
    /\ gate.gen = gens /\ gens <= MaxGen
    /\ gate.status # "none" => gens > 0
    /\ \A g \in Generations : g > gens => approvals[g] = NoTarget
    /\ gate.status = "pending" => approvals[gate.gen] = NoTarget
    /\ gate.status = "approved" => approvals[gate.gen] \in Targets /\ gate.tgt \in Targets

Registry ==
    /\ gate \in Gate /\ gens \in Nat /\ approvals \in [Generations -> Commits]
    /\ GateInv /\ ApprovalIsEarned

(* The board's side is typing only. *)
Ticket == [state : {"active", "success"}, deps : SUBSET Verifiers, ver : Nat]
Board == fin \in Ticket /\ target \in Targets

(* A validation is there only after a verifier's turn, and an approval is   *)
(* asked for only on a green one.                                           *)
Role(k) ==
    /\ k.pc \in Early \cup Finalizing \/ k.of = Finalizer => k.val = NoValidation
    /\ k.pc \in Verifying => k.of # Finalizer /\ k.val.tgt \in Targets
    /\ k.pc \in {"create", "pend", "relink"} => Len(k.of) < MaxCycles
    /\ k.pc = "approve" => k.val.kind = "green"

(* A green validation that run r carries in task k was recorded for the     *)
(* generation of the row it carries.                                        *)
Carries(r, k) ==
    k.val.kind = "green" => [gen |-> k.snap.gen, run |-> r, tgt |-> k.val.tgt] \in proof

Tasks ==
    /\ task \in [Runs -> Task]
    /\ \A r \in Runs : Role(task[r]) /\ Carries(r, task[r])

(* The inductive invariant. *)
IInv == Registry /\ Board /\ Tasks /\ CompletionIsEarned

-----------------------------------------------------------------------------
(* The operators the model is built from *)

(* The initial row and an idle task are well formed. *)
LEMMA InitialTypes ==
    /\ NoGate \in Gate /\ NoValidation \in Validation /\ Idle \in Task /\ First \in Verifiers
    /\ Role(Idle) /\ \A r \in Runs : Carries(r, Idle)
<1>1. First \in Verifiers
  <2>1. 0 \in 0 .. MaxCycles /\ First \in [1 .. 0 -> Targets]
    BY ReleaseAssumption DEF First
  <2> QED BY <2>1 DEF Verifiers
<1>2. NoGate \in Gate
  BY <1>1 DEF NoGate, Gate, Contracts, Fingerprints, Holders, Commits, NoToken
<1>3. NoValidation \in Validation
  BY DEF NoValidation, Validation
<1>4. Idle \in Task
  BY <1>1, <1>2, <1>3 DEF Idle, Task, NoToken, Early
<1>5. Role(Idle) /\ \A r \in Runs : Carries(r, Idle)
  BY DEF Role, Carries, Idle, Early, Verifying, NoValidation
<1> QED BY <1>1, <1>2, <1>3, <1>4, <1>5

(* The identifier of a fresh verifier (cycle.py:66) is one of a verifier    *)
(* as long as the bound on cycles is not reached.                           *)
LEMMA FreshVerifier ==
    ASSUME NEW v \in Verifiers, NEW t \in Targets, Len(v) < MaxCycles
    PROVE  Fresh(v, t) \in Verifiers
<1>1. PICK n \in 0 .. MaxCycles : v \in [1 .. n -> Targets]
  BY DEF Verifiers
<1>2. v \in Seq(Targets) /\ Len(v) = n
  BY <1>1
<1>3. n + 1 \in 0 .. MaxCycles
  BY <1>1, <1>2, ReleaseAssumption
<1>4. Append(v, t) \in [1 .. n + 1 -> Targets]
  <2>1. Append(v, t) \in Seq(Targets) /\ Len(Append(v, t)) = n + 1
    BY <1>2, AppendProperties
  <2> QED BY <2>1, LenProperties
<1> QED BY <1>3, <1>4 DEF Verifiers, Fresh

(* Edits of the finalizer's ticket keep it a ticket. *)
LEMMA TicketEdits ==
    ASSUME NEW f \in Ticket, NEW state \in {"active", "success"}, NEW deps \in SUBSET Verifiers
    PROVE  /\ Touched(f) \in Ticket /\ Touched(f).deps = f.deps /\ Touched(f).state = f.state
           /\ [Touched(f) EXCEPT !.state = state] \in Ticket
           /\ [Touched(f) EXCEPT !.deps = deps] \in Ticket
           /\ [Touched(f) EXCEPT !.deps = deps, !.state = state] \in Ticket
<1>1. /\ Touched(f) \in Ticket /\ Touched(f).deps = f.deps /\ Touched(f).state = f.state
  BY DEF Ticket, Touched
<1> QED BY <1>1 DEF Ticket

-----------------------------------------------------------------------------
(* Steps by their effect on the tasks *)

(* One task goes on as k, well formed and with evidence for what it         *)
(* carries; evidence is never forgotten.                                    *)
LEMMA TaskStep ==
    ASSUME Tasks, NEW r \in Runs, NEW k \in Task, Role(k),
           task' = [task EXCEPT ![r] = k], proof \subseteq proof',
           k.val.kind = "green" =>
              [gen |-> k.snap.gen, run |-> r, tgt |-> k.val.tgt] \in proof'
    PROVE  Tasks'
  BY DEF Tasks, Role, Carries

(* ... or no task moves. *)
LEMMA TaskKept ==
    ASSUME Tasks, task' = task, proof' = proof
    PROVE  Tasks'
  BY DEF Tasks, Carries

(* A task that moves to program point at, with the same row and validation. *)
LEMMA TaskGoto ==
    ASSUME Tasks, NEW r \in Runs, NEW at, Goto(r, at), proof' = proof,
           at \in Early \cup Finalizing \cup Verifying \cup {"work"},
           Role([task[r] EXCEPT !.pc = at])
    PROVE  Tasks'
<1> DEFINE k == [task[r] EXCEPT !.pc = at]
<1>1. k \in Task /\ k.val = task[r].val /\ k.snap = task[r].snap
  BY DEF Tasks, Task
<1>2. task' = [task EXCEPT ![r] = k]
  BY DEF Goto
<1>3. k.val.kind = "green" => [gen |-> k.snap.gen, run |-> r, tgt |-> k.val.tgt] \in proof'
  BY <1>1 DEF Tasks, Carries
<1> HIDE DEF k
<1> QED BY <1>1, <1>2, <1>3, TaskStep DEF k

(* A task that stops. *)
LEMMA TaskStop ==
    ASSUME Tasks, NEW r \in Runs, Stop(r), proof' = proof
    PROVE  Tasks'
  BY InitialTypes, TaskStep DEF Stop, Carries

(* A task that starts. *)
LEMMA TaskBegin ==
    ASSUME Tasks, NEW r \in Runs, NEW t \in Verifiers \cup {Finalizer},
           NEW at \in {"acquire", "reopenV"}, NEW then \in {"off", "acquire"},
           gate' \in Gate, Begin(r, t, at, then), proof' = proof
    PROVE  Tasks'
<1> DEFINE k == [Idle EXCEPT !.pc = at, !.of = t, !.snap = gate', !.then = then]
<1>1. k \in Task /\ k.val = NoValidation /\ k.pc = at
  BY InitialTypes DEF Idle, Task, Early
<1>2. Role(k)
  BY <1>1 DEF Role, Early, Verifying
<1>3. task' = [task EXCEPT ![r] = k]
  BY DEF Begin
<1>4. k.val.kind # "green"
  BY <1>1 DEF NoValidation
<1> HIDE DEF k
<1> QED BY <1>1, <1>2, <1>3, <1>4, TaskStep

-----------------------------------------------------------------------------
(* Steps by their effect on the registry *)

(* replace_pending_release_gate opens a new generation, which is neither    *)
(* approved nor completed.                                                  *)
LEMMA RegistryOpen ==
    ASSUME Registry, NEW v \in Verifiers, NEW c \in Contracts, NEW fp \in Fingerprints,
           ReplacePending(v, c, fp), proof' = proof
    PROVE  Registry' /\ gate'.status = "pending" /\ gate'.gen = gens + 1
<1>1. gate' = [NoGate EXCEPT !.status = "pending", !.gen = gens + 1, !.vfy = v,
                             !.contract = c, !.fp = fp]
      /\ gens < MaxGen /\ gens' = gens + 1 /\ approvals' = approvals
  BY DEF ReplacePending
<1>2. gate' \in Gate /\ gate'.status = "pending" /\ gate'.gen = gens + 1
  <2>1. NoGate \in Gate /\ gens + 1 \in Nat
    BY InitialTypes DEF Registry
  <2> QED BY <1>1, <2>1 DEF Gate
<1>3. gens' \in Generations /\ approvals[gens'] = NoTarget
  BY <1>1, ReleaseAssumption DEF Registry, GateInv, Generations
<1>4. GateInv' /\ ApprovalIsEarned'
  BY <1>1, <1>2, <1>3, ReleaseAssumption DEF Registry, GateInv, ApprovalIsEarned, Generations
<1> QED BY <1>1, <1>2, <1>4 DEF Registry

(* The initial cycle's fingerprint names no commit. *)
LEMMA RegistryPending ==
    ASSUME Registry, NEW v \in Verifiers, NEW c \in Contracts,
           PersistPending(v, c), proof' = proof
    PROVE  Registry' /\ gate'.status = "pending" /\ gate'.gen = gens + 1
<1>1. Fingerprint(v, NoTarget) \in Fingerprints
  BY DEF Fingerprint, Fingerprints, Commits
<1> QED BY <1>1, RegistryOpen DEF PersistPending

(* A step that keeps the row's cycle, its verdict and its verifier's run    *)
(* keeps what was earned.                                                   *)
LEMMA RegistryKept ==
    ASSUME Registry, gate' \in Gate, gens' = gens, approvals' = approvals,
           gate'.status = gate.status, gate'.gen = gate.gen, gate'.tgt = gate.tgt,
           gate'.vrun = gate.vrun \/ gate.status = "pending",
           proof \subseteq proof'
    PROVE  Registry'
  BY DEF Registry, GateInv, ApprovalIsEarned

LEMMA RegistrySame ==
    ASSUME Registry, UNCHANGED store, proof \subseteq proof'
    PROVE  Registry'
  BY DEF store, Registry, GateInv, ApprovalIsEarned
-----------------------------------------------------------------------------
(* The initial states, and the steps by actor *)

LEMMA InitIInv == Init => IInv
<1> SUFFICES ASSUME Init PROVE IInv
  OBVIOUS
<1>1. Registry
  <2>1. gate \in Gate /\ gens \in Nat /\ approvals \in [Generations -> Commits]
    BY InitialTypes DEF Init, Commits
  <2>2. GateInv /\ ApprovalIsEarned
    BY ReleaseAssumption DEF Init, GateInv, ApprovalIsEarned, NoGate
  <2> QED BY <2>1, <2>2 DEF Registry
<1>2. Board
  BY InitialTypes, ReleaseAssumption DEF Init, Board, Ticket
<1>3. Tasks
  BY InitialTypes DEF Init, Tasks
<1>4. CompletionIsEarned
  BY DEF Init, CompletionIsEarned
<1> QED BY <1>1, <1>2, <1>3, <1>4 DEF IInv

(* What a task of a known run has. *)
LEMMA TaskFacts ==
    ASSUME IInv, NEW r \in Runs
    PROVE  /\ task[r] \in Task /\ Role(task[r]) /\ Carries(r, task[r])
           /\ gate \in Gate /\ gens \in Nat /\ target \in Targets
           /\ gate.vfy \in Verifiers /\ gate.contract \in Contracts
           /\ \A t \in Targets : ContractOf[t] \in Contracts
  BY DEF IInv, Registry, Board, Tasks, Gate, Contracts

(* _prepare_release_dispatch, the lease and the binding. *)
LEMMA DispatchIInv ==
    ASSUME IInv, NEW r \in Runs, DispatchStep(r)
    PROVE  IInv'
<1> USE TaskFacts
<1>1. ASSUME NEW v \in Verifiers, PrepareVerifier(r, v)
      PROVE  IInv'
  <2>1. Board' /\ CompletionIsEarned' /\ proof' = proof
    <3>1. fin \in Ticket /\ [Touched(fin) EXCEPT !.state = "active"] \in Ticket
      BY TicketEdits DEF IInv, Board
    <3> QED BY <1>1, <3>1 DEF PrepareVerifier, InitialGate, IInv, Board, CompletionIsEarned
  <2>2. CASE InitialGate(r, v)
    <3>1. Registry'
      BY <2>1, <2>2, RegistryPending DEF InitialGate, IInv
    <3>2. Tasks'
      BY <2>1, <2>2, <3>1, TaskBegin DEF InitialGate, IInv, Registry
    <3> QED BY <2>1, <3>1, <3>2 DEF IInv
  <2>3. CASE /\ UNCHANGED <<store, fin>>
             /\ Begin(r, v, IF fin.state = "active" THEN "acquire" ELSE "reopenV", "acquire")
    <3>1. Registry'
      BY <2>1, <2>3, RegistrySame DEF IInv
    <3>2. Tasks'
      BY <2>1, <2>3, <3>1, TaskBegin DEF IInv, Registry
    <3> QED BY <2>1, <3>1, <3>2 DEF IInv
  <2>4. CASE PersistPending(v, gate.contract) /\ Begin(r, v, "reopenV", "acquire")
    <3>1. Registry'
      BY <2>1, <2>4, RegistryPending DEF IInv
    <3>2. Tasks'
      BY <2>1, <2>4, <3>1, TaskBegin DEF IInv, Registry
    <3> QED BY <2>1, <3>1, <3>2 DEF IInv
  <2> QED BY <1>1, <2>2, <2>3, <2>4 DEF PrepareVerifier
<1>2. CASE PrepareFinalizer(r)
  <2>1. Board' /\ CompletionIsEarned' /\ proof' = proof
    BY <1>2 DEF PrepareFinalizer, board, IInv, Board, CompletionIsEarned
  <2>2. CASE PersistPending(gate.vfy, ContractOf[target]) /\ Begin(r, Finalizer, "reopenV", "off")
    <3>1. Registry'
      BY <2>1, <2>2, RegistryPending DEF IInv
    <3>2. Tasks'
      BY <2>1, <2>2, <3>1, TaskBegin DEF IInv, Registry
    <3> QED BY <2>1, <3>1, <3>2 DEF IInv
  <2>3. CASE UNCHANGED store /\ Begin(r, Finalizer, "acquire", "off")
    <3>1. Registry'
      BY <2>1, <2>3, RegistrySame DEF IInv
    <3>2. Tasks'
      BY <2>1, <2>3, <3>1, TaskBegin DEF IInv, Registry
    <3> QED BY <2>1, <3>1, <3>2 DEF IInv
  <2> QED BY <1>2, <2>2, <2>3 DEF PrepareFinalizer
<1>3. CASE ReopenVerifier(r)
  <2>1. Board' /\ CompletionIsEarned' /\ proof' = proof /\ UNCHANGED store
    BY <1>3 DEF ReopenVerifier, IInv, Board, CompletionIsEarned
  <2>2. Role([task[r] EXCEPT !.pc = "reopenF"])
    BY <1>3 DEF ReopenVerifier, Task, Role, Early, Verifying
  <2>3. Tasks'
    BY <1>3, <2>1, <2>2, TaskGoto DEF ReopenVerifier, IInv, Early
  <2> QED BY <2>1, <2>3, RegistrySame DEF IInv
<1>4. CASE ReopenFinalizer(r)
  <2>1. CompletionIsEarned' /\ proof' = proof /\ UNCHANGED store
    BY <1>4 DEF ReopenFinalizer, IInv, CompletionIsEarned
  <2>2. Board'
    <3> DEFINE deps == Touched(fin).deps \cup {task[r].snap.vfy}
               state == IF task[r].then \in {"off", "endF"} THEN Touched(fin).state ELSE "active"
    <3>1. fin \in Ticket /\ task[r].snap.vfy \in Verifiers
      BY DEF Task, Gate, IInv, Board
    <3>2. deps \in SUBSET Verifiers /\ state \in {"active", "success"}
      BY <3>1, TicketEdits DEF Ticket
    <3>3. fin' = [Touched(fin) EXCEPT !.deps = deps, !.state = state] /\ target' = target
      BY <1>4, <3>1, TicketEdits DEF ReopenFinalizer, Ticket
    <3> HIDE DEF deps, state
    <3> QED BY <3>1, <3>2, <3>3, TicketEdits DEF IInv, Board
  <2>3. task[r].then \in {"off", "acquire", "work", "mark", "endF", "rewindF"}
    BY DEF Task
  <2>4. Role([task[r] EXCEPT !.pc = task[r].then])
    BY <1>4, <2>3 DEF ReopenFinalizer, Task, Role, Early, Verifying
  <2>5. Tasks'
    BY <1>4, <2>1, <2>3, <2>4, TaskGoto DEF ReopenFinalizer, IInv, Early, Finalizing
  <2> QED BY <2>1, <2>2, <2>5, RegistrySame DEF IInv
<1>5. CASE Acquire(r)
  <2>1. /\ Board' /\ CompletionIsEarned' /\ proof' = proof
        /\ gens' = gens /\ approvals' = approvals
    BY <1>5 DEF Acquire, board, IInv, Board, CompletionIsEarned
  <2>2. CASE Live(task[r].of) = {}
    <3>1. gate' = [gate EXCEPT !.fresh = @ \cup {r}] /\ Goto(r, "bind")
      BY <1>5, <2>2 DEF Acquire
    <3>2. gate' \in Gate /\ gate'.status = gate.status /\ gate'.gen = gate.gen
          /\ gate'.tgt = gate.tgt /\ gate'.vrun = gate.vrun
      BY <3>1 DEF Gate
    <3>3. Registry'
      BY <2>1, <3>2, RegistryKept DEF IInv
    <3>4. Role([task[r] EXCEPT !.pc = "bind"])
      BY <1>5 DEF Acquire, Task, Role, Early, Verifying
    <3>5. Tasks'
      BY <2>1, <3>1, <3>4, TaskGoto DEF IInv, Early
    <3> QED BY <2>1, <3>3, <3>5 DEF IInv
  <2>3. CASE Live(task[r].of) # {}
    <3>1. Stop(r) /\ UNCHANGED store
      BY <1>5, <2>3 DEF Acquire, store
    <3> QED BY <2>1, <3>1, TaskStop, RegistrySame DEF IInv
  <2> QED BY <2>2, <2>3
<1>6. CASE Bind(r)
  <2>1. /\ Board' /\ CompletionIsEarned' /\ proof' = proof
        /\ gens' = gens /\ approvals' = approvals /\ evid' = evid /\ items' = items
    BY <1>6 DEF Bind, board, IInv, Board, CompletionIsEarned
  <2>2. task[r].pc = "bind" /\ task[r].val = NoValidation
    BY <1>6 DEF Bind, Role, Early
  <2>3. CASE gate.status = "pending" /\ gate' = [gate EXCEPT !.vrun = r]
             /\ task' = [task EXCEPT ![r].pc = "work", ![r].snap = gate']
    <3> DEFINE k == [task[r] EXCEPT !.pc = "work", !.snap = gate']
    <3>1. gate' \in Gate /\ gate'.status = gate.status /\ gate'.gen = gate.gen
          /\ gate'.tgt = gate.tgt
      BY <2>3 DEF Gate, Holders
    <3>2. Registry'
      BY <2>1, <2>3, <3>1, RegistryKept DEF IInv
    <3>3. k \in Task /\ k.pc = "work" /\ k.val = NoValidation /\ task' = [task EXCEPT ![r] = k]
      BY <2>2, <2>3, <3>1 DEF Task
    <3> HIDE DEF k
    <3>4. Role(k) /\ k.val.kind # "green"
      BY <3>3 DEF Role, Early, Verifying, NoValidation
    <3>5. Tasks'
      BY <2>1, <3>3, <3>4, TaskStep DEF IInv
    <3> QED BY <2>1, <3>2, <3>5 DEF IInv
  <2>4. CASE /\ gate' = [gate EXCEPT !.frun = r]
             /\ task' = [task EXCEPT ![r].pc = "guard", ![r].snap = gate', ![r].then = "work"]
    <3> DEFINE k == [task[r] EXCEPT !.pc = "guard", !.snap = gate', !.then = "work"]
    <3>1. gate' \in Gate /\ gate'.status = gate.status /\ gate'.gen = gate.gen
          /\ gate'.tgt = gate.tgt /\ gate'.vrun = gate.vrun
      BY <2>4 DEF Gate, Holders
    <3>2. Registry'
      BY <2>1, <3>1, RegistryKept DEF IInv
    <3>3. k \in Task /\ k.pc = "guard" /\ k.val = NoValidation /\ task' = [task EXCEPT ![r] = k]
      BY <2>2, <2>4, <3>1 DEF Task, Finalizing
    <3> HIDE DEF k
    <3>4. Role(k) /\ k.val.kind # "green"
      BY <3>3 DEF Role, Verifying, NoValidation
    <3>5. Tasks'
      BY <2>1, <3>3, <3>4, TaskStep DEF IInv
    <3> QED BY <2>1, <3>2, <3>5 DEF IInv
  <2>5. CASE EndRun(r, "ended") /\ UNCHANGED gate
    <3>1. Stop(r) /\ UNCHANGED store
      BY <2>1, <2>5 DEF EndRun, store
    <3> QED BY <2>1, <3>1, TaskStop, RegistrySame DEF IInv
  <2> QED BY <1>6, <2>3, <2>4, <2>5 DEF Bind, BindVerifier
<1> QED BY <1>1, <1>2, <1>3, <1>4, <1>5, <1>6 DEF DispatchStep

(* A verifier's run, from its turn to the decision. *)
LEMMA VerifierIInv ==
    ASSUME IInv, NEW r \in Runs, VerifierStep(r)
    PROVE  IInv'
<1> USE TaskFacts
<1>1. CASE Verify(r)
  <2>1. Board' /\ UNCHANGED store /\ proof \subseteq proof' /\ CompletionIsEarned'
    BY <1>1 DEF Verify, IInv, Board, CompletionIsEarned
  <2>2. CASE Authority(r)
    <3>1. PICK kind \in {"green", "red", "errors"} :
            /\ task' = [task EXCEPT ![r].pc = "enforce",
                                    ![r].val = [kind |-> kind, tgt |-> target]]
            /\ proof' = IF kind # "green" THEN proof
                        ELSE proof \cup {[gen |-> gate.gen, run |-> r, tgt |-> target]}
      BY <1>1, <2>2 DEF Verify
    <3> DEFINE k == [task[r] EXCEPT !.pc = "enforce", !.val = [kind |-> kind, tgt |-> target]]
    <3>2. [kind |-> kind, tgt |-> target] \in Validation
      BY DEF Validation
    <3>3. k \in Task /\ task' = [task EXCEPT ![r] = k] /\ k.pc = "enforce"
          /\ k.val = [kind |-> kind, tgt |-> target] /\ k.of = task[r].of
          /\ k.snap = task[r].snap
      BY <3>1, <3>2 DEF Task, Verifying
    <3> HIDE DEF k
    <3>4. Role(k)
      BY <1>1, <3>3 DEF Verify, Role, Early, Finalizing
    <3>5. k.val.kind = "green" =>
             [gen |-> k.snap.gen, run |-> r, tgt |-> k.val.tgt] \in proof'
      BY <2>2, <3>1, <3>3 DEF Authority, SameRow
    <3>6. Tasks'
      BY <2>1, <3>3, <3>4, <3>5, TaskStep DEF IInv
    <3> QED BY <2>1, <3>6, RegistrySame DEF IInv
  <2>3. CASE ~Authority(r)
    <3>1. Stop(r) /\ proof' = proof
      BY <1>1, <2>3 DEF Verify, EndRun
    <3> QED BY <2>1, <3>1, TaskStop, RegistrySame DEF IInv
  <2> QED BY <2>2, <2>3
<1>2. CASE Enforce(r)
  <2>1. Board' /\ UNCHANGED store /\ proof' = proof /\ CompletionIsEarned'
    BY <1>2 DEF Enforce, board, IInv, Board, CompletionIsEarned
  <2>2. CASE gate.vfy = task[r].of /\ Authority(r)
    <3> DEFINE k == [task[r] EXCEPT !.pc = "validate", !.snap = gate]
    <3>1. task' = [task EXCEPT ![r] = k]
      BY <1>2, <2>2 DEF Enforce
    <3>2. k \in Task /\ k.pc = "validate" /\ k.val = task[r].val /\ k.of = task[r].of
          /\ k.snap = gate
      BY DEF Task, Verifying
    <3> HIDE DEF k
    <3>3. Role(k)
      BY <1>2, <3>2 DEF Enforce, Role, Early, Finalizing, Verifying
    <3>4. k.val.kind = "green" =>
             [gen |-> k.snap.gen, run |-> r, tgt |-> k.val.tgt] \in proof'
      BY <2>1, <2>2, <3>2 DEF Authority, SameRow, Carries
    <3>5. Tasks'
      BY <2>1, <3>1, <3>2, <3>3, <3>4, TaskStep DEF IInv
    <3> QED BY <2>1, <3>5, RegistrySame DEF IInv
  <2>3. CASE ~(gate.vfy = task[r].of /\ Authority(r))
    <3>1. Stop(r)
      BY <1>2, <2>3 DEF Enforce, EndRun
    <3> QED BY <2>1, <3>1, TaskStop, RegistrySame DEF IInv
  <2> QED BY <2>2, <2>3
<1>3. CASE Validate(r)
  <2>1. Board' /\ UNCHANGED store /\ proof' = proof /\ CompletionIsEarned'
    BY <1>3 DEF Validate, board, IInv, Board, CompletionIsEarned
  <2> DEFINE w == [kind |-> IF task[r].val.tgt = target THEN task[r].val.kind ELSE "errors",
                   tgt |-> target]
             k == [task[r] EXCEPT !.pc = "decide", !.val = w]
  <2>2. w \in Validation /\ w.tgt = target
        /\ (w.kind = "green" => task[r].val.kind = "green" /\ task[r].val.tgt = w.tgt)
    BY DEF Validation, Task
  <2>3. task' = [task EXCEPT ![r] = k]
    BY <1>3 DEF Validate
  <2> HIDE DEF w
  <2>4. k \in Task /\ k.pc = "decide" /\ k.val = w /\ k.of = task[r].of /\ k.snap = task[r].snap
    BY <2>2 DEF Task, Verifying
  <2> HIDE DEF k
  <2>5. Role(k)
    BY <1>3, <2>2, <2>4 DEF Validate, Role, Early, Finalizing, Verifying
  <2>6. k.val.kind = "green" =>
           [gen |-> k.snap.gen, run |-> r, tgt |-> k.val.tgt] \in proof'
    BY <2>1, <2>2, <2>4 DEF Carries
  <2>7. Tasks'
    BY <2>1, <2>3, <2>4, <2>5, <2>6, TaskStep DEF IInv
  <2> QED BY <2>1, <2>7, RegistrySame DEF IInv
<1>4. CASE Decide(r)
  <2>1. Board' /\ proof' = proof /\ CompletionIsEarned'
    BY <1>4 DEF Decide, board, IInv, Board, CompletionIsEarned
  <2>2. /\ task[r].pc = "decide" /\ task[r].of # Finalizer /\ task[r].of \in Verifiers
        /\ task[r].val.tgt \in Targets /\ ContractOf[task[r].val.tgt] \in Contracts
    BY <1>4 DEF Decide, Role, Verifying, Task
  <2>3. Role([task[r] EXCEPT !.pc = "rewind"])
    BY <2>2 DEF Role, Task, Early, Finalizing
  <2>4. CASE Stop(r) /\ UNCHANGED store
    BY <2>1, <2>4, TaskStop, RegistrySame DEF IInv
  <2>5. CASE Goto(r, "rewind") /\ UNCHANGED store
    BY <2>1, <2>3, <2>5, TaskGoto, RegistrySame DEF IInv, Verifying
  <2>6. CASE /\ PersistPending(task[r].of, ContractOf[task[r].val.tgt])
             /\ Goto(r, "rewind")
    BY <2>1, <2>2, <2>3, <2>6, TaskGoto, RegistryPending DEF IInv, Verifying
  <2>7. CASE /\ UNCHANGED store
             /\ task' = [task EXCEPT ![r].role = "repair", ![r].pc = Verdict(task[r].val.kind)]
    <3> DEFINE k == [task[r] EXCEPT !.role = "repair", !.pc = Verdict(task[r].val.kind)]
    <3>1. Verdict(task[r].val.kind) \in {"approve", "reserve", "rewind"}
          /\ (Verdict(task[r].val.kind) = "approve" => task[r].val.kind = "green")
      BY DEF Verdict
    <3>2. k \in Task /\ k.pc = Verdict(task[r].val.kind) /\ k.val = task[r].val
          /\ k.of = task[r].of /\ k.snap = task[r].snap /\ task' = [task EXCEPT ![r] = k]
      BY <2>7, <3>1 DEF Task, Verifying
    <3> HIDE DEF k
    <3>3. Role(k)
      BY <2>2, <3>1, <3>2 DEF Role, Early, Finalizing
    <3>4. k.val.kind = "green" =>
             [gen |-> k.snap.gen, run |-> r, tgt |-> k.val.tgt] \in proof'
      BY <2>1, <3>2 DEF Carries
    <3>5. Tasks'
      BY <2>1, <3>2, <3>3, <3>4, TaskStep DEF IInv
    <3> QED BY <2>1, <2>7, <3>5, RegistrySame DEF IInv
  <2> QED BY <1>4, <2>4, <2>5, <2>6, <2>7 DEF Decide, EndRun
<1>5. CASE Approve(r)
  <2>1. Board' /\ proof' = proof /\ CompletionIsEarned' /\ gens' = gens
    BY <1>5 DEF Approve, board, IInv, Board, CompletionIsEarned
  <2>2. /\ task[r].pc = "approve" /\ task[r].of # Finalizer
        /\ task[r].val.tgt \in Targets /\ task[r].val.kind = "green"
    BY <1>5 DEF Approve, Role, Verifying
  <2>3. /\ Role([task[r] EXCEPT !.pc = "rewind"])
        /\ Role([task[r] EXCEPT !.pc = "enforce"])
    BY <2>2 DEF Role, Task, Early, Finalizing
  <2>4. CASE ApproveAllowed(r)
    <3>1. /\ gate' = [gate EXCEPT !.status = "approved", !.tgt = task[r].val.tgt,
                                  !.frun = NoRun, !.fresh = {}]
          /\ approvals' = [approvals EXCEPT ![gate.gen] = task[r].val.tgt]
      BY <1>5, <2>4 DEF Approve
    <3>2. gate' \in Gate /\ gate'.status = "approved" /\ gate'.gen = gate.gen
          /\ gate'.tgt = task[r].val.tgt /\ gate'.vrun = r
      BY <2>2, <2>4, <3>1 DEF Gate, Holders, Commits, ApproveAllowed
    <3>3. gate.gen \in Generations /\ gate.gen = gens
      BY <2>4 DEF ApproveAllowed, IInv, Registry, GateInv, Generations, Gate
    <3>4. approvals' \in [Generations -> Commits] /\ approvals'[gate.gen] = task[r].val.tgt
          /\ \A g \in Generations : g # gate.gen => approvals'[g] = approvals[g]
      BY <2>2, <3>1, <3>3 DEF IInv, Registry, Commits
    <3>5. ApprovalIsEarned'
      BY <2>1, <2>2, <2>4, <3>2 DEF ApprovalIsEarned, ApproveAllowed, SameRow, Carries
    <3>6. GateInv'
      <4>1. gens \in Nat /\ GateInv
        BY DEF IInv, Registry
      <4>2. \A g \in Generations : g > gens' => approvals'[g] = NoTarget
        BY <2>1, <3>3, <3>4, <4>1 DEF GateInv, Generations
      <4> QED BY <2>1, <2>2, <3>2, <3>3, <3>4, <4>1, <4>2 DEF GateInv, Generations
    <3>7. Registry'
      BY <2>1, <3>2, <3>4, <3>5, <3>6 DEF Registry, IInv
    <3>8. Stop(r) \/ Goto(r, "enforce")
      BY <1>5, <2>4 DEF Approve, Decided, EndRun
    <3>9. Tasks'
      BY <2>1, <2>3, <3>8, TaskStop, TaskGoto DEF IInv, Verifying
    <3> QED BY <2>1, <3>7, <3>9 DEF IInv
  <2>5. CASE ~ApproveAllowed(r)
    <3>1. Goto(r, "rewind") /\ UNCHANGED store
      BY <1>5, <2>5 DEF Approve, store
    <3> QED BY <2>1, <2>3, <3>1, TaskGoto, RegistrySame DEF IInv, Verifying
  <2> QED BY <2>4, <2>5
<1>6. CASE Reserve(r)
  <2>1. Board' /\ proof' = proof /\ CompletionIsEarned'
        /\ gate' = gate /\ gens' = gens /\ approvals' = approvals
    BY <1>6 DEF Reserve, board, IInv, Board, CompletionIsEarned
  <2>2. Role([task[r] EXCEPT !.pc = "create"])
    BY <1>6 DEF Reserve, Role, Task, Verifying, Early, Finalizing
  <2>3. Tasks'
    BY <1>6, <2>1, <2>2, TaskGoto DEF Reserve, IInv, Verifying
  <2> QED BY <2>1, <2>3, RegistryKept DEF IInv
<1>7. CASE CreateRepair(r)
  <2>1. Board' /\ UNCHANGED store /\ proof' = proof /\ CompletionIsEarned'
    BY <1>7 DEF CreateRepair, board, IInv, Board, CompletionIsEarned
  <2> DEFINE k == [task[r] EXCEPT !.pc = "reserve", !.role = "verifier"]
  <2>2. k \in Task /\ k.pc = "reserve" /\ k.val = task[r].val
        /\ k.of = task[r].of /\ k.snap = task[r].snap /\ task' = [task EXCEPT ![r] = k]
    BY <1>7 DEF CreateRepair, Task, Verifying
  <2> HIDE DEF k
  <2>3. Role(k)
    BY <1>7, <2>2 DEF CreateRepair, Role, Verifying, Early, Finalizing
  <2>4. k.val.kind = "green" =>
           [gen |-> k.snap.gen, run |-> r, tgt |-> k.val.tgt] \in proof'
    BY <2>1, <2>2 DEF Carries
  <2>5. Tasks'
    BY <2>1, <2>2, <2>3, <2>4, TaskStep DEF IInv
  <2> QED BY <2>1, <2>5, RegistrySame DEF IInv
<1>8. CASE CreateVerifier(r)
  <2>1. Board' /\ UNCHANGED store /\ proof' = proof /\ CompletionIsEarned'
    BY <1>8 DEF CreateVerifier, board, IInv, Board, CompletionIsEarned
  <2>2. Role([task[r] EXCEPT !.pc = "pend"])
    BY <1>8 DEF CreateVerifier, Role, Task, Verifying, Early, Finalizing
  <2>3. Tasks'
    BY <1>8, <2>1, <2>2, TaskGoto DEF CreateVerifier, IInv, Verifying
  <2> QED BY <2>1, <2>3, RegistrySame DEF IInv
<1>9. CASE Pend(r)
  <2>1. Board' /\ proof' = proof /\ CompletionIsEarned'
    BY <1>9 DEF Pend, board, IInv, Board, CompletionIsEarned
  <2>2. /\ task[r].of \in Verifiers /\ task[r].val.tgt \in Targets
        /\ Len(task[r].of) < MaxCycles
    BY <1>9 DEF Pend, Role, Verifying, Task
  <2>3. NextVerifier(r) \in Verifiers /\ Cycle(r) \in Fingerprints
    BY <2>2, FreshVerifier DEF NextVerifier, Cycle, Fingerprint, Fingerprints, Commits
  <2>4. Role([task[r] EXCEPT !.pc = "relink"]) /\ Role([task[r] EXCEPT !.pc = "rewind"])
    BY <1>9 DEF Pend, Role, Task, Verifying, Early, Finalizing
  <2>5. Tasks'
    BY <1>9, <2>1, <2>4, TaskGoto DEF Pend, IInv, Verifying
  <2>6. Registry'
    BY <1>9, <2>1, <2>2, <2>3, RegistryOpen, RegistrySame DEF Pend, IInv
  <2> QED BY <2>1, <2>5, <2>6 DEF IInv
<1>10. CASE Relink(r)
  <2>1. UNCHANGED store /\ proof' = proof /\ CompletionIsEarned'
    BY <1>10 DEF Relink, IInv, CompletionIsEarned
  <2>2. NextVerifier(r) \in Verifiers
    BY <1>10, FreshVerifier DEF Relink, NextVerifier, Role, Verifying, Task
  <2>3. Board'
    <3>1. fin \in Ticket
      BY DEF IInv, Board
    <3>2. (Touched(fin).deps \ Verifiers) \cup {NextVerifier(r)} \in SUBSET Verifiers
      <4>1. Touched(fin).deps \in SUBSET Verifiers
        BY <3>1, TicketEdits DEF Ticket
      <4> QED BY <2>2, <4>1
    <3>3. fin' = [Touched(fin) EXCEPT !.deps = (Touched(fin).deps \ Verifiers) \cup {NextVerifier(r)}]
      BY <1>10 DEF Relink
    <3> QED BY <1>10, <3>1, <3>2, <3>3, TicketEdits DEF Relink, IInv, Board
  <2>4. Role([task[r] EXCEPT !.pc = "prove"])
    BY <1>10 DEF Relink, Role, Task, Verifying, Early, Finalizing
  <2>5. Tasks'
    BY <1>10, <2>1, <2>4, TaskGoto DEF Relink, IInv, Verifying
  <2> QED BY <2>1, <2>3, <2>5, RegistrySame DEF IInv
<1>11. CASE Prove(r)
  <2>1. Board' /\ UNCHANGED store /\ proof' = proof /\ CompletionIsEarned'
    BY <1>11 DEF Prove, board, IInv, Board, CompletionIsEarned
  <2>2. Role([task[r] EXCEPT !.pc = "enforce"]) /\ Role([task[r] EXCEPT !.pc = "rewind"])
    BY <1>11 DEF Prove, Role, Task, Verifying, Early, Finalizing
  <2>3. Stop(r) \/ Goto(r, "enforce") \/ Goto(r, "rewind")
    BY <1>11 DEF Prove, Decided, EndRun
  <2>4. Tasks'
    BY <2>1, <2>2, <2>3, TaskStop, TaskGoto DEF IInv, Verifying
  <2> QED BY <2>1, <2>4, RegistrySame DEF IInv
<1>12. CASE Rewind(r)
  <2>1. Board' /\ UNCHANGED store /\ proof' = proof /\ CompletionIsEarned'
    BY <1>12 DEF Rewind, IInv, Board, CompletionIsEarned
  <2>2. Role([task[r] EXCEPT !.pc = "work"])
    BY <1>12 DEF Rewind, Role, Task, Verifying, Early, Finalizing
  <2>3. Stop(r) \/ Goto(r, "work")
    BY <1>12 DEF Rewind, EndRun
  <2>4. Tasks'
    BY <2>1, <2>2, <2>3, TaskStop, TaskGoto DEF IInv
  <2> QED BY <2>1, <2>4, RegistrySame DEF IInv
<1> QED BY <1>1, <1>2, <1>3, <1>4, <1>5, <1>6, <1>7, <1>8, <1>9, <1>10, <1>11, <1>12
        DEF VerifierStep

(* _reopen_stale_release_gate by the finalizer's own run: the task of a     *)
(* finalizer carries no validation, so the row it reads next is free.       *)
LEMMA InvalidateKeeps ==
    ASSUME IInv, NEW r \in Runs, Invalidate(r), task[r].pc \in Finalizing, proof' = proof
    PROVE  Registry' /\ Tasks'
<1>1. task[r].val = NoValidation
  BY TaskFacts DEF Role
<1>2. Refused(r) \in {"endF", "rewindF"}
  BY DEF Refused
<1>3. CASE MayReplace(r)
  <2>1. PersistPending(gate.vfy, ContractOf[target])
    BY <1>3 DEF Invalidate, ReopenStale
  <2>2. Registry' /\ gate' \in Gate
    BY <2>1, TaskFacts, RegistryPending DEF IInv, Registry
  <2> DEFINE k == [task[r] EXCEPT !.pc = "reopenV", !.snap = gate', !.then = Refused(r)]
  <2>3. task' = [task EXCEPT ![r] = k]
    BY <1>3 DEF Invalidate, ReopenStale
  <2>4. k \in Task /\ k.pc = "reopenV" /\ k.val = NoValidation
    BY <1>1, <1>2, <2>2, TaskFacts DEF Task, Early
  <2> HIDE DEF k
  <2>5. Role(k) /\ k.val.kind # "green"
    BY <2>4 DEF Role, Verifying, NoValidation
  <2>6. Tasks'
    BY <2>3, <2>4, <2>5, TaskStep DEF IInv
  <2> QED BY <2>2, <2>6
<1>4. CASE ~MayReplace(r)
  <2>1. Goto(r, Refused(r)) /\ UNCHANGED store
    BY <1>4 DEF Invalidate
  <2>2. Role([task[r] EXCEPT !.pc = Refused(r)])
    BY <1>1, <1>2, TaskFacts DEF Role, Task, Verifying
  <2>3. Tasks'
    BY <1>2, <2>1, <2>2, TaskGoto DEF IInv, Finalizing
  <2> QED BY <2>1, <2>3, RegistrySame DEF IInv
<1> QED BY <1>3, <1>4

(* The finalizer's run, from its guard to the completion. *)
LEMMA FinalizerIInv ==
    ASSUME IInv, NEW r \in Runs, FinalizerStep(r)
    PROVE  IInv'
<1> USE TaskFacts
<1>1. CASE Deliver(r)
  <2>1. Board' /\ UNCHANGED store /\ proof' = proof /\ CompletionIsEarned'
    <3>1. [Touched(fin) EXCEPT !.state = "success"] \in Ticket
      BY TicketEdits DEF IInv, Board
    <3> QED BY <1>1, <3>1 DEF Deliver, IInv, Board, CompletionIsEarned
  <2> DEFINE k == [task[r] EXCEPT !.pc = "guard", !.then = "mark"]
  <2>2. k \in Task /\ k.pc = "guard" /\ k.val = NoValidation /\ task' = [task EXCEPT ![r] = k]
    BY <1>1 DEF Deliver, Task, Finalizing, Role
  <2> HIDE DEF k
  <2>3. Role(k) /\ k.val.kind # "green"
    BY <2>2 DEF Role, Verifying, NoValidation
  <2>4. Tasks'
    BY <2>1, <2>2, <2>3, TaskStep DEF IInv
  <2> QED BY <2>1, <2>4, RegistrySame DEF IInv
<1>2. CASE Guard(r)
  <2>1. Board' /\ proof' = proof /\ CompletionIsEarned'
    BY <1>2 DEF Guard, board, IInv, Board, CompletionIsEarned
  <2>2. task[r].pc \in Finalizing /\ task[r].val = NoValidation
    BY <1>2 DEF Guard, Role, Finalizing
  <2>3. CASE Goto(r, Refused(r)) /\ UNCHANGED store
    <3>1. Refused(r) \in Finalizing
      BY DEF Refused, Finalizing
    <3>2. Role([task[r] EXCEPT !.pc = Refused(r)])
      BY <2>2, <3>1 DEF Role, Task, Finalizing, Verifying
    <3>3. Tasks'
      BY <2>1, <2>3, <3>1, <3>2, TaskGoto DEF IInv
    <3> QED BY <2>1, <2>3, <3>3, RegistrySame DEF IInv
  <2>4. CASE Invalidate(r)
    BY <2>1, <2>2, <2>4, InvalidateKeeps DEF IInv
  <2>5. CASE UNCHANGED store /\ task' = [task EXCEPT ![r].pc = task[r].then, ![r].tok = fin.ver,
                                                     ![r].snap = gate]
    <3> DEFINE k == [task[r] EXCEPT !.pc = task[r].then, !.tok = fin.ver, !.snap = gate]
    <3>1. fin.ver \in Nat
      BY DEF IInv, Board, Ticket
    <3>2. task[r].then \in {"off", "acquire", "work", "mark", "endF", "rewindF"}
      BY DEF Task
    <3>3. k \in Task /\ k.pc = task[r].then /\ k.val = NoValidation
          /\ task' = [task EXCEPT ![r] = k]
      BY <2>2, <2>5, <3>1, <3>2 DEF Task, Early, Finalizing
    <3> HIDE DEF k
    <3>4. Role(k) /\ k.val.kind # "green"
      BY <3>2, <3>3 DEF Role, Verifying, NoValidation
    <3>5. Tasks'
      BY <2>1, <3>3, <3>4, TaskStep DEF IInv
    <3> QED BY <2>1, <2>5, <3>5, RegistrySame DEF IInv
  <2> QED BY <1>2, <2>3, <2>4, <2>5 DEF Guard
<1>3. CASE Mark(r)
  <2>1. Board' /\ proof' = proof
    BY <1>3 DEF Mark, board, IInv, Board
  <2>2. task[r].pc \in Finalizing /\ task[r].val = NoValidation
    BY <1>3 DEF Mark, Role, Finalizing
  <2>3. CASE Invalidate(r) /\ UNCHANGED marks
    <3>1. CompletionIsEarned'
      BY <2>1, <2>3 DEF IInv, CompletionIsEarned
    <3> QED BY <2>1, <2>2, <2>3, <3>1, InvalidateKeeps DEF IInv
  <2>4. CASE /\ MarkAllowed(r)
             /\ gate' = [gate EXCEPT !.done = task[r].tok]
             /\ task' = [task EXCEPT ![r].pc = "confirm", ![r].snap = gate']
             /\ marks' = marks \cup {[gen |-> gate.gen, tgt |-> gate.tgt]}
             /\ UNCHANGED <<gens, evid, items, approvals>>
    <3>1. gate' \in Gate /\ gate'.status = gate.status /\ gate'.gen = gate.gen
          /\ gate'.tgt = gate.tgt /\ gate'.vrun = gate.vrun
      BY <2>4 DEF Gate, Task
    <3>2. Registry'
      BY <2>1, <2>4, <3>1, RegistryKept DEF IInv
    <3>3. CompletionIsEarned'
      <4>1. [gen |-> gate.gen, run |-> gate.vrun, tgt |-> gate.tgt] \in proof
        BY <2>4 DEF MarkAllowed, IInv, Registry, ApprovalIsEarned
      <4>2. \E q \in proof : q.gen = gate.gen /\ q.tgt = gate.tgt
        BY <4>1
      <4> QED BY <2>1, <2>4, <4>2 DEF IInv, CompletionIsEarned
    <3> DEFINE k == [task[r] EXCEPT !.pc = "confirm", !.snap = gate']
    <3>4. k \in Task /\ k.pc = "confirm" /\ k.val = NoValidation /\ task' = [task EXCEPT ![r] = k]
      BY <2>2, <2>4, <3>1 DEF Task, Finalizing
    <3> HIDE DEF k
    <3>5. Role(k) /\ k.val.kind # "green"
      BY <3>4 DEF Role, Verifying, NoValidation
    <3>6. Tasks'
      BY <2>1, <3>4, <3>5, TaskStep DEF IInv
    <3> QED BY <2>1, <3>2, <3>3, <3>6 DEF IInv
  <2>5. CASE Goto(r, "rewindF") /\ UNCHANGED <<store, marks>>
    <3>1. CompletionIsEarned'
      BY <2>1, <2>5 DEF IInv, CompletionIsEarned
    <3>2. Role([task[r] EXCEPT !.pc = "rewindF"])
      BY <2>2 DEF Role, Task, Verifying
    <3>3. Tasks'
      BY <2>1, <2>5, <3>2, TaskGoto DEF IInv, Finalizing
    <3> QED BY <2>1, <2>5, <3>1, <3>3, RegistrySame DEF IInv
  <2> QED BY <1>3, <2>3, <2>4, <2>5 DEF Mark
<1>4. CASE Confirm(r)
  <2>1. Board' /\ proof' = proof /\ CompletionIsEarned'
    BY <1>4 DEF Confirm, board, IInv, Board, CompletionIsEarned
  <2>2. task[r].pc \in Finalizing
    BY <1>4 DEF Confirm, Finalizing
  <2>3. CASE Invalidate(r)
    BY <2>1, <2>2, <2>3, InvalidateKeeps DEF IInv
  <2>4. CASE Stop(r) /\ UNCHANGED store
    BY <2>1, <2>4, TaskStop, RegistrySame DEF IInv
  <2> QED BY <1>4, <2>3, <2>4 DEF Confirm, EndRun
<1>5. CASE FinalizerRewind(r)
  <2>1. Board' /\ UNCHANGED store /\ proof' = proof /\ CompletionIsEarned'
    <3>1. [Touched(fin) EXCEPT !.state = "active"] \in Ticket
      BY TicketEdits DEF IInv, Board
    <3> QED BY <1>5, <3>1 DEF FinalizerRewind, RewindFinalizer, IInv, Board, CompletionIsEarned
  <2>2. Stop(r)
    BY <1>5 DEF FinalizerRewind, EndRun
  <2> QED BY <2>1, <2>2, TaskStop, RegistrySame DEF IInv
<1> QED BY <1>1, <1>2, <1>3, <1>4, <1>5 DEF FinalizerStep

(* Lapses, crashes, the startup guards, people and other merges. *)
LEMMA OtherIInv ==
    ASSUME IInv,
           \/ \E r \in Runs : Lapse(r) \/ Crash(r)
           \/ \E v \in Verifiers : StartupVerifier(v) \/ ReopenByHand(v)
           \/ StartupFinalizer \/ MoveTarget \/ EditFinalizer
    PROVE  IInv'
<1>1. /\ gate.vfy \in Verifiers /\ ContractOf[target] \in Contracts
  BY DEF IInv, Registry, Board, Gate, Contracts
<1>2. ASSUME NEW r \in Runs, Lapse(r)
      PROVE  IInv'
  <2>1. Board' /\ UNCHANGED store /\ proof' = proof /\ CompletionIsEarned' /\ task' = task
    BY <1>2 DEF Lapse, board, IInv, Board, CompletionIsEarned
  <2> QED BY <2>1, TaskKept, RegistrySame DEF IInv
<1>3. ASSUME NEW r \in Runs, Crash(r)
      PROVE  IInv'
  <2>1. Board' /\ UNCHANGED store /\ proof' = proof /\ CompletionIsEarned' /\ Stop(r)
    BY <1>3 DEF Crash, board, IInv, Board, CompletionIsEarned
  <2> QED BY <2>1, TaskStop, RegistrySame DEF IInv
<1>4. ASSUME NEW v \in Verifiers, StartupVerifier(v) \/ ReopenByHand(v)
      PROVE  IInv'
  <2>1. Board' /\ UNCHANGED store /\ proof' = proof /\ CompletionIsEarned' /\ task' = task
    BY <1>4 DEF StartupVerifier, ReopenByHand, IInv, Board, CompletionIsEarned
  <2> QED BY <2>1, TaskKept, RegistrySame DEF IInv
<1>5. CASE StartupFinalizer
  <2>1. Board' /\ proof' = proof /\ CompletionIsEarned' /\ task' = task
    <3>1. [Touched(fin) EXCEPT !.state = "active"] \in Ticket
      BY TicketEdits DEF IInv, Board
    <3> QED BY <1>5, <3>1 DEF StartupFinalizer, RewindFinalizer, IInv, Board, CompletionIsEarned
  <2>2. UNCHANGED store \/ PersistPending(gate.vfy, ContractOf[target])
    BY <1>5 DEF StartupFinalizer
  <2>3. Registry'
    BY <1>1, <2>1, <2>2, RegistryPending, RegistrySame DEF IInv
  <2> QED BY <2>1, <2>3, TaskKept DEF IInv
<1>6. CASE MoveTarget \/ EditFinalizer
  <2>1. Board' /\ UNCHANGED store /\ proof' = proof /\ CompletionIsEarned' /\ task' = task
    <3>1. Touched(fin) \in Ticket
      BY TicketEdits DEF IInv, Board
    <3> QED BY <1>6, <3>1 DEF MoveTarget, EditFinalizer, board, IInv, Board, CompletionIsEarned
  <2> QED BY <2>1, TaskKept, RegistrySame DEF IInv
<1> QED BY <1>2, <1>3, <1>4, <1>5, <1>6

LEMMA NextIInv == IInv /\ [Next]_vars => IInv'
<1> SUFFICES ASSUME IInv, [Next]_vars PROVE IInv'
  OBVIOUS
<1>1. CASE UNCHANGED vars
  <2>1. Board' /\ UNCHANGED store /\ proof' = proof /\ CompletionIsEarned' /\ task' = task
    BY <1>1 DEF vars, store, IInv, Board, CompletionIsEarned
  <2> QED BY <2>1, TaskKept, RegistrySame DEF IInv
<1>2. CASE Next
  BY <1>2, DispatchIInv, VerifierIInv, FinalizerIInv, OtherIInv DEF Next
<1> QED BY <1>1, <1>2

(* The evidence behind the registry's rows, in every reachable state. *)
THEOREM EvidenceIsKept == Spec => []IInv
BY InitIInv, NextIInv, PTL DEF Spec

(* approve_release_gate grants no approval that the bound run of this very  *)
(* generation did not earn with green evidence of the approved commit,      *)
(* whatever lapses, restarts, target moves and edits intervene.             *)
THEOREM ApprovalsAreEarned == Spec => []ApprovalIsEarned
<1>1. IInv => ApprovalIsEarned
  BY DEF IInv, Registry
<1> QED BY <1>1, EvidenceIsKept, PTL

(* mark_release_finalizer_completed records no completion of a cycle and a  *)
(* commit that were not verified green.                                     *)
THEOREM CompletionsAreEarned == Spec => []CompletionIsEarned
<1>1. IInv => CompletionIsEarned
  BY DEF IInv
<1> QED BY <1>1, EvidenceIsKept, PTL

-----------------------------------------------------------------------------
(* The refinement of ReleaseCycle, step by step *)

(* A step that keeps the cycle, the approvals and the completions is a      *)
(* stutter of the promise.                                                  *)
LEMMA CycleKept ==
    ASSUME gate'.gen = gate.gen, approvals' = approvals, marks' = marks
    PROVE  UNCHANGED Promise!vars
  BY DEF Promise!vars

LEMMA CycleSame ==
    ASSUME UNCHANGED store, marks' = marks
    PROVE  UNCHANGED Promise!vars
  BY CycleKept DEF store

(* replace_pending_release_gate opens a cycle of the promise. *)
LEMMA CycleOpens ==
    ASSUME IInv, NEW v \in Verifiers, NEW c \in Contracts, NEW fp \in Fingerprints,
           ReplacePending(v, c, fp), proof' = proof, marks' = marks
    PROVE  Promise!Open
<1>1. gate'.gen = gens + 1 /\ approvals' = approvals /\ gens < MaxGen
  BY RegistryOpen DEF IInv, ReplacePending
<1>2. gate.gen = gens /\ gens \in Nat
  BY DEF IInv, Registry, GateInv
<1>3. gate'.gen \in Generations /\ gate'.gen > gate.gen
  BY <1>1, <1>2, ReleaseAssumption DEF Generations
<1> QED BY <1>1, <1>3 DEF Promise!Open

LEMMA CyclePends ==
    ASSUME IInv, NEW v \in Verifiers, NEW c \in Contracts,
           PersistPending(v, c), proof' = proof, marks' = marks
    PROVE  Promise!Open
<1>1. Fingerprint(v, NoTarget) \in Fingerprints
  BY DEF Fingerprint, Fingerprints, Commits
<1> QED BY <1>1, CycleOpens DEF PersistPending

LEMMA DispatchRefines ==
    ASSUME IInv, NEW r \in Runs, DispatchStep(r)
    PROVE  [Promise!Next]_(Promise!vars)
<1> USE TaskFacts DEF Promise!Next
<1>1. ASSUME NEW v \in Verifiers, PrepareVerifier(r, v)
      PROVE  Promise!Open \/ UNCHANGED Promise!vars
  <2>1. proof' = proof /\ marks' = marks
    BY <1>1 DEF PrepareVerifier
  <2>2. \/ UNCHANGED store
        \/ PersistPending(v, ContractOf[target]) \/ PersistPending(v, gate.contract)
    BY <1>1 DEF PrepareVerifier, InitialGate
  <2> QED BY <2>1, <2>2, CyclePends, CycleSame
<1>2. CASE PrepareFinalizer(r)
  <2>1. proof' = proof /\ marks' = marks
    BY <1>2 DEF PrepareFinalizer
  <2>2. UNCHANGED store \/ PersistPending(gate.vfy, ContractOf[target])
    BY <1>2 DEF PrepareFinalizer
  <2> QED BY <2>1, <2>2, CyclePends, CycleSame
<1>3. CASE ReopenVerifier(r) \/ ReopenFinalizer(r)
  BY <1>3, CycleSame DEF ReopenVerifier, ReopenFinalizer
<1>4. CASE Acquire(r) \/ Bind(r)
  <2>1. gate'.gen = gate.gen
    BY <1>4 DEF Acquire, Bind, Gate
  <2> QED BY <1>4, <2>1, CycleKept DEF Acquire, Bind
<1> QED BY <1>1, <1>2, <1>3, <1>4 DEF DispatchStep

LEMMA VerifierRefines ==
    ASSUME IInv, NEW r \in Runs, VerifierStep(r)
    PROVE  [Promise!Next]_(Promise!vars)
<1> USE TaskFacts DEF Promise!Next
<1>1. CASE \/ Verify(r) \/ Enforce(r) \/ Validate(r) \/ CreateRepair(r)
           \/ CreateVerifier(r) \/ Relink(r) \/ Prove(r) \/ Rewind(r)
  BY <1>1, CycleSame DEF Verify, Enforce, Validate, CreateRepair, CreateVerifier, Relink,
                         Prove, Rewind
<1>2. CASE Reserve(r)
  BY <1>2, CycleKept DEF Reserve
<1>3. CASE Decide(r)
  <2>1. proof' = proof /\ marks' = marks
    BY <1>3 DEF Decide
  <2>2. task[r].of \in Verifiers /\ ContractOf[task[r].val.tgt] \in Contracts
    BY <1>3 DEF Decide, Role, Verifying, Task
  <2>3. UNCHANGED store \/ PersistPending(task[r].of, ContractOf[task[r].val.tgt])
    BY <1>3 DEF Decide
  <2> QED BY <2>1, <2>2, <2>3, CyclePends, CycleSame
<1>4. CASE Pend(r)
  <2>1. proof' = proof /\ marks' = marks
    BY <1>4 DEF Pend
  <2>2. /\ task[r].of \in Verifiers /\ task[r].val.tgt \in Targets
        /\ Len(task[r].of) < MaxCycles
    BY <1>4 DEF Pend, Role, Verifying, Task
  <2>3. NextVerifier(r) \in Verifiers /\ Cycle(r) \in Fingerprints
    BY <2>2, FreshVerifier DEF NextVerifier, Cycle, Fingerprint, Fingerprints, Commits
  <2>4. \/ UNCHANGED store
        \/ ReplacePending(NextVerifier(r), ContractOf[task[r].val.tgt], Cycle(r))
    BY <1>4 DEF Pend
  <2> QED BY <2>1, <2>2, <2>3, <2>4, CycleOpens, CycleSame
<1>5. CASE Approve(r)
  <2>1. marks' = marks
    BY <1>5 DEF Approve
  <2>2. CASE ~ApproveAllowed(r)
    <3>1. gate' = gate /\ approvals' = approvals
      BY <1>5, <2>2 DEF Approve
    <3> QED BY <2>1, <3>1, CycleKept
  <2>3. CASE ApproveAllowed(r)
    <3>1. gate'.gen = gate.gen
      BY <1>5, <2>3 DEF Approve, Gate
    <3>2. gate.gen \in Generations /\ approvals[gate.gen] = NoTarget
      BY <2>3 DEF ApproveAllowed, IInv, Registry, GateInv, Generations, Gate
    <3>3. task[r].val.tgt \in Targets
          /\ approvals' = [approvals EXCEPT ![gate.gen] = task[r].val.tgt]
      BY <1>5, <2>3 DEF Approve, Role, Verifying
    <3>4. Promise!Approve
      BY <2>1, <3>1, <3>2, <3>3 DEF Promise!Approve
    <3> QED BY <3>4
  <2> QED BY <2>2, <2>3
<1> QED BY <1>1, <1>2, <1>3, <1>4, <1>5 DEF VerifierStep

LEMMA FinalizerRefines ==
    ASSUME IInv, NEW r \in Runs, FinalizerStep(r)
    PROVE  [Promise!Next]_(Promise!vars)
<1> USE TaskFacts DEF Promise!Next
<1>1. ASSUME Invalidate(r), proof' = proof, marks' = marks
      PROVE  Promise!Open \/ UNCHANGED Promise!vars
  <2>1. UNCHANGED store \/ PersistPending(gate.vfy, ContractOf[target])
    BY <1>1 DEF Invalidate, ReopenStale
  <2> QED BY <1>1, <2>1, CyclePends, CycleSame
<1>2. CASE Deliver(r) \/ FinalizerRewind(r)
  BY <1>2, CycleSame DEF Deliver, FinalizerRewind
<1>3. CASE Guard(r) \/ Confirm(r)
  <2>1. proof' = proof /\ marks' = marks /\ (Invalidate(r) \/ UNCHANGED store)
    BY <1>3 DEF Guard, Confirm
  <2> QED BY <1>1, <2>1, CycleSame
<1>4. CASE Mark(r)
  <2>1. proof' = proof
    BY <1>4 DEF Mark
  <2>2. CASE marks' = marks /\ (Invalidate(r) \/ UNCHANGED store)
    BY <1>1, <2>1, <2>2, CycleSame
  <2>3. CASE /\ MarkAllowed(r)
             /\ gate' = [gate EXCEPT !.done = task[r].tok]
             /\ marks' = marks \cup {[gen |-> gate.gen, tgt |-> gate.tgt]}
             /\ approvals' = approvals
    <3>1. gate'.gen = gate.gen
      BY <2>3 DEF Gate
    <3>2. gate.gen \in Generations /\ approvals[gate.gen] \in Targets
      BY <2>3 DEF MarkAllowed, IInv, Registry, GateInv, Generations, Gate
    <3>3. {m.gen : m \in marks'} = {m.gen : m \in marks} \cup {gate.gen}
      <4> DEFINE new == [gen |-> gate.gen, tgt |-> gate.tgt]
      <4>1. new.gen = gate.gen /\ marks' = marks \cup {new}
        BY <2>3
      <4> HIDE DEF new
      <4> QED BY <4>1
    <3>4. CASE gate.gen \in {m.gen : m \in marks}
      <4>1. {m.gen : m \in marks'} = {m.gen : m \in marks}
        BY <3>3, <3>4
      <4> QED BY <2>3, <3>1, <4>1 DEF Promise!vars
    <3>5. CASE gate.gen \notin {m.gen : m \in marks}
      <4>1. Promise!Complete
        BY <2>3, <3>1, <3>2, <3>3, <3>5, ReleaseAssumption DEF Promise!Complete
      <4> QED BY <4>1
    <3> QED BY <3>4, <3>5
  <2> QED BY <1>4, <2>2, <2>3 DEF Mark
<1> QED BY <1>2, <1>3, <1>4 DEF FinalizerStep

LEMMA OtherRefines ==
    ASSUME IInv,
           \/ \E r \in Runs : Lapse(r) \/ Crash(r)
           \/ \E v \in Verifiers : StartupVerifier(v) \/ ReopenByHand(v)
           \/ StartupFinalizer \/ MoveTarget \/ EditFinalizer
    PROVE  [Promise!Next]_(Promise!vars)
<1>1. /\ gate.vfy \in Verifiers /\ ContractOf[target] \in Contracts
  BY DEF IInv, Registry, Board, Gate, Contracts
<1>2. CASE StartupFinalizer
  <2>1. proof' = proof /\ marks' = marks
    BY <1>2 DEF StartupFinalizer
  <2>2. UNCHANGED store \/ PersistPending(gate.vfy, ContractOf[target])
    BY <1>2 DEF StartupFinalizer
  <2> QED BY <1>1, <2>1, <2>2, CyclePends, CycleSame DEF Promise!Next
<1>3. CASE ~StartupFinalizer
  <2>1. UNCHANGED store /\ marks' = marks
    BY <1>3 DEF Lapse, Crash, StartupVerifier, ReopenByHand, MoveTarget, EditFinalizer
  <2> QED BY <2>1, CycleSame
<1> QED BY <1>2, <1>3

(* Whatever races, lapses and crashes, one release is seen from the outside *)
(* as ReleaseCycle: fresh generations, each approved at most once for one   *)
(* commit, completed at most once and only after its approval, and left     *)
(* alone once a newer one is open.                                          *)
THEOREM ReleaseImplementsCycle == Spec => ImplementsCycle
<1>1. Init => Promise!Init
  BY DEF Init, Promise!Init, NoGate
<1>2. IInv /\ [Next]_vars => [Promise!Next]_(Promise!vars)
  <2> SUFFICES ASSUME IInv, [Next]_vars
               PROVE  [Promise!Next]_(Promise!vars)
    OBVIOUS
  <2>1. CASE UNCHANGED vars
    <3>1. UNCHANGED store /\ marks' = marks
      BY <2>1 DEF vars, store
    <3> QED BY <3>1, CycleSame
  <2>2. CASE Next
    BY <2>2, DispatchRefines, VerifierRefines, FinalizerRefines, OtherRefines DEF Next
  <2> QED BY <2>1, <2>2
<1> QED BY <1>1, <1>2, EvidenceIsKept, PTL DEF Spec, ImplementsCycle, Promise!Spec

-----------------------------------------------------------------------------
(* Improvement heartbeats.                                                 *)
\* Points before a run has found anything, and points of a run.
Unfound == {"idle", "lease", "write", "retry", "load", "baseline", "prove", "checks"}
Beating == {"load", "baseline", "prove", "checks", "register", "cleanup", "cutclean", "triage",
            "agent", "file", "end", "cutend"}

\* A worktree is in use, will be removed on the way out, or is orphaned.
TreesSound ==
  \A o \in Orchs :
    o \in wt /\ pc[o] \notin {"prove", "checks", "register", "cleanup", "cutclean"} => o \in orphaned

\* A run was scheduled below the cap, and a reset does not raise its count.
TurnsSound ==
  \A o \in Orchs : /\ turns[o] <= MaxHeartbeats
                   /\ pc[o] # "idle" => turns[o] < MaxHeartbeats

\* Those that hold a lease are the runs under way; as long as there is one at
\* a time, what it is about to report is not on the board.
ReportsSound ==
  /\ holding = {o \in Orchs : pc[o] \in Beating}
  /\ \A o \in Orchs : pc[o] \in Unfound => found[o] = {}
  /\ ~shared => /\ ~twice
                /\ \A o, q \in holding : o = q
                /\ \A o \in Orchs :
                     pc[o] = "register" /\ "check" \in found[o] => onBoard["check"] # "active"

HeartbeatInv ==
  /\ pc \in [Orchs -> Unfound \cup Beating] /\ turns \in [Orchs -> Nat]
  /\ found \in [Orchs -> SUBSET Keys] /\ DOMAIN onBoard = Keys
  /\ shared \in BOOLEAN /\ twice \in BOOLEAN
  /\ TreesSound /\ TurnsSound /\ ReportsSound

-----------------------------------------------------------------------------
LEMMA HeartbeatStarts == InitImprovement => HeartbeatInv
<1> SUFFICES ASSUME InitImprovement PROVE HeartbeatInv
  OBVIOUS
<1> USE ImprovementAssumption DEF InitImprovement, Unfound, Beating
<1>1. TreesSound /\ TurnsSound
  BY DEF TreesSound, TurnsSound
<1>2. ReportsSound
  BY DEF ReportsSound
<1> QED BY <1>1, <1>2 DEF HeartbeatInv, Keys

LEMMA HeartbeatStepKeeps ==
  ASSUME HeartbeatInv, NEW o \in Orchs, HeartbeatStep(o)
  PROVE  HeartbeatInv'
<1> USE ImprovementAssumption DEF HeartbeatInv, Proceed, Trees, FileLease, FiledVars, Budgets,
        Unfound, Beating, Keys
<1>1. CASE Schedule(o)
  <2>1. /\ pc' \in [Orchs -> Unfound \cup Beating] /\ turns' \in [Orchs -> Nat]
        /\ found' \in [Orchs -> SUBSET Keys] /\ DOMAIN onBoard' = Keys
        /\ shared' \in BOOLEAN /\ twice' \in BOOLEAN
    BY <1>1 DEF Schedule, MaySchedule
  <2>2. TreesSound'
    BY <1>1 DEF TreesSound, Schedule, MaySchedule
  <2>3. TurnsSound'
    BY <1>1 DEF TurnsSound, Schedule, MaySchedule
  <2>4. ReportsSound'
    BY <1>1 DEF ReportsSound, Schedule, MaySchedule
  <2> QED BY <2>1, <2>2, <2>3, <2>4
<1>2. CASE ResetTurns(o)
  <2>1. /\ pc' \in [Orchs -> Unfound \cup Beating] /\ turns' \in [Orchs -> Nat]
        /\ found' \in [Orchs -> SUBSET Keys] /\ DOMAIN onBoard' = Keys
        /\ shared' \in BOOLEAN /\ twice' \in BOOLEAN
    BY <1>2 DEF ResetTurns, Incident
  <2>2. TreesSound'
    BY <1>2 DEF TreesSound, ResetTurns, Incident
  <2>3. TurnsSound'
    BY <1>2 DEF TurnsSound, ResetTurns, Incident
  <2>4. ReportsSound'
    BY <1>2 DEF ReportsSound, ResetTurns, Incident
  <2> QED BY <2>1, <2>2, <2>3, <2>4
<1>3. CASE TakeLease(o)
  <2>1. /\ pc' \in [Orchs -> Unfound \cup Beating] /\ turns' \in [Orchs -> Nat]
        /\ found' \in [Orchs -> SUBSET Keys] /\ DOMAIN onBoard' = Keys
        /\ shared' \in BOOLEAN /\ twice' \in BOOLEAN
    BY <1>3 DEF TakeLease
  <2>2. TreesSound'
    BY <1>3 DEF TreesSound, TakeLease
  <2>3. TurnsSound'
    BY <1>3 DEF TurnsSound, TakeLease
  <2>4. ReportsSound'
    BY <1>3 DEF ReportsSound, TakeLease
  <2> QED BY <2>1, <2>2, <2>3, <2>4
<1>4. CASE WriteLease(o)
  <2>1. /\ pc' = [pc EXCEPT ![o] = "load"] /\ pc[o] = "write" /\ UNCHANGED <<found, turns, onBoard, twice, wt, orphaned>>
        /\ holding' = holding \cup {o} /\ shared' = (shared \/ holding # {})
    BY <1>4 DEF WriteLease
  <2>2. /\ pc' \in [Orchs -> Unfound \cup Beating] /\ turns' \in [Orchs -> Nat]
        /\ found' \in [Orchs -> SUBSET Keys] /\ DOMAIN onBoard' = Keys
        /\ shared' \in BOOLEAN /\ twice' \in BOOLEAN
    BY <2>1
  <2>3. TreesSound' /\ TurnsSound'
    BY <2>1 DEF TreesSound, TurnsSound
  <2>4. holding' = {q \in Orchs : pc'[q] \in Beating}
    BY <2>1 DEF ReportsSound
  <2>5. \A q \in Orchs : pc'[q] \in Unfound => found'[q] = {}
    BY <2>1 DEF ReportsSound
  <2>6. ASSUME ~shared'
        PROVE  /\ ~twice' /\ \A p, q \in holding' : p = q
               /\ \A q \in Orchs : pc'[q] # "register"
    <3>1. ~shared /\ holding = {}
      BY <2>1, <2>6
    <3> QED BY <2>1, <3>1 DEF ReportsSound
  <2>7. ReportsSound'
    BY <2>4, <2>5, <2>6 DEF ReportsSound
  <2> QED BY <2>2, <2>3, <2>7
<1>5. CASE StealLease(o)
  <2>1. /\ pc' \in [Orchs -> Unfound \cup Beating] /\ turns' \in [Orchs -> Nat]
        /\ found' \in [Orchs -> SUBSET Keys] /\ DOMAIN onBoard' = Keys
        /\ shared' \in BOOLEAN /\ twice' \in BOOLEAN
    BY <1>5 DEF StealLease, Abandoned
  <2>2. TreesSound'
    BY <1>5 DEF TreesSound, StealLease, Abandoned
  <2>3. TurnsSound'
    BY <1>5 DEF TurnsSound, StealLease, Abandoned
  <2>4. ReportsSound'
    BY <1>5 DEF ReportsSound, StealLease, Abandoned
  <2> QED BY <2>1, <2>2, <2>3, <2>4
<1>6. CASE Postpone(o)
  <2>1. /\ pc' \in [Orchs -> Unfound \cup Beating] /\ turns' \in [Orchs -> Nat]
        /\ found' \in [Orchs -> SUBSET Keys] /\ DOMAIN onBoard' = Keys
        /\ shared' \in BOOLEAN /\ twice' \in BOOLEAN
    BY <1>6 DEF Postpone, LeaseHeld, Abandoned
  <2>2. TreesSound'
    BY <1>6 DEF TreesSound, Postpone, LeaseHeld, Abandoned
  <2>3. TurnsSound'
    BY <1>6 DEF TurnsSound, Postpone, LeaseHeld, Abandoned
  <2>4. ReportsSound'
    BY <1>6 DEF ReportsSound, Postpone, LeaseHeld, Abandoned
  <2> QED BY <2>1, <2>2, <2>3, <2>4
<1>7. CASE LoadState(o)
  <2>1. /\ pc' \in [Orchs -> Unfound \cup Beating] /\ turns' \in [Orchs -> Nat]
        /\ found' \in [Orchs -> SUBSET Keys] /\ DOMAIN onBoard' = Keys
        /\ shared' \in BOOLEAN /\ twice' \in BOOLEAN
    BY <1>7 DEF LoadState
  <2>2. TreesSound'
    BY <1>7 DEF TreesSound, LoadState
  <2>3. TurnsSound'
    BY <1>7 DEF TurnsSound, LoadState
  <2>4. ReportsSound'
    BY <1>7 DEF ReportsSound, LoadState
  <2> QED BY <2>1, <2>2, <2>3, <2>4
<1>8. CASE PrepareBaseline(o)
  <2>1. /\ pc' \in [Orchs -> Unfound \cup Beating] /\ turns' \in [Orchs -> Nat]
        /\ found' \in [Orchs -> SUBSET Keys] /\ DOMAIN onBoard' = Keys
        /\ shared' \in BOOLEAN /\ twice' \in BOOLEAN
    BY <1>8 DEF PrepareBaseline
  <2>2. TreesSound'
    BY <1>8 DEF TreesSound, PrepareBaseline
  <2>3. TurnsSound'
    BY <1>8 DEF TurnsSound, PrepareBaseline
  <2>4. ReportsSound'
    BY <1>8 DEF ReportsSound, PrepareBaseline
  <2> QED BY <2>1, <2>2, <2>3, <2>4
<1>9. CASE ProveBaseline(o)
  <2>1. /\ pc' \in [Orchs -> Unfound \cup Beating] /\ turns' \in [Orchs -> Nat]
        /\ found' \in [Orchs -> SUBSET Keys] /\ DOMAIN onBoard' = Keys
        /\ shared' \in BOOLEAN /\ twice' \in BOOLEAN
    BY <1>9 DEF ProveBaseline
  <2>2. TreesSound'
    BY <1>9 DEF TreesSound, ProveBaseline
  <2>3. TurnsSound'
    BY <1>9 DEF TurnsSound, ProveBaseline
  <2>4. ReportsSound'
    BY <1>9 DEF ReportsSound, ProveBaseline
  <2> QED BY <2>1, <2>2, <2>3, <2>4
<1>10. CASE RunChecks(o)
  <2>1. /\ pc' \in [Orchs -> Unfound \cup Beating] /\ turns' \in [Orchs -> Nat]
        /\ found' \in [Orchs -> SUBSET Keys] /\ DOMAIN onBoard' = Keys
        /\ shared' \in BOOLEAN /\ twice' \in BOOLEAN
    BY <1>10 DEF RunChecks
  <2>2. TreesSound'
    BY <1>10 DEF TreesSound, RunChecks
  <2>3. TurnsSound'
    BY <1>10 DEF TurnsSound, RunChecks
  <2>4. ReportsSound'
    BY <1>10 DEF ReportsSound, RunChecks
  <2> QED BY <2>1, <2>2, <2>3, <2>4
<1>11. CASE RegisterFindings(o)
  <2>1. /\ pc' \in [Orchs -> Unfound \cup Beating] /\ turns' \in [Orchs -> Nat]
        /\ found' \in [Orchs -> SUBSET Keys] /\ DOMAIN onBoard' = Keys
        /\ shared' \in BOOLEAN /\ twice' \in BOOLEAN
    BY <1>11 DEF RegisterFindings, Filed
  <2>2. TreesSound'
    BY <1>11 DEF TreesSound, RegisterFindings, Filed
  <2>3. TurnsSound'
    BY <1>11 DEF TurnsSound, RegisterFindings, Filed
  <2>4. ReportsSound'
    BY <1>11 DEF ReportsSound, RegisterFindings, Filed
  <2> QED BY <2>1, <2>2, <2>3, <2>4
<1>12. CASE CleanupBaseline(o)
  <2>1. /\ pc' \in [Orchs -> Unfound \cup Beating] /\ turns' \in [Orchs -> Nat]
        /\ found' \in [Orchs -> SUBSET Keys] /\ DOMAIN onBoard' = Keys
        /\ shared' \in BOOLEAN /\ twice' \in BOOLEAN
    BY <1>12 DEF CleanupBaseline
  <2>2. TreesSound'
    BY <1>12 DEF TreesSound, CleanupBaseline
  <2>3. TurnsSound'
    BY <1>12 DEF TurnsSound, CleanupBaseline
  <2>4. ReportsSound'
    BY <1>12 DEF ReportsSound, CleanupBaseline
  <2> QED BY <2>1, <2>2, <2>3, <2>4
<1>13. CASE Triage(o)
  <2>1. /\ pc' \in [Orchs -> Unfound \cup Beating] /\ turns' \in [Orchs -> Nat]
        /\ found' \in [Orchs -> SUBSET Keys] /\ DOMAIN onBoard' = Keys
        /\ shared' \in BOOLEAN /\ twice' \in BOOLEAN
    BY <1>13 DEF Triage, FixOpen
  <2>2. TreesSound'
    BY <1>13 DEF TreesSound, Triage, FixOpen
  <2>3. TurnsSound'
    BY <1>13 DEF TurnsSound, Triage, FixOpen
  <2>4. ReportsSound'
    BY <1>13 DEF ReportsSound, Triage, FixOpen
  <2> QED BY <2>1, <2>2, <2>3, <2>4
<1>14. CASE AgentTurn(o)
  <2>1. /\ pc' \in [Orchs -> Unfound \cup Beating] /\ turns' \in [Orchs -> Nat]
        /\ found' \in [Orchs -> SUBSET Keys] /\ DOMAIN onBoard' = Keys
        /\ shared' \in BOOLEAN /\ twice' \in BOOLEAN
    BY <1>14 DEF AgentTurn, TurnRefused, TurnProposes
  <2>2. TreesSound'
    BY <1>14 DEF TreesSound, AgentTurn, TurnRefused, TurnProposes
  <2>3. TurnsSound'
    BY <1>14 DEF TurnsSound, AgentTurn, TurnRefused, TurnProposes
  <2>4. ReportsSound'
    BY <1>14 DEF ReportsSound, AgentTurn, TurnRefused, TurnProposes
  <2> QED BY <2>1, <2>2, <2>3, <2>4
<1>15. CASE FileAndStamp(o)
  <2>1. /\ pc' \in [Orchs -> Unfound \cup Beating] /\ turns' \in [Orchs -> Nat]
        /\ found' \in [Orchs -> SUBSET Keys] /\ DOMAIN onBoard' = Keys
        /\ shared' \in BOOLEAN /\ twice' \in BOOLEAN
    BY <1>15 DEF FileAndStamp, Filed, New, LinkBlocker
  <2>2. TreesSound'
    BY <1>15 DEF TreesSound, FileAndStamp, Filed, New, LinkBlocker
  <2>3. TurnsSound'
    BY <1>15 DEF TurnsSound, FileAndStamp, Filed, New, LinkBlocker
  <2>4. ReportsSound'
    BY <1>15 DEF ReportsSound, FileAndStamp, Filed, New, LinkBlocker
  <2> QED BY <2>1, <2>2, <2>3, <2>4
<1>16. CASE EndHeartbeat(o)
  <2>1. /\ pc' \in [Orchs -> Unfound \cup Beating] /\ turns' \in [Orchs -> Nat]
        /\ found' \in [Orchs -> SUBSET Keys] /\ DOMAIN onBoard' = Keys
        /\ shared' \in BOOLEAN /\ twice' \in BOOLEAN
    BY <1>16 DEF EndHeartbeat
  <2>2. TreesSound'
    BY <1>16 DEF TreesSound, EndHeartbeat
  <2>3. TurnsSound'
    BY <1>16 DEF TurnsSound, EndHeartbeat
  <2>4. ReportsSound'
    BY <1>16 DEF ReportsSound, EndHeartbeat
  <2> QED BY <2>1, <2>2, <2>3, <2>4
<1>17. CASE CutHeartbeat(o)
  <2>1. /\ pc' \in [Orchs -> Unfound \cup Beating] /\ turns' \in [Orchs -> Nat]
        /\ found' \in [Orchs -> SUBSET Keys] /\ DOMAIN onBoard' = Keys
        /\ shared' \in BOOLEAN /\ twice' \in BOOLEAN
    BY <1>17 DEF CutHeartbeat, AfterCut
  <2>2. TreesSound'
    BY <1>17 DEF TreesSound, CutHeartbeat, AfterCut
  <2>3. TurnsSound'
    BY <1>17 DEF TurnsSound, CutHeartbeat, AfterCut
  <2>4. ReportsSound'
    BY <1>17 DEF ReportsSound, CutHeartbeat, AfterCut
  <2> QED BY <2>1, <2>2, <2>3, <2>4
<1>18. CASE OrchestratorDies(o)
  <2>1. /\ pc' \in [Orchs -> Unfound \cup Beating] /\ turns' \in [Orchs -> Nat]
        /\ found' \in [Orchs -> SUBSET Keys] /\ DOMAIN onBoard' = Keys
        /\ shared' \in BOOLEAN /\ twice' \in BOOLEAN
    BY <1>18 DEF OrchestratorDies
  <2>2. TreesSound'
    BY <1>18 DEF TreesSound, OrchestratorDies
  <2>3. TurnsSound'
    BY <1>18 DEF TurnsSound, OrchestratorDies
  <2>4. ReportsSound'
    BY <1>18 DEF ReportsSound, OrchestratorDies
  <2> QED BY <2>1, <2>2, <2>3, <2>4
<1> QED BY <1>1, <1>2, <1>3, <1>4, <1>5, <1>6, <1>7, <1>8, <1>9, <1>10,
           <1>11, <1>12, <1>13, <1>14, <1>15, <1>16, <1>17, <1>18 DEF HeartbeatStep

\* The heartbeats of any number of orchestrators are sound (sweeps.py
\* _maybe_schedule_continuous_improvement and _run_continuous_improvement).
THEOREM HeartbeatsAreSound == ImprovementSpec => []HeartbeatInv
<1>1. HeartbeatInv /\ [NextImprovement]_improvementVars => HeartbeatInv'
  <2> SUFFICES ASSUME HeartbeatInv, [NextImprovement]_improvementVars PROVE HeartbeatInv'
    OBVIOUS
  <2>1. CASE \E o \in Orchs : HeartbeatStep(o)
    BY <2>1, HeartbeatStepKeeps
  <2>2. CASE TicketMoves
    BY <2>2 DEF HeartbeatInv, TicketMoves, TreesSound, TurnsSound, ReportsSound, Trees, FileLease, Keys
  <2>3. CASE OutliveLease \/ FloorElapses \/ UNCHANGED improvementVars
    BY <2>3 DEF HeartbeatInv, OutliveLease, FloorElapses, improvementVars, TreesSound, TurnsSound,
                ReportsSound, Trees, FileLease, FiledVars
  <2> QED BY <2>1, <2>2, <2>3 DEF NextImprovement
<1> QED BY <1>1, HeartbeatStarts, PTL DEF ImprovementSpec

\* A worktree made for a baseline is removed before its run ends, unless the run
\* was cut off while it proved the baseline or its process died (rubric.md:175-177).
THEOREM WorktreesAreRemoved == ImprovementSpec => []WorktreeRemoved
<1>1. HeartbeatInv => WorktreeRemoved
  BY DEF HeartbeatInv, TreesSound, WorktreeRemoved
<1> QED BY <1>1, HeartbeatsAreSound, PTL

\* As long as the lease kept runs apart, nothing is filed while its ticket is
\* still at work (rubric.md:238-239), and no orchestrator uses more turns than
\* it may (rubric.md:249-251).
THEOREM ReportsAreSingle == ImprovementSpec => [](NotReportedTwice /\ TurnsStayWithinCap)
<1>1. HeartbeatInv => NotReportedTwice /\ TurnsStayWithinCap
  BY DEF HeartbeatInv, ReportsSound, TurnsSound, NotReportedTwice, TurnsStayWithinCap
<1> QED BY <1>1, HeartbeatsAreSound, PTL

=============================================================================
