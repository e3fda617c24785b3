------------------------------ MODULE Release ------------------------------
(***************************************************************************)
(* Application releases: the release gate of one finalizer ticket, kept in   *)
(* the run registry (run_registry_release.py), the verifier and finalizer    *)
(* tickets on the board, and the runs that read and write both               *)
(* (packages/release: authority.py, transition.py, cycle.py).                *)
(*                                                                          *)
(* A verifier ticket is named by the target commits whose red verification   *)
(* led to it: the identifier of a fresh verifier is a hash of the cycle's    *)
(* fingerprint (cycle.py:66-85), so the same red result always names the     *)
(* same ticket.  A task is what one run does in its service instance; it    *)
(* goes on after its lease lapsed, which is what makes its writes stale.     *)
(***************************************************************************)
EXTENDS Naturals, Sequences, FiniteSets

CONSTANTS Runs, NoRun, NoTarget,
          Targets,        \* commits the target branch goes through, in order
          ContractOf,     \* [Targets -> contract in that commit]
          MaxCycles,      \* bound: fresh verifiers in a row
          MaxGen,         \* bound: generations
          MaxDisturb      \* bound: crashes, lapses, edits by people, target moves

ASSUME ReleaseAssumption ==
    /\ NoRun \notin Runs /\ NoTarget \notin Targets
    /\ Targets \subseteq Nat /\ 0 \in Targets
    /\ MaxCycles \in Nat /\ MaxGen \in Nat /\ MaxDisturb \in Nat

VARIABLES gate,       \* the release_gates row
          gens,       \* generations drawn so far
          evid,       \* release_evidence_issues: verifier -> [retired, gen]
          runs,       \* [Runs -> status of the row in runs]
          vstate,     \* [verifier tickets -> state on the board]
          fin,        \* the finalizer ticket: state, blocked_by, version
          items,      \* release_cycle_items: reserved <<fingerprint, role>>
          repairs,    \* fingerprints whose repair ticket exists
          target,     \* tip of the target branch
          task,       \* [Runs -> what the run's task does next]
          proof,      \* history: green validations [gen, run, tgt]
          marks,      \* history: [gen, tgt] of completed finalizers
          approvals,  \* history: [generations -> commit approved]
          disturbed

vars == <<gate, gens, evid, runs, vstate, fin, items, repairs, target, task,
          proof, marks, approvals, disturbed>>

hist == <<proof, marks, approvals>>
board == <<vstate, fin, repairs>>
store == <<gate, gens, evid, items, approvals>>

Generations == 1 .. MaxGen
Verifiers == UNION {[1 .. n -> Targets] : n \in 0 .. MaxCycles}
First == <<>>
Finalizer == [n \in 0 .. MaxCycles |-> n]   \* a name no verifier has
NoToken == 0

(* Result of validate_release_contract, see ReleaseContract. *)
Validation == [kind : {"none", "green", "red", "errors"},
               tgt : Targets \cup {NoTarget}]
NoValidation == [kind |-> "none", tgt |-> NoTarget]

NoGate == [status |-> "none", gen |-> 0, vfy |-> First, contract |-> 0, fp |-> <<>>,
           vrun |-> NoRun, frun |-> NoRun, tgt |-> NoTarget, done |-> NoToken,
           fresh |-> {}]

Idle == [pc |-> "off", of |-> First, snap |-> NoGate, val |-> NoValidation,
         role |-> "repair", tok |-> NoToken, then |-> "off"]

(***************************************************************************)
(* The registry.                                                            *)
(***************************************************************************)

(* Runs whose lease on ticket t is live. *)
Live(t) == {r \in Runs : runs[r] = "active" /\ task[r].of = t}

(* replace_pending_release_gate: a foreign live verifier or a live finalizer *)
(* fences the replacement; only the bound live finalizer may invalidate its  *)
(* own cycle.  by is NoRun or that finalizer's run.                          *)
MayReplace(by) ==
    \/ gate.status = "none"
    \/ /\ Live(gate.vfy) \subseteq {gate.vrun}
       /\ IF by # NoRun THEN gate.frun = by /\ Live(Finalizer) = {by}
                        ELSE Live(Finalizer) = {}

Retire(v, g) == [x \in DOMAIN evid \cup {v} |->
                   IF x = v THEN [retired |-> TRUE, gen |-> g] ELSE evid[x]]

MutantReplacePending(v, contract, fp) ==
    /\ gens < MaxGen
    /\ gens' = gens + 1
    /\ gate' = [NoGate EXCEPT !.status = "pending", !.vfy = v, !.contract = contract, !.fp = fp,
                              !.gen = IF gate.status = "none" THEN gens + 1 ELSE gate.gen]
    /\ evid' = [x \in DOMAIN evid \cup {v} |-> [retired |-> x # v, gen |-> gens + 1]]
    /\ UNCHANGED <<items, approvals>>

ReplacePending(v, contract, fp) ==
    LET past == IF gate.status = "none" THEN evid ELSE Retire(gate.vfy, gate.gen)
    IN /\ gens < MaxGen
       /\ gens' = gens + 1
       /\ gate' = [NoGate EXCEPT !.status = "pending", !.gen = gens + 1, !.vfy = v,
                                 !.contract = contract, !.fp = fp]
       /\ evid' = [x \in DOMAIN past \cup {v} |->
                     IF x = v THEN [retired |-> FALSE, gen |-> gens + 1] ELSE past[x]]
       /\ UNCHANGED <<items, approvals>>

(* The row a caller read is still the row in the table. *)
SameRow(s) == /\ gate.vfy = s.vfy /\ gate.contract = s.contract
              /\ gate.fp = s.fp /\ gate.gen = s.gen

(* bind_release_verifier_run.  A previously bound run may be replaced only    *)
(* once it is neither live nor being reclaimed.                              *)
BindVerifier(r) ==
    /\ task[r].snap.status = "pending"
    /\ SameRow(task[r].snap) /\ gate.status = "pending"
    /\ Live(task[r].of) = {r} /\ r \in gate.fresh
    /\ gate.vrun \in {NoRun, r} \/ runs[gate.vrun] # "active"

(* bind_release_finalizer_run. *)
BindFinalizer(r) ==
    /\ task[r].snap.status = "approved"
    /\ SameRow(task[r].snap) /\ gate.status = "approved"
    /\ gate.tgt = task[r].snap.tgt /\ gate.vrun = task[r].snap.vrun
    /\ Live(Finalizer) = {r} /\ Live(gate.vfy) = {}
    /\ r \in gate.fresh /\ gate.done = NoToken
    /\ gate.frun \in {NoRun, r} \/ runs[gate.frun] # "active"

(* approve_release_gate: exactly the bound, live run of the generation it     *)
(* validated, started after the gate was opened.                             *)
ApproveAllowed(r) ==
    /\ Live(task[r].of) = {r} /\ SameRow(task[r].snap) /\ gate.status = "pending"
    /\ gate.vfy = task[r].of
    /\ gate.vrun = r /\ r \in gate.fresh

(* release_verifier_run_is_authorized, release_finalizer_run_is_authorized. *)
VerifierAuthorized(r) == gate.status \in {"pending", "approved"}
                         /\ gate.vrun = r /\ Live(task[r].of) = {r}
FinalizerAuthorized(g, active) ==
    /\ gate = g /\ g.status = "approved" /\ g.frun # NoRun
    /\ \/ active /\ Live(Finalizer) = {g.frun}
       \/ runs[g.frun] = "normal" /\ g.done # NoToken

(* mark_release_finalizer_completed. *)
MarkAllowed(r) ==
    /\ gate.status = "approved" /\ gate.gen = task[r].snap.gen /\ gate.frun = r
    /\ Live(Finalizer) = {r} /\ Live(gate.vfy) = {}

(***************************************************************************)
(* The board.                                                               *)
(***************************************************************************)

(* rewind_transition: state and note in one write. *)
RewindVerifier(v) == vstate' = [vstate EXCEPT ![v] = "verify"]
Touched(f) == [f EXCEPT !.ver = @ + 1]
RewindFinalizer == fin' = [Touched(fin) EXCEPT !.state = "active"]

Fresh(v, t) == Append(v, t)
Fingerprint(v, t) == <<v, t>>

(***************************************************************************)
(* Dispatch of a verifier or of the finalizer.                              *)
(***************************************************************************)
Goto(r, pc) == task' = [task EXCEPT ![r].pc = pc]
Stop(r) == task' = [task EXCEPT ![r] = Idle]
EndRun(r, status) ==
    /\ runs' = [runs EXCEPT ![r] = IF @ = "active" THEN status ELSE @]
    /\ Stop(r)

(* _guard_release_finalizer up to the target identity: f holds when none of    *)
(* its refusals applies.                                                     *)
GuardOK(g, needRun, r) ==
    /\ fin.state \in {"active", "success"}
    /\ g.status = "approved"
    /\ g.vfy \in fin.deps
    /\ vstate[g.vfy] = "success"
    /\ Live(g.vfy) = {}
    /\ needRun => (r = NoRun \/ g.frun = r) /\ FinalizerAuthorized(g, r # NoRun)

(* ... and the approval is stale when the target, its contract or a completed  *)
(* finalizer's ticket changed.                                               *)
Mismatch(g) == \/ g.tgt # target
               \/ g.contract # ContractOf[target]
               \/ g.done # NoToken /\ g.done # fin.ver

(* _persist_pending_release_gate of _pending_release_gate: a cycle that no red    *)
(* verification named carries the initial fingerprint.                        *)
PersistPending(v, contract) == ReplacePending(v, contract, Fingerprint(v, NoTarget))

(* _reopen_stale_release_gate: the registry first, the two tickets after it.     *)
(* Without the right to replace it raises.                                    *)
ReopenStale(r, contract, then) ==
    /\ PersistPending(gate.vfy, contract)
    /\ task' = [task EXCEPT ![r].pc = "reopenV", ![r].snap = gate', ![r].then = then]

Begin(r, t, pc, then) ==
    task' = [task EXCEPT ![r] = [Idle EXCEPT !.pc = pc, !.of = t, !.snap = gate', !.then = then]]

(* _create_initial_release_gate: a terminal finalizer is reopened with it. *)
InitialGate(r, v) ==
    /\ gate.status = "none" /\ v \in fin.deps
    /\ PersistPending(v, ContractOf[target])
    /\ fin' = IF fin.state = "active" THEN fin ELSE [Touched(fin) EXCEPT !.state = "active"]
    /\ Begin(r, v, "acquire", "off")

(* _prepare_release_dispatch of a verifier ticket in an active state. *)
PrepareVerifier(r, v) ==
    /\ task[r].pc = "off" /\ runs[r] = "unused"
    /\ vstate[v] = "verify"
    /\ gate.vfy = v \/ v \notin DOMAIN evid
    /\ \/ InitialGate(r, v)
       \/ /\ gate.status = "pending" /\ gate.vfy = v /\ UNCHANGED <<store, fin>>
          /\ Begin(r, v, IF fin.state = "active" THEN "acquire" ELSE "reopenV", "acquire")
       \/ /\ gate.status = "approved" /\ gate.vfy = v /\ UNCHANGED fin
          /\ MayReplace(NoRun)
          /\ PersistPending(v, gate.contract)
          /\ Begin(r, v, "reopenV", "acquire")
    /\ UNCHANGED <<runs, vstate, repairs, target, proof, marks, disturbed>>

(* _prepare_release_dispatch of the finalizer: the guard, without a run. *)
PrepareFinalizer(r) ==
    /\ task[r].pc = "off" /\ runs[r] = "unused"
    /\ fin.state = "active" /\ GuardOK(gate, FALSE, NoRun)
    /\ IF Mismatch(gate)
       THEN MayReplace(NoRun) /\ PersistPending(gate.vfy, ContractOf[target])
            /\ Begin(r, Finalizer, "reopenV", "off")
       ELSE UNCHANGED store /\ Begin(r, Finalizer, "acquire", "off")
    /\ UNCHANGED <<runs, board, target, proof, marks, disturbed>>

(* reopen_after_target_change: two ticket writes, the verifier first. *)
ReopenVerifier(r) ==
    /\ task[r].pc = "reopenV"
    /\ vstate' = [vstate EXCEPT ![task[r].snap.vfy] = "verify"]
    /\ Goto(r, "reopenF")
    /\ UNCHANGED <<store, runs, fin, repairs, target, proof, marks, disturbed>>

ReopenFinalizer(r) ==
    /\ task[r].pc = "reopenF"
    /\ fin' = [Touched(fin) EXCEPT !.deps = @ \cup {task[r].snap.vfy},
                 !.state = IF task[r].then \in {"off", "endF"} THEN @ ELSE "active"]
    /\ Goto(r, task[r].then)
    /\ UNCHANGED <<store, runs, vstate, repairs, target, proof, marks, disturbed>>

(* _try_acquire_run_lease: one live run per ticket. *)
Acquire(r) ==
    /\ task[r].pc = "acquire"
    /\ IF Live(task[r].of) = {}
       THEN /\ runs' = [runs EXCEPT ![r] = "active"]
            /\ gate' = [gate EXCEPT !.fresh = @ \cup {r}]
            /\ Goto(r, "bind")
       ELSE /\ Stop(r) /\ UNCHANGED <<runs, gate>>
    /\ UNCHANGED <<gens, evid, items, approvals, board, target, proof, marks, disturbed>>

(* _dispatch after the lease: bind, and guard the finalizer again. *)
Bind(r) ==
    /\ task[r].pc = "bind"
    /\ \/ /\ task[r].of # Finalizer
          /\ IF BindVerifier(r)
             THEN /\ gate' = [gate EXCEPT !.vrun = r]
                  /\ task' = [task EXCEPT ![r].pc = "work", ![r].snap = gate']
                  /\ UNCHANGED runs
             ELSE EndRun(r, "ended") /\ UNCHANGED gate
       \/ /\ task[r].of = Finalizer
          /\ IF BindFinalizer(r)
             THEN /\ gate' = [gate EXCEPT !.frun = r]
                  /\ task' = [task EXCEPT ![r].pc = "guard", ![r].snap = gate', ![r].then = "work"]
                  /\ UNCHANGED runs
             ELSE EndRun(r, "ended") /\ UNCHANGED gate
    /\ UNCHANGED <<gens, evid, items, approvals, board, target, proof, marks, disturbed>>

(***************************************************************************)
(* A verifier's run.                                                        *)
(***************************************************************************)

(* _require_running_release_authority for a verifier, after a heartbeat. *)
Authority(r) == /\ runs[r] = "active" /\ SameRow(task[r].snap)
                /\ gate.vfy = task[r].of /\ VerifierAuthorized(r)

(* A turn: authority is checked when it starts; the agent tests the target it  *)
(* sees, records what it found and moves its ticket to a success state.       *)
Verify(r) ==
    /\ task[r].pc = "work" /\ task[r].of # Finalizer
    /\ IF Authority(r)
       THEN \E kind \in {"green", "red", "errors"} :
              /\ task' = [task EXCEPT ![r].pc = "enforce",
                                      ![r].val = [kind |-> kind, tgt |-> target]]
              /\ vstate' = [vstate EXCEPT ![task[r].of] = "success"]
              /\ proof' = IF kind # "green" THEN proof
                          ELSE proof \cup {[gen |-> gate.gen, run |-> r, tgt |-> target]}
              /\ UNCHANGED runs
       ELSE EndRun(r, "ended") /\ UNCHANGED <<vstate, proof>>
    /\ UNCHANGED <<store, fin, repairs, target, marks, disturbed>>

(* enforce_app_release_transition_inner, up to the awaited validation. *)
Enforce(r) ==
    /\ task[r].pc = "enforce"
    /\ LET v == task[r].of
           peerDone == v \in DOMAIN evid /\ gate.vfy # v
                       /\ evid[v] = [retired |-> TRUE, gen |-> task[r].snap.gen]
       IN IF gate.vfy = v /\ Authority(r)
          THEN /\ task' = [task EXCEPT ![r].pc = "validate", ![r].snap = gate]
               /\ UNCHANGED runs
          ELSE EndRun(r, IF peerDone THEN "normal" ELSE "ended")
    /\ UNCHANGED <<store, board, target, proof, marks, disturbed>>

MutantValidate(r) ==
    /\ task[r].pc = "validate"
    /\ task' = [task EXCEPT ![r].pc = "decide", ![r].val.tgt = target]
    /\ UNCHANGED <<store, runs, board, target, proof, marks, disturbed>>

(* validate_release_contract: evidence of another commit is an error. *)
Validate(r) ==
    /\ task[r].pc = "validate"
    /\ task' = [task EXCEPT ![r].pc = "decide",
                  ![r].val = [kind |-> IF @.tgt = target THEN @.kind ELSE "errors", tgt |-> target]]
    /\ UNCHANGED <<store, runs, board, target, proof, marks, disturbed>>

(* Green approves, red opens a repair cycle, anything else rewinds. *)
MutantVerdict(kind) == IF kind = "red" THEN "reserve" ELSE "approve"
Verdict(kind) == CASE kind = "green" -> "approve" [] kind = "red" -> "reserve" [] OTHER -> "rewind"

(* The decision, fenced by the authority check that follows the await. *)
Drifted(r) == task[r].snap.contract # ContractOf[task[r].val.tgt]
Decide(r) ==
    /\ task[r].pc = "decide"
    /\ IF ~Authority(r)
       THEN EndRun(r, "ended") /\ UNCHANGED store
       ELSE IF task[r].snap.status = "approved"
       THEN /\ IF task[r].val = [kind |-> "green", tgt |-> gate.tgt] /\ ~Drifted(r)
               THEN EndRun(r, "normal")
               ELSE Goto(r, "rewind") /\ UNCHANGED runs
            /\ UNCHANGED store
       ELSE /\ UNCHANGED runs
            /\ \/ /\ Drifted(r)
                  /\ IF MayReplace(NoRun)
                     THEN PersistPending(task[r].of, ContractOf[task[r].val.tgt])
                     ELSE UNCHANGED store
                  /\ Goto(r, "rewind")
               \/ /\ ~Drifted(r) /\ UNCHANGED store
                  /\ task' = [task EXCEPT ![r].role = "repair", ![r].pc = Verdict(task[r].val.kind)]
    /\ UNCHANGED <<board, target, proof, marks, disturbed>>

(* A decided transition ends the run, or a second caller that waited for the   *)
(* run's transition lock goes through the same decision again.               *)
Decided(r) == EndRun(r, "normal") \/ (Goto(r, "enforce") /\ UNCHANGED runs)

Approve(r) ==
    /\ task[r].pc = "approve"
    /\ IF ApproveAllowed(r)
       THEN /\ gate' = [gate EXCEPT !.status = "approved", !.tgt = task[r].val.tgt,
                                    !.frun = NoRun, !.fresh = {}]
            /\ approvals' = [approvals EXCEPT ![gate.gen] = task[r].val.tgt]
            /\ Decided(r)
       ELSE /\ Goto(r, "rewind") /\ UNCHANGED <<gate, approvals, runs>>
    /\ UNCHANGED <<gens, evid, items, board, target, proof, marks, disturbed>>

(* reconcile of a red verification: each ticket is reserved in the registry   *)
(* before it is created, so a retry resumes the same ticket.                  *)
Cycle(r) == Fingerprint(task[r].of, task[r].val.tgt)
NextVerifier(r) == Fresh(task[r].of, task[r].val.tgt)

(* reserve_release_cycle_item, record_release_cycle_item: the first mapping of    *)
(* an item to a ticket stays.                                                *)
ReserveItem(fp, role) == items' = items \cup {<<fp, role>>}

Reserve(r) ==
    /\ task[r].pc = "reserve" /\ Len(task[r].of) < MaxCycles
    /\ ReserveItem(Cycle(r), task[r].role)
    /\ Goto(r, "create")
    /\ UNCHANGED <<gate, gens, evid, approvals, runs, board, target, proof, marks, disturbed>>

CreateRepair(r) ==
    /\ task[r].pc = "create" /\ task[r].role = "repair"
    /\ repairs' = repairs \cup {Cycle(r)}
    /\ task' = [task EXCEPT ![r].pc = "reserve", ![r].role = "verifier"]
    /\ UNCHANGED <<store, runs, vstate, fin, target, proof, marks, disturbed>>

CreateVerifier(r) ==
    /\ task[r].pc = "create" /\ task[r].role = "verifier"
    /\ vstate' = [vstate EXCEPT ![NextVerifier(r)] = "verify"]
    /\ Goto(r, "pend")
    /\ UNCHANGED <<store, runs, fin, repairs, target, proof, marks, disturbed>>

(* persist_fresh_pending_gate, before the finalizer is linked to it. *)
Pend(r) ==
    /\ task[r].pc = "pend"
    /\ IF MayReplace(NoRun)
       THEN /\ ReplacePending(NextVerifier(r), ContractOf[task[r].val.tgt], Cycle(r))
            /\ Goto(r, "relink")
       ELSE Goto(r, "rewind") /\ UNCHANGED store
    /\ UNCHANGED <<runs, board, target, proof, marks, disturbed>>

(* The finalizer waits for the fresh verifier and for no superseded one. *)
Relink(r) ==
    /\ task[r].pc = "relink"
    /\ fin' = [Touched(fin) EXCEPT !.deps = (@ \ Verifiers) \cup {NextVerifier(r)}]
    /\ Goto(r, "prove")
    /\ UNCHANGED <<store, runs, vstate, repairs, target, proof, marks, disturbed>>

Prove(r) ==
    /\ task[r].pc = "prove"
    /\ LET v == task[r].of
       IN IF v \in DOMAIN evid /\ evid[v] = [retired |-> TRUE, gen |-> task[r].snap.gen]
          THEN Decided(r)
          ELSE Goto(r, "rewind") /\ UNCHANGED runs
    /\ UNCHANGED <<store, board, target, proof, marks, disturbed>>

Rewind(r) ==
    /\ task[r].pc = "rewind"
    /\ RewindVerifier(task[r].of)
    /\ \/ Goto(r, "work") /\ UNCHANGED runs
       \/ EndRun(r, "ended")
    /\ UNCHANGED <<store, fin, repairs, target, proof, marks, disturbed>>

(***************************************************************************)
(* The finalizer's run.                                                     *)
(***************************************************************************)
Deliver(r) ==
    /\ task[r].pc = "work" /\ task[r].of = Finalizer
    /\ fin' = [Touched(fin) EXCEPT !.state = "success"]
    /\ task' = [task EXCEPT ![r].pc = "guard", ![r].then = "mark"]
    /\ UNCHANGED <<store, runs, vstate, repairs, target, proof, marks, disturbed>>

(* A refusal at dispatch only ends the run; later it also rewinds the ticket. *)
Refused(r) == IF task[r].then = "work" THEN "endF" ELSE "rewindF"

(* _reopen_stale_release_gate by the finalizer's own run. *)
Invalidate(r) ==
    IF MayReplace(r)
    THEN ReopenStale(r, ContractOf[target], Refused(r))
    ELSE Goto(r, Refused(r)) /\ UNCHANGED store

(* _guard_release_finalizer_with_version: the guard between two readings of    *)
(* the ticket's version, done in one step; Confirm repeats the reading.        *)
Guard(r) ==
    /\ task[r].pc = "guard"
    /\ IF ~GuardOK(gate, TRUE, r)
       THEN Goto(r, Refused(r)) /\ UNCHANGED store
       ELSE IF Mismatch(gate)
       THEN Invalidate(r)
       ELSE /\ task' = [task EXCEPT ![r].pc = task[r].then, ![r].tok = fin.ver, ![r].snap = gate]
            /\ UNCHANGED store
    /\ UNCHANGED <<runs, board, target, proof, marks, disturbed>>

(* _mark_release_finalizer_completed: version, transaction, version again. *)
Mark(r) ==
    /\ task[r].pc = "mark"
    /\ IF fin.state # "success" \/ fin.ver # task[r].tok
       THEN Invalidate(r) /\ UNCHANGED marks
       ELSE IF MarkAllowed(r)
       THEN /\ gate' = [gate EXCEPT !.done = task[r].tok]
            /\ task' = [task EXCEPT ![r].pc = "confirm", ![r].snap = gate']
            /\ marks' = marks \cup {[gen |-> gate.gen, tgt |-> gate.tgt]}
            /\ UNCHANGED <<gens, evid, items, approvals>>
       ELSE Goto(r, "rewindF") /\ UNCHANGED <<store, marks>>
    /\ UNCHANGED <<runs, board, target, proof, disturbed>>

Confirm(r) ==
    /\ task[r].pc = "confirm"
    /\ IF fin.state # "success" \/ fin.ver # task[r].tok
       THEN Invalidate(r) /\ UNCHANGED runs
       ELSE EndRun(r, "normal") /\ UNCHANGED store
    /\ UNCHANGED <<board, target, proof, marks, disturbed>>

FinalizerRewind(r) ==
    /\ task[r].pc \in {"rewindF", "endF"}
    /\ IF task[r].pc = "rewindF" THEN RewindFinalizer ELSE UNCHANGED fin
    /\ EndRun(r, "ended")
    /\ UNCHANGED <<store, vstate, repairs, target, proof, marks, disturbed>>

(***************************************************************************)
(* Restarts, lapsed leases, people and other merges.                        *)
(***************************************************************************)
Disturb == disturbed < MaxDisturb /\ disturbed' = disturbed + 1

(* A lease that is not renewed in time; the task may still be running. *)
Lapse(r) ==
    /\ runs[r] = "active" /\ Disturb
    /\ runs' = [runs EXCEPT ![r] = "lapsed"]
    /\ UNCHANGED <<store, board, target, task, proof, marks>>

(* The service instance dies with its task; the row lapses later. *)
Crash(r) ==
    /\ task[r].pc # "off" /\ Disturb
    /\ Stop(r)
    /\ runs' = [runs EXCEPT ![r] = IF @ = "active" THEN "lapsed" ELSE @]
    /\ UNCHANGED <<store, board, target, proof, marks>>

(* _startup_release_terminal_guard on the verifier tickets. *)
StartupVerifier(v) ==
    /\ vstate[v] = "success" /\ Live(v) = {}
    /\ gate.vfy = v /\ gate.status = "pending"
    /\ RewindVerifier(v)
    /\ UNCHANGED <<store, runs, fin, repairs, target, task, proof, marks, disturbed>>

(* ... and on a terminal finalizer: only a completed, unchanged delivery stays. *)
StartupFinalizer ==
    /\ fin.state = "success" /\ Live(Finalizer) = {}
    /\ LET ok == gate.status = "approved" /\ GuardOK(gate, TRUE, NoRun)
       IN /\ ~(ok /\ ~Mismatch(gate))
          /\ IF ok /\ MayReplace(NoRun)
             THEN /\ PersistPending(gate.vfy, ContractOf[target])
                  /\ vstate' = [vstate EXCEPT ![gate.vfy] = "verify"]
             ELSE UNCHANGED <<store, vstate>>
    /\ RewindFinalizer
    /\ UNCHANGED <<runs, repairs, target, task, proof, marks, disturbed>>

MoveTarget ==
    /\ target + 1 \in Targets /\ Disturb
    /\ target' = target + 1
    /\ UNCHANGED <<store, runs, board, task, proof, marks>>

(* A person edits the finalizer's ticket or reopens a verified verifier. *)
EditFinalizer ==
    /\ Disturb /\ fin' = Touched(fin)
    /\ UNCHANGED <<store, runs, vstate, repairs, target, task, proof, marks>>

ReopenByHand(v) ==
    /\ vstate[v] = "success" /\ Disturb /\ RewindVerifier(v)
    /\ UNCHANGED <<store, runs, fin, repairs, target, task, proof, marks>>

Init ==
    /\ gate = NoGate /\ gens = 0 /\ evid = <<>>
    /\ runs = [r \in Runs |-> "unused"]
    /\ vstate = [v \in Verifiers |-> IF v = First THEN "verify" ELSE "absent"]
    /\ fin = [state |-> "active", deps |-> {First}, ver |-> 1]
    /\ items = {} /\ repairs = {} /\ target = 0
    /\ task = [r \in Runs |-> Idle]
    /\ proof = {} /\ marks = {}
    /\ approvals = [g \in Generations |-> NoTarget]
    /\ disturbed = 0

VerifierStep(r) ==
    \/ Verify(r) \/ Enforce(r) \/ Validate(r) \/ Decide(r) \/ Approve(r)
    \/ Reserve(r) \/ CreateRepair(r) \/ CreateVerifier(r) \/ Pend(r) \/ Relink(r) \/ Prove(r) \/ Rewind(r)

FinalizerStep(r) == Deliver(r) \/ Guard(r) \/ Mark(r) \/ Confirm(r) \/ FinalizerRewind(r)

DispatchStep(r) ==
    \/ \E v \in Verifiers : PrepareVerifier(r, v)
    \/ PrepareFinalizer(r)
    \/ ReopenVerifier(r) \/ ReopenFinalizer(r) \/ Acquire(r) \/ Bind(r)

Next ==
    \/ \E r \in Runs : DispatchStep(r) \/ VerifierStep(r) \/ FinalizerStep(r)
                       \/ Lapse(r) \/ Crash(r)
    \/ \E v \in Verifiers : StartupVerifier(v) \/ ReopenByHand(v)
    \/ StartupFinalizer \/ MoveTarget \/ EditFinalizer

Spec == Init /\ [][Next]_vars

-----------------------------------------------------------------------------
(* An approved gate was earned: the run it names, bound to this very           *)
(* generation, validated green evidence of the commit it approves             *)
(* (approve_release_gate, enforce_app_release_transition_inner).              *)
ApprovalIsEarned ==
    gate.status = "approved" =>
        [gen |-> gate.gen, run |-> gate.vrun, tgt |-> gate.tgt] \in proof

(* No finalizer is recorded as completed for a cycle and a commit that were     *)
(* not verified green, whatever lapsed, crashed or moved in between             *)
(* (mark_release_finalizer_completed, _guard_release_finalizer).              *)
CompletionIsEarned ==
    \A m \in marks : \E p \in proof : p.gen = m.gen /\ p.tgt = m.tgt

(* A gate never waits for a ticket that does not exist: the verifier it names,  *)
(* and the repairs of the red cycle that opened it, are on the board and        *)
(* reserved, also when a crash cut the reconciliation short (cycle.py:513).     *)
GateHasTickets ==
    gate.status # "none" =>
        /\ vstate[gate.vfy] # "absent"
        /\ gate.fp[2] \in Targets => /\ gate.fp \in repairs
                                     /\ \A x \in {"repair", "verifier"} : <<gate.fp, x>> \in items

(* What a release promises, see ReleaseCycle. *)
Promise == INSTANCE ReleaseCycle WITH
    current <- gate.gen, approvedAt <- approvals, completed <- {m.gen : m \in marks},
    Commits <- Targets

(* The registry, the board and everything that races on them implement the      *)
(* cycle specification.                                                      *)
ImplementsCycle == Promise!Spec

(* "Rewinding here would let the stale worker mutate (or retire) its peer's      *)
(* release cycle, so ownership loss is a side-effect-free abort"               *)
(* (authority.py:1050): a run never replaces a gate bound to another live run. *)
NoPeerRetired ==
    [][\A r \in Runs : task[r].pc = "pend" /\ task'[r].pc = "relink"
                         => gate.vrun \in {NoRun, r} \/ runs[gate.vrun] # "active"]_vars
=============================================================================
