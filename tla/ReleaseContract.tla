-------------------------- MODULE ReleaseContract --------------------------
(***************************************************************************)
(* validate_release_contract (packages/release: contracts.py): the host      *)
(* reads the contract, the worker's evidence and the runner's own results,    *)
(* and sorts what it finds into evidence errors (the verifier must run         *)
(* again) and repairable failures (repair tickets are opened).  The files       *)
(* start out in order; each step damages or changes one thing in them, as an   *)
(* agent, a tool or a moved branch may.                                       *)
(***************************************************************************)
EXTENDS Naturals, Sequences, FiniteSets

CONSTANTS Checks, Viewports, Impls, MaxDefects

VARIABLES doc, defects

(* The checks of a contract are few, and a failure is a check, a runtime count   *)
(* or an implementation branch, never two of them.                             *)
ASSUME ContractAssumption ==
    /\ IsFiniteSet(Checks)
    /\ Checks \cap (Impls \cup {"console", "requests"}) = {}

contractVars == <<doc, defects>>

Statuses == {"PASS", "FAIL"}
Conditions == {"ok", "outside", "empty", "ignored", "hash"}
Mounts == {"none", "link", "plain", "missing", "foreign", "outsideRepo"}

Entry(c) == [id |-> c, status |-> "PASS", vps |-> <<"wide", "narrow">>, art |-> "ok", text |-> TRUE]
Result(c) == [id |-> c, status |-> "PASS"]
Ordered == CHOOSE q \in [1 .. Cardinality(Checks) -> Checks] :
              \A i, j \in DOMAIN q : q[i] = q[j] => i = j

Good == [
    contract |-> [file |-> "ok", head |-> TRUE, runner |-> TRUE, viewports |-> TRUE, checks |-> TRUE,
                  branch |-> TRUE, bytes |-> TRUE, source |-> "match"],
    tip      |-> TRUE,                               \* the configured branch resolves
    work     |-> [head |-> TRUE, changed |-> {"docs"}, mount |-> "none"],
    evidence |-> [file |-> "ok", manifest |-> "ok", ticket |-> TRUE, hash |-> TRUE, tgt |-> TRUE,
                  command |-> TRUE, exit |-> 0, console |-> 0, requests |-> 0,
                  checks |-> [i \in DOMAIN Ordered |-> Entry(Ordered[i])]],
    native   |-> [art |-> "ok", bound |-> TRUE,
                  checks |-> [i \in DOMAIN Ordered |-> Result(Ordered[i])]],
    merged   |-> Impls]

Ids(s) == {s[i].id : i \in DOMAIN s}
Seen(s) == {s[i] : i \in DOMAIN s}
Duplicates(s) == \E i, j \in DOMAIN s : i # j /\ s[i] = s[j]
Err(p, e) == IF p THEN {e} ELSE {}
First(s, c) == s[CHOOSE i \in DOMAIN s : s[i].id = c /\ \A j \in 1 .. (i - 1) : s[j].id # c]

(***************************************************************************)
(* The contract, _load_contract: any error leaves no contract at all.        *)
(***************************************************************************)
ContractHead(k) == Err(~k.head, "contract head")
ContractRunner(k) == Err(~k.runner, "contract runner")
ContractViewports(k) == Err(~k.viewports, "contract viewports")
ContractChecks(k) == Err(~k.checks, "contract checks")

LoadContract(k) ==
    IF k.file # "ok" THEN {"contract file"}
    ELSE ContractHead(k) \cup ContractRunner(k) \cup ContractViewports(k) \cup ContractChecks(k)

HasContract(d) == LoadContract(d.contract) = {}

(***************************************************************************)
(* The workspace against the exact target commit.                           *)
(***************************************************************************)
MountError(w) == w.mount \in {"plain", "missing", "foreign"}
ConfiguredRootError(w) == w.mount = "outsideRepo"
Allowed(w) == {"docs"} \cup IF w.mount = "link" THEN {"board"} ELSE {}

WorkspaceTargetErrors(w) ==
    Err(~w.head, "workspace head") \cup Err(MountError(w) \/ ConfiguredRootError(w), "board mount")
    \cup Err(~(w.changed \subseteq Allowed(w)), "workspace changes")

TargetContract(d) == Err(~d.contract.bytes, "contract bytes")

RunnerSources(d) ==
    Err(HasContract(d) /\ d.contract.source # "match", "runner source")

(***************************************************************************)
(* The evidence and the native results.                                      *)
(***************************************************************************)
LoadEvidence(e) == Err(e.file # "ok", "evidence file")
ValidArtifact(a) == a = "ok"
Stageable(a) == a # "ignored"

EvidenceBinding(d) ==
    LET e == d.evidence
    IN Err(~Stageable(e.manifest), "manifest") \cup Err(~e.ticket, "ticket")
       \cup Err(~e.hash, "contract hash") \cup Err(~e.tgt \/ ~d.tip, "stale target")
       \cup Err(HasContract(d) /\ ~e.command, "runner command")
       \cup Err(~ValidArtifact(d.native.art), "results artifact")

(* _load_native_results runs only on an intact results file. *)
HasNative(d) == ValidArtifact(d.native.art)
NativeResults(d) ==
    IF ~HasNative(d) THEN {}
    ELSE Err(~d.native.bound, "native binding")
         \cup Err(\E i, j \in DOMAIN d.native.checks : i # j /\ d.native.checks[i].id = d.native.checks[j].id,
                  "native duplicates")

MutantEvidenceChecks(d) == Err(HasContract(d) /\ Ids(d.evidence.checks) # Checks, "check coverage")

EvidenceChecks(d) ==
    LET s == d.evidence.checks
    IN Err(\E i, j \in DOMAIN s : i # j /\ s[i].id = s[j].id, "evidence duplicates")
       \cup Err(HasContract(d) /\ Ids(s) # Checks, "check coverage")

NativeAgrees(d) ==
    LET e == d.evidence.checks  n == d.native.checks
    IN IF ~HasNative(d) THEN {}
       ELSE Err(Ids(e) # Ids(n), "native coverage")
            \cup Err(\E c \in Ids(e) \cap Ids(n) : First(e, c).status # First(n, c).status, "native status")

(* One evidence entry of a contract check: texts, status, viewports, artifacts. *)
EntryErrors(x) ==
    Err(~x.text, "check text") \cup Err(x.status \notin Statuses, "check status")
    \cup Err(Duplicates(x.vps), "duplicate viewport") \cup Err(~(Seen(x.vps) \subseteq Viewports), "unknown viewport")
    \cup Err(~(Viewports \subseteq Seen(x.vps)), "missing viewport")
    \cup Err(~ValidArtifact(x.art), "check artifact")

Entries(d) == IF HasContract(d)
              THEN {First(d.evidence.checks, c) : c \in Ids(d.evidence.checks) \cap Checks} ELSE {}

(* The exit code is compared only when contract, evidence and results agree.  *)
ExitCode(d) ==
    LET e == d.evidence.checks  n == d.native.checks
        agree == /\ HasContract(d) /\ HasNative(d)
                 /\ Ids(e) = Checks /\ Ids(n) = Checks
                 /\ \A c \in Checks : First(e, c).status \in Statuses
                                      /\ First(n, c).status = First(e, c).status
    IN Err(agree /\ (d.evidence.exit = 0) # (\A c \in Checks : First(e, c).status = "PASS"), "exit code")

RuntimeFailures(e) == Err(e.console > 0, "console") \cup Err(e.requests > 0, "requests")
Ancestry(d) == IF HasContract(d) /\ d.tip THEN Impls \ d.merged ELSE {}

EvidenceErrors(d) ==
    LoadContract(d.contract) \cup Err(~d.tip, "target branch")
    \cup Err(HasContract(d) /\ ~d.contract.branch, "contract branch")
    \cup (IF d.tip THEN WorkspaceTargetErrors(d.work) \cup TargetContract(d) \cup RunnerSources(d) ELSE {})
    \cup LoadEvidence(d.evidence)
    \cup (IF d.evidence.file # "ok" THEN {}
          ELSE EvidenceBinding(d) \cup NativeResults(d) \cup EvidenceChecks(d) \cup NativeAgrees(d)
               \cup (UNION {EntryErrors(x) : x \in Entries(d)}) \cup ExitCode(d))

Failures(d) ==
    (IF d.evidence.file # "ok" THEN {}
     ELSE {x.id : x \in {y \in Entries(d) : y.status = "FAIL"}} \cup RuntimeFailures(d.evidence))
    \cup Ancestry(d)

Passed(d) == EvidenceErrors(d) = {} /\ Failures(d) = {}

(* resolve_target_release_identity: from the branch tip alone. *)
TargetIdentityOK(d) == d.tip /\ d.contract.file = "ok" /\ d.contract.head /\ d.contract.branch

(***************************************************************************)
(* What may happen to the files.                                            *)
(***************************************************************************)
Defect == defects < MaxDefects /\ defects' = defects + 1

ContractChanges ==
    /\ Defect
    /\ \/ \E f \in {"head", "runner", "viewports", "checks", "branch", "bytes"} :
            doc' = [doc EXCEPT !.contract[f] = FALSE]
       \/ doc' = [doc EXCEPT !.contract.file = "missing"]
       \/ doc' = [doc EXCEPT !.contract.source = "differs"]
       \/ doc' = [doc EXCEPT !.tip = FALSE]
       \/ doc' = [doc EXCEPT !.merged = {}]

WorkspaceChanges ==
    /\ Defect
    /\ \/ doc' = [doc EXCEPT !.work.head = FALSE]
       \/ \E p \in {"code", "board"} : doc' = [doc EXCEPT !.work.changed = @ \cup {p}]
       \/ \E m \in Mounts : doc' = [doc EXCEPT !.work.mount = m]

EvidenceChanges ==
    /\ Defect
    /\ \/ \E f \in {"ticket", "hash", "tgt", "command"} : doc' = [doc EXCEPT !.evidence[f] = FALSE]
       \/ doc' = [doc EXCEPT !.evidence.file = "missing"]
       \/ doc' = [doc EXCEPT !.evidence.manifest = "ignored"]
       \/ doc' = [doc EXCEPT !.evidence.exit = 1 - @]
       \/ doc' = [doc EXCEPT !.evidence.console = 1]
       \/ doc' = [doc EXCEPT !.evidence.requests = 1]

CheckChanges ==
    /\ Defect
    /\ \E i \in DOMAIN doc.evidence.checks :
         \/ \E s \in {"FAIL", "other"} : doc' = [doc EXCEPT !.evidence.checks[i].status = s]
         \/ \E v \in {<<"wide">>, <<"wide", "wide", "narrow">>, <<"wide", "narrow", "huge">>} :
              doc' = [doc EXCEPT !.evidence.checks[i].vps = v]
         \/ \E a \in Conditions : doc' = [doc EXCEPT !.evidence.checks[i].art = a]
         \/ doc' = [doc EXCEPT !.evidence.checks[i].text = FALSE]
         \/ doc' = [doc EXCEPT !.evidence.checks = Append(@, @[i])]
         \/ doc' = [doc EXCEPT !.evidence.checks = Append(@, [@[i] EXCEPT !.status = "FAIL"])]
         \/ doc' = [doc EXCEPT !.evidence.checks = SubSeq(@, 1, i - 1) \o SubSeq(@, i + 1, Len(@))]

NativeChanges ==
    /\ Defect
    /\ \/ \E a \in Conditions : doc' = [doc EXCEPT !.native.art = a]
       \/ doc' = [doc EXCEPT !.native.bound = FALSE]
       \/ \E i \in DOMAIN doc.native.checks :
            \/ doc' = [doc EXCEPT !.native.checks[i].status = "FAIL"]
            \/ doc' = [doc EXCEPT !.native.checks = Append(@, [@[i] EXCEPT !.status = "FAIL"])]
            \/ doc' = [doc EXCEPT !.native.checks = SubSeq(@, 1, i - 1) \o SubSeq(@, i + 1, Len(@))]

InitContract == doc = Good /\ defects = 0
NextContract == ContractChanges \/ WorkspaceChanges \/ EvidenceChanges \/ CheckChanges \/ NativeChanges
ContractSpec == InitContract /\ [][NextContract]_contractVars

-----------------------------------------------------------------------------
(* A validation that passes is green in every raw file: no entry of the         *)
(* evidence or of the runner's results, repeated ones included, says anything   *)
(* but PASS, everything cited is intact and current, and every implementation   *)
(* branch is merged (contracts.py:1040).                                     *)
GreenMeansGreen ==
    Passed(doc) =>
        /\ \A c \in Checks : \E i \in DOMAIN doc.evidence.checks : doc.evidence.checks[i].id = c
        /\ \A i \in DOMAIN doc.evidence.checks :
             LET x == doc.evidence.checks[i]
             IN x.id \in Checks /\ x.status = "PASS" /\ x.art = "ok" /\ Seen(x.vps) = Viewports
        /\ \A i \in DOMAIN doc.native.checks : doc.native.checks[i].status = "PASS"
        /\ doc.evidence.exit = 0 /\ doc.evidence.tgt /\ doc.contract.bytes
        /\ doc.merged = Impls /\ "code" \notin doc.work.changed
        /\ TargetIdentityOK(doc)

(* Repair tickets are opened only for a red result nothing contradicts: a        *)
(* failed check is red for the runner too and in its exit code                  *)
(* (contracts.py:1430), otherwise the verifier runs again.                      *)
RepairsAreReal ==
    EvidenceErrors(doc) = {} =>
        \A c \in Failures(doc) \cap Checks :
            /\ \A i \in DOMAIN doc.native.checks :
                 doc.native.checks[i].id = c => doc.native.checks[i].status = "FAIL"
            /\ doc.evidence.exit # 0
=============================================================================
