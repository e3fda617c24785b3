------------------------------ MODULE ProjectSetup ------------------------------
(***************************************************************************)
(* Creating or adopting a project: under the registry's transaction lock a *)
(* setup makes the directory and repository it finds missing, copies the   *)
(* bundle files that are absent, writes the repository's local excludes,   *)
(* commits exactly the copied files and registers the project; a failure   *)
(* before the commit undoes what the setup recorded of its doings.         *)
(***************************************************************************)
EXTENDS Naturals, FiniteSets

CONSTANTS Setups,     \* concurrent setups (hub, chat, command line)
          Targets,    \* directories
          Files,      \* files of the bundle
          Ports, MaxSetupFaults

ASSUME SetupAssumption == "none" \notin Setups /\ MaxSetupFaults \in Nat

VARIABLES repo,       \* what every target holds
          registry,   \* registered projects: target and port
          txn,        \* holder of the registry transaction
          job,        \* program point of every setup
          setupFaults

setupVars == <<repo, registry, txn, job, setupFaults>>

Nothing == "none"

\* work: files of the bundle in the working tree, by whom; index: staged by
\* a setup; head: committed; deleted: tracked files the operator removed;
\* exclude: .git/info/exclude has the entries of the runtime files.
Repos == [dir : BOOLEAN, git : BOOLEAN, work : [Files -> {Nothing, "operator", "setup"}],
          index : SUBSET Files, head : SUBSET Files, deleted : SUBSET Files,
          exclude : BOOLEAN]

SetupTypeOK ==
  /\ repo \in [Targets -> Repos]
  /\ registry \subseteq [target : Targets, port : Ports]
  /\ txn \in Setups \cup {Nothing}

Absent == [dir |-> FALSE, git |-> FALSE, work |-> [f \in Files |-> Nothing],
           index |-> {}, head |-> {}, deleted |-> {}, exclude |-> FALSE]
Plain(own) == [Absent EXCEPT !.dir = TRUE,
                 !.work = [f \in Files |-> IF f \in own THEN "operator" ELSE Nothing]]
Tracked(own, gone, listed) ==
  [Plain(own) EXCEPT !.git = TRUE, !.head = gone, !.deleted = gone, !.exclude = listed]

InitSetup ==
  /\ repo \in [Targets -> {Absent} \cup {Plain(own) : own \in SUBSET Files}
                   \cup {Tracked(p[1], p[2], p[3]) :
                           p \in {q \in (SUBSET Files) \X (SUBSET Files) \X BOOLEAN :
                                    q[1] \cap q[2] = {}}}]
  /\ registry = {} /\ txn = Nothing /\ setupFaults = 0
  /\ job = [s \in Setups |-> [pc |-> "idle", target |-> Nothing, port |-> Nothing,
                              before |-> Nothing, seen |-> Nothing, made |-> {}, done |-> {},
                              left |-> {}, stuck |-> FALSE]]

SetupAt(s, pc) == job[s].pc = pc
SetupGoto(s, pc) == job' = [job EXCEPT ![s].pc = pc]
Target(s) == job[s].target
Change(s, new) == repo' = [repo EXCEPT ![Target(s)] = new]
Here(s) == repo[Target(s)]

-----------------------------------------------------------------------------
\* project_target_expectation: what the operator confirmed.
Expectation(t) == [dir |-> repo[t].dir, git |-> repo[t].git]

Propose(s, t) ==
  /\ SetupAt(s, "idle")
  /\ job' = [job EXCEPT ![s].pc = "confirmed", ![s].target = t, ![s].seen = Expectation(t)]
  /\ UNCHANGED <<repo, registry, txn, setupFaults>>

Registered(t) == \E p \in registry : p.target = t

\* _next_port: the first port nobody registered.
FreePorts == Ports \ {p.port : p \in registry}

\* The transaction: the target must still be what was confirmed; a repository
\* that is registered already is returned as it is.
BeginSetup(s) ==
  /\ SetupAt(s, "confirmed") /\ txn = Nothing
  /\ IF Expectation(Target(s)) # job[s].seen \/ Registered(Target(s)) \/ FreePorts = {}
     THEN SetupGoto(s, "refused") /\ UNCHANGED txn
     ELSE /\ txn' = s
          /\ \E port \in FreePorts :
               job' = [job EXCEPT ![s].pc = "root", ![s].port = port, ![s].before = Here(s)]
  /\ UNCHANGED <<repo, registry, setupFaults>>

MakeRoot(s) ==
  /\ SetupAt(s, "root")
  /\ Change(s, [Here(s) EXCEPT !.dir = TRUE])
  /\ job' = [job EXCEPT ![s].pc = "git",
                        ![s].made = IF Here(s).dir THEN {} ELSE {"root"}]
  /\ UNCHANGED <<registry, txn, setupFaults>>

GitInit(s) ==
  /\ SetupAt(s, "git")
  /\ Change(s, [Here(s) EXCEPT !.git = TRUE])
  /\ job' = [job EXCEPT ![s].pc = "copy",
                        ![s].made = IF Here(s).git THEN @ ELSE @ \cup {"git"}]
  /\ UNCHANGED <<registry, txn, setupFaults>>

\* _copy_missing_file: a file that is there stays, one that Git tracks (in
\* HEAD or staged) and that is missing is not restored.
Wanted(s) ==
  {f \in Files \ (Here(s).deleted \cup Here(s).index) : Here(s).work[f] = Nothing}

CopyFile(s, f) ==
  /\ SetupAt(s, "copy") /\ f \in Wanted(s)
  /\ Change(s, [Here(s) EXCEPT !.work[f] = "setup"])
  /\ job' = [job EXCEPT ![s].done = @ \cup {f}]
  /\ UNCHANGED <<registry, txn, setupFaults>>

\* A copy breaks off: what it wrote is there, and is not in created_files.
CopyBreaks(s, f) ==
  /\ SetupAt(s, "copy") /\ f \in Wanted(s)
  /\ setupFaults < MaxSetupFaults /\ setupFaults' = setupFaults + 1
  /\ Change(s, [Here(s) EXCEPT !.work[f] = "setup"])
  /\ job' = [job EXCEPT ![s].pc = "unstage", ![s].left = {f}]
  /\ UNCHANGED <<registry, txn>>

\* Board and workspace owned by another project, a missing workflow: see Fail.
\* Then _write_runtime_git_excludes, which skips a file it cannot write.
CheckResources(s) ==
  /\ SetupAt(s, "copy") /\ Wanted(s) = {}
  /\ \E listed \in {Here(s).exclude, TRUE} : Change(s, [Here(s) EXCEPT !.exclude = listed])
  /\ SetupGoto(s, IF job[s].done = {} THEN "register" ELSE "stage")
  /\ UNCHANGED <<registry, txn, setupFaults>>

StageFiles(s) ==
  /\ SetupAt(s, "stage")
  /\ Change(s, [Here(s) EXCEPT !.index = @ \cup job[s].done])
  /\ SetupGoto(s, "commit")
  /\ UNCHANGED <<registry, txn, setupFaults>>

\* commit --only: nothing the operator staged goes with it.
Commit(s) ==
  /\ SetupAt(s, "commit")
  /\ Change(s, [Here(s) EXCEPT !.index = @ \ job[s].done, !.head = @ \cup job[s].done])
  /\ SetupGoto(s, "register_committed")
  /\ UNCHANGED <<registry, txn, setupFaults>>

\* registry.add loads, appends, validates and saves within the transaction.
Register(s) ==
  /\ SetupAt(s, "register") \/ SetupAt(s, "register_committed")
  /\ registry' = registry \cup {[target |-> Target(s), port |-> job[s].port]}
  /\ txn' = Nothing
  /\ SetupGoto(s, "registered")
  /\ UNCHANGED <<repo, setupFaults>>

-----------------------------------------------------------------------------
(* Failures.  Once Git accepted the commit nothing is undone.               *)

Fail(s) ==
  /\ job[s].pc \in {"root", "git", "copy", "stage", "commit", "register", "register_committed"}
  /\ setupFaults < MaxSetupFaults /\ setupFaults' = setupFaults + 1
  /\ IF SetupAt(s, "register_committed")
     THEN SetupGoto(s, "kept") /\ txn' = Nothing
     ELSE SetupGoto(s, "unstage") /\ UNCHANGED txn
  /\ UNCHANGED <<repo, registry>>

MutantUnstage(s) ==
  /\ SetupAt(s, "unstage")
  /\ SetupGoto(s, "undo")
  /\ UNCHANGED <<repo, registry, txn, setupFaults>>

\* In a repository the setup made itself nothing is unstaged.
Unstage(s) ==
  /\ SetupAt(s, "unstage")
  /\ Change(s, [Here(s) EXCEPT !.index = IF "git" \in job[s].made THEN @ ELSE @ \ job[s].done])
  /\ SetupGoto(s, "undo")
  /\ UNCHANGED <<registry, txn, setupFaults>>

\* Neither `git reset` nor `git rm --cached` succeeds: the error is swallowed.
UnstageFails(s) ==
  /\ SetupAt(s, "unstage") /\ "git" \notin job[s].made
  /\ setupFaults < MaxSetupFaults /\ setupFaults' = setupFaults + 1
  /\ job' = [job EXCEPT ![s].pc = "undo", ![s].stuck = TRUE]
  /\ UNCHANGED <<repo, registry, txn>>

\* A root this setup made goes as a whole; otherwise its files go, and the
\* repository if it made that.  A file that cannot be removed is passed over.
Undo(s) ==
  /\ SetupAt(s, "undo")
  /\ \E kept \in SUBSET (job[s].done \cup job[s].left) :
       LET whole == "root" \in job[s].made
           left == IF whole THEN kept ELSE kept \cup job[s].left
           rest == [Here(s) EXCEPT
             !.dir = @ /\ (whole => left # {}),
             !.work = [f \in Files |->
               IF f \in (job[s].done \cup job[s].left) \ left THEN Nothing ELSE @[f]]]
       IN /\ IF kept = {} THEN UNCHANGED setupFaults
             ELSE setupFaults < MaxSetupFaults /\ setupFaults' = setupFaults + 1
          /\ Change(s, IF "git" \notin job[s].made THEN rest
                       ELSE [rest EXCEPT !.git = FALSE, !.index = {}, !.head = {},
                                         !.exclude = FALSE])
          /\ job' = [job EXCEPT ![s].pc = "failed", ![s].left = left]
  /\ txn' = Nothing
  /\ UNCHANGED registry

\* The process dies: the operating system drops the lock, the files stay.
SetupCrash(s) ==
  /\ txn = s /\ setupFaults < MaxSetupFaults /\ setupFaults' = setupFaults + 1
  /\ txn' = Nothing
  /\ SetupGoto(s, "dead")
  /\ UNCHANGED <<repo, registry>>

Remove(t) ==
  /\ txn = Nothing /\ Registered(t)
  /\ registry' = {p \in registry : p.target # t}
  /\ UNCHANGED <<repo, txn, job, setupFaults>>

\* The operator makes a directory or a repository between the proposal and
\* its confirmation.
OperatorCreates(t) ==
  /\ txn = Nothing /\ ~repo[t].git
  /\ repo' = [repo EXCEPT ![t].dir = TRUE, ![t].git = repo[t].dir]
  /\ UNCHANGED <<registry, txn, job, setupFaults>>

ProjectStep(s) ==
  \/ \E t \in Targets : Propose(s, t)
  \/ BeginSetup(s) \/ MakeRoot(s) \/ GitInit(s) \/ CheckResources(s) \/ StageFiles(s)
  \/ Commit(s) \/ Register(s) \/ Unstage(s) \/ Undo(s)
  \/ UnstageFails(s) \/ \E f \in Files : CopyFile(s, f) \/ CopyBreaks(s, f)

NextSetup ==
  \/ \E s \in Setups : ProjectStep(s) \/ Fail(s) \/ SetupCrash(s)
  \/ \E t \in Targets : Remove(t) \/ OperatorCreates(t)

SetupSpec == InitSetup /\ [][NextSetup]_setupVars

-----------------------------------------------------------------------------
\* What a rollback leaves of target r, which held b: the files it could not
\* take away or did not know of, the excludes it wrote, and, if unstaging
\* failed, what it had staged.
RolledBack(b, r, j) ==
  /\ r.work = [f \in Files |-> IF f \in j.left THEN "setup" ELSE b.work[f]]
  /\ r.dir = (b.dir \/ j.left # {})
  /\ r.git = b.git /\ r.head = b.head /\ r.deleted = b.deleted
  /\ r.index \ (IF j.stuck THEN j.done ELSE {}) = b.index
  /\ (b.exclude => r.exclude) /\ (r.exclude => b.git)

(* A setup that fails before its commit leaves the target as it found it    *)
(* but for the lines in .git/info/exclude of a repository it adopted, the   *)
(* file a copy broke off in, files the file system would not remove and, if *)
(* Git refused to unstage, the entries staged: no file, repository,         *)
(* deletion or staged entry of anyone else goes, and nothing else stays     *)
(* (projects.py _create_or_adopt_project_locked and _cleanup_created).      *)
RollbackIsExact ==
  [][\A s \in Setups : job[s].pc = "undo" /\ job'[s].pc = "failed" =>
       RolledBack(job[s].before, repo'[Target(s)], job'[s])]_setupVars

(* Not so: a failed setup leaves its target exactly as it found it.         *)
RollbackLeavesNothing ==
  [][\A s \in Setups : job[s].pc = "undo" /\ job'[s].pc = "failed" =>
       repo'[Target(s)] = job[s].before]_setupVars

(* No setup, failed, interrupted or repeated, overwrites or removes a bundle *)
(* file the operator already had (projects.py _copy_missing_file).           *)
OperatorFilesStay ==
  [][\A t \in Targets, f \in Files :
       repo[t].work[f] = "operator" => repo'[t].work[f] = "operator"]_setupVars

===============================================================================
