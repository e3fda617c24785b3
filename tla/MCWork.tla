------------------------------ MODULE MCWork ------------------------------
(*****************************************************************************)
(* What an attempt produces: its branch, worktree and merge (Delivery), its  *)
(* tokens (TokenAccounting), its files (Deliverables) and the evidence of a  *)
(* release (ReleaseContract). Every behaviour is about one of them: the      *)
(* small instances, side by side.                                            *)
(*****************************************************************************)
EXTENDS TokenAccounting, Deliverables, ReleaseContract, Delivery, TLC

VARIABLE part    \* the component a behaviour is about

\* The settings considered: without snapshots the other policy adds nothing.
WorkPolicies ==
  {[reuse |-> "preserve", commit |-> TRUE], [reuse |-> "refresh", commit |-> TRUE],
   [reuse |-> "preserve", commit |-> FALSE]}

EverythingKept == policy.reuse = "preserve" /\ policy.commit

\* Nothing is written to the path that commits leave out.
OnePath == \A p \in Excluded : opWrote[p] = 0 /\ \A t \in Tickets : wrote[t][p] = 0

\* The operator edits and stages nothing.
NothingStaged == opStaged = [p \in Paths |-> 0] /\ ~opMerging

\* All tickets but one are left alone.
OneTicket ==
  \E t \in Tickets : \A u \in Tickets \ {t} :
    /\ branch[u] = 0 /\ ws[u] = NoWorkspace /\ sc[u] = NoScript
    /\ tk[u].state = "Todo" /\ tk[u].at = "idle"

-----------------------------------------------------------------------------
\* The variables of Delivery while a behaviour is about another component.
IdlePair ==
  InitDelivery /\ policy = [reuse |-> "preserve", commit |-> TRUE]

\* The variables of ReleaseContract while a behaviour is about another component.
IdleProof ==
  /\ doc = [Good EXCEPT !.contract.file = "missing", !.evidence.file = "missing", !.tip = FALSE]
  /\ defects = 0

\* The variables of Deliverables while a behaviour is about another component.
IdleFiles ==
  InitStore

\* The variables of TokenAccounting while a behaviour is about another component.
IdleTokens ==
  /\ cfg = "none" /\ clients = <<>> /\ entry = NoEntry /\ w = NoWorker /\ ticket = "none"
  /\ totals = 0 /\ stats = 0 /\ ema = 0 /\ evicted = FALSE /\ unkept = FALSE
  /\ faults = 0 /\ resumes = 0

\* Two lanes, two backends, one of them evicted.
TokensInit == part = "Tokens" /\ Init /\ IdleFiles /\ IdleProof /\ IdlePair
TokensNext == part = "Tokens" /\ Next /\ UNCHANGED <<storeVars, contractVars, deliveryVars, part>>

\* Two files whose stored names collide.
FilesInit == part = "Files" /\ InitStore /\ IdleTokens /\ IdleProof /\ IdlePair
FilesNext == part = "Files" /\ NextStore /\ UNCHANGED <<vars, contractVars, deliveryVars, part>>

\* Two checks in two viewports, up to three defects.
ProofInit == part = "Proof" /\ InitContract /\ IdleTokens /\ IdleFiles /\ IdlePair
ProofNext == part = "Proof" /\ NextContract /\ UNCHANGED <<vars, storeVars, deliveryVars, part>>

\* Two tickets that change one path, workspaces and snapshots kept.
PairInit == part = "Pair" /\ InitDelivery /\ EverythingKept /\ IdleTokens /\ IdleFiles /\ IdleProof
PairNext == part = "Pair" /\ NextDelivery /\ OnePath' /\ NothingStaged' /\ UNCHANGED <<vars, storeVars, contractVars, part>>

\* One ticket and two paths, one of them kept out of commits.
SoloInit == part = "Solo" /\ InitDelivery /\ IdleTokens /\ IdleFiles /\ IdleProof
SoloNext == part = "Solo" /\ NextDelivery /\ OneTicket' /\ UNCHANGED <<vars, storeVars, contractVars, part>>

-----------------------------------------------------------------------------
AllInit == TokensInit \/ FilesInit \/ ProofInit \/ PairInit \/ SoloInit
AllNext == TokensNext \/ FilesNext \/ ProofNext \/ PairNext \/ SoloNext
AllSpec == AllInit /\ [][AllNext]_<<vars, storeVars, contractVars, deliveryVars, part>>

-----------------------------------------------------------------------------
\* Tickets are interchangeable.
Symmetry == Permutations(Tickets)

===============================================================================
