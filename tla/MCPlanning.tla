------------------------------ MODULE MCPlanning ------------------------------
(*****************************************************************************)
(* The planning workspace: the authority an approved plan gives              *)
(* (PmAuthority) and its documents (PmDocuments); and the run leases of      *)
(* release tickets, when registry calls fail (RunLeases). Every behaviour is *)
(* about one of them: the small instances, side by side.                     *)
(*****************************************************************************)
EXTENDS PmAuthority, RunLeases, PmDocuments, TLC

VARIABLE part    \* the component a behaviour is about

CONSTANTS first, second

\* The second task requires the code of the first.
PlanRequires == {<<second, first>>}

-----------------------------------------------------------------------------
\* The variables of PmDocuments while a behaviour is about another component.
IdleDocs ==
  InitDocs

\* The variables of RunLeases while a behaviour is about another component.
IdleLease ==
  Init

\* The variables of PmAuthority while a behaviour is about another component.
IdlePm ==
  /\ doc = "none" /\ ws = "none" /\ approvals = "none" /\ batch = "none"
  /\ managed = "none" /\ revoked = {} /\ board = "none" /\ lock = Free
  /\ att = [a \in Attempts |-> NoAttempt] /\ lease = "none" /\ receipts = {}
  /\ accepted = "none" /\ crashes = 0 /\ edits = 0

\* Two tasks, the second requiring the code of the first.
PmInit == part = "Pm" /\ InitAuthority /\ IdleLease /\ IdleDocs
PmNext == part = "Pm" /\ NextAuthority /\ UNCHANGED <<vars, docVars, part>>

\* A release ticket and another, one instance, registry calls that may fail.
LeaseInit == part = "Lease" /\ Init /\ IdlePm /\ IdleDocs
LeaseNext == part = "Lease" /\ Next /\ UNCHANGED <<authorityVars, docVars, part>>

\* Two permanent ids.
DocsInit == part = "Docs" /\ InitDocs /\ IdlePm /\ IdleLease
DocsNext == part = "Docs" /\ NextDocs /\ UNCHANGED <<authorityVars, vars, part>>

-----------------------------------------------------------------------------
AllInit == PmInit \/ LeaseInit \/ DocsInit
AllNext == PmNext \/ LeaseNext \/ DocsNext
AllSpec == AllInit /\ [][AllNext]_<<authorityVars, vars, docVars, part>>

-----------------------------------------------------------------------------
\* Contents, operations and attempts are interchangeable.
Symmetry == Permutations(Contents) \cup Permutations(Ops) \cup Permutations(Attempts)

===============================================================================
