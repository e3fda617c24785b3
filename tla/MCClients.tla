------------------------------ MODULE MCClients ------------------------------
(*****************************************************************************)
(* The processes around the orchestrator: commands that start and stop it    *)
(* (Service), project setups (ProjectSetup), chat sessions (ChatSessions)    *)
(* and the cards they file (ChatActions), planning operations (PmPlanning).  *)
(* Every behaviour is about one of them: the small instances, side by side.  *)
(*****************************************************************************)
EXTENDS PmPlanning, ChatSessions, Service, ProjectSetup, ChatActions, TLC

VARIABLE part    \* the component a behaviour is about

-----------------------------------------------------------------------------
\* The variables of ChatActions while a behaviour is about another component.
IdleCards ==
  /\ intent = "none" /\ setup = "none" /\ mode = "qa" /\ session = "gone" /\ left = {}
  /\ transcript = {} /\ tickets = [i \in Intents |-> 0] /\ atStop = {} /\ fresh = {}
  /\ diskFaults = 0 /\ clock = 0 /\ cardEvents = 0

\* The variables of ProjectSetup while a behaviour is about another component.
IdleSetup ==
  /\ repo = "none" /\ registry = {} /\ txn = "none" /\ job = [s \in Setups |-> [pc |-> "none"]]
  /\ setupFaults = 0

\* The variables of Service while a behaviour is about another component.
IdleServe ==
  /\ lockFile = NoFile /\ record = "none" /\ proc = "none" /\ backends = {}
  /\ port = "none" /\ cmd = "none" /\ overlap = TRUE /\ kills = 0

\* The variables of ChatSessions while a behaviour is about another component.
IdleChat ==
  /\ live = "none" /\ index = {} /\ obj = "none" /\ turn = [t \in Turns |-> [st |-> "new"]]
  /\ request = "none" /\ closed = FALSE /\ made = 0

\* The variables of PmPlanning while a behaviour is about another component.
IdlePlan ==
  /\ row = [o \in Ops |-> "none"] /\ ids = "none" /\ entry = "none" /\ cancelling = {}
  /\ client = "none" /\ route = "none" /\ req = "none" /\ stray = {} /\ faults = 0

\* Two operations, one request that cancels, one fault.
PlanInit == part = "Plan" /\ Init /\ IdleChat /\ IdleServe /\ IdleSetup /\ IdleCards
PlanNext == part = "Plan" /\ Next /\ UNCHANGED <<chatVars, serviceVars, setupVars, cardVars, part>>

\* Two concurrent requests, two session ids, three objects.
ChatInit == part = "Chat" /\ InitChat /\ IdlePlan /\ IdleServe /\ IdleSetup /\ IdleCards
ChatNext == part = "Chat" /\ NextChat /\ UNCHANGED <<vars, serviceVars, setupVars, cardVars, part>>

\* Two commands at once, one of them killed.
ServeInit == part = "Serve" /\ InitService /\ IdlePlan /\ IdleChat /\ IdleSetup /\ IdleCards
ServeNext == part = "Serve" /\ NextService /\ UNCHANGED <<vars, chatVars, setupVars, cardVars, part>>

\* Two setups of one directory.
SetupInit == part = "Setup" /\ InitSetup /\ IdlePlan /\ IdleChat /\ IdleServe /\ IdleCards
SetupNext == part = "Setup" /\ NextSetup /\ UNCHANGED <<vars, chatVars, serviceVars, cardVars, part>>

\* Three proposals of either kind.
CardsInit == part = "Cards" /\ InitCards /\ IdlePlan /\ IdleChat /\ IdleServe /\ IdleSetup
CardsNext == part = "Cards" /\ NextCards /\ UNCHANGED <<vars, chatVars, serviceVars, setupVars, part>>

-----------------------------------------------------------------------------
AllInit == PlanInit \/ ChatInit \/ ServeInit \/ SetupInit \/ CardsInit
AllNext == PlanNext \/ ChatNext \/ ServeNext \/ SetupNext \/ CardsNext
AllSpec == AllInit /\ [][AllNext]_<<vars, chatVars, serviceVars, setupVars, cardVars, part>>

-----------------------------------------------------------------------------
\* Operations are interchangeable.
Symmetry == Permutations(Ops)

===============================================================================
