------------------------------ MODULE MCWorkers ------------------------------
(*****************************************************************************)
(* The workers of one service (Dispatch) and what they drive: agents of one  *)
(* turn (AgentTurn) and of one session (AgentRpc). Every behaviour is about  *)
(* one of them: the small instances, side by side.                           *)
(*****************************************************************************)
EXTENDS MCDispatch, AgentTurn, AgentRpc

VARIABLE part    \* the component a behaviour is about

-----------------------------------------------------------------------------
\* The variables of AgentRpc while a behaviour is about another component.
IdleRpc ==
  InitRpc /\ protocol = "acp" /\ caps = "none"

\* The variables of AgentTurn while a behaviour is about another component.
IdleTurn ==
  InitAgent /\ kind = "bulk" /\ resume = "none"

\* The variables of MCDispatch while a behaviour is about another component.
IdleSlots ==
  /\ world = "none" /\ running = [i \in Issues |-> NoTask] /\ claimed = {} /\ retry = "none" /\ persisted = "none"
  /\ budget = {} /\ paused = {} /\ pending = {} /\ escal = "none" /\ task = [t \in Tasks |-> FreeTask]
  /\ firing = "none" /\ escReady = "none" /\ escWriting = "none" /\ tick = "none" /\ eject = "none"
  /\ board = "none" /\ lease = "none"

\* The worlds of SafetyWorlds.
SlotsInit == part = "Slots" /\ Init /\ IdleTurn /\ IdleRpc
SlotsNext == part = "Slots" /\ Next /\ UNCHANGED <<agentVars, rpcVars, part>>

\* Two processes, one turn after the other.
TurnInit == part = "Turn" /\ InitAgent /\ IdleSlots /\ IdleRpc
TurnNext == part = "Turn" /\ NextAgent /\ UNCHANGED <<vars, rpcVars, part>>

\* Three turns over two launches.
RpcInit == part = "Rpc" /\ InitRpc /\ IdleSlots /\ IdleTurn
RpcNext == part = "Rpc" /\ NextRpc /\ UNCHANGED <<vars, agentVars, part>>

-----------------------------------------------------------------------------
AllInit == SlotsInit \/ TurnInit \/ RpcInit
AllNext == SlotsNext \/ TurnNext \/ RpcNext
AllSpec == AllInit /\ [][AllNext]_<<vars, agentVars, rpcVars, part>>

-----------------------------------------------------------------------------
===============================================================================
