------------------------------ MODULE MCTurns ------------------------------
(* A run's turns, for TLC: the conversation's history and its compaction,   *)
(* the repair of the messages sent, the sub-agents of a turn, the MCP tools *)
(* it lists and connects to, their approvals, the executor its commands go  *)
(* to and the sink its events go to.  They share no state, so each          *)
(* behaviour is one of them at work with the others at rest.                *)
EXTENDS Conversation, ToolRepair, SubAgents, RunSink, ToolGating, McpApprovals, ExecService

VARIABLE part   \* the part at work

mcVars == <<part, convVars, repairVars, subVars, sinkVars, gatingVars, mcpVars, execVars>>

MCInit ==
    /\ part \in {"history", "repair", "subagents", "sink", "gates", "approvals", "executor"}
    /\ ConvInit /\ SubInit /\ SinkInit /\ GatingInit /\ ApprovalsInit /\ ExecInit
    /\ part # "repair" => msgs = <<>> /\ splits = FALSE
    /\ RepairInit

MCNext ==
    \/ /\ part = "history" /\ ConvNext
       /\ UNCHANGED <<part, repairVars, subVars, sinkVars, gatingVars, mcpVars, execVars>>
    \/ /\ part = "repair" /\ RepairNext
       /\ UNCHANGED <<part, convVars, subVars, sinkVars, gatingVars, mcpVars, execVars>>
    \/ /\ part = "subagents" /\ SubNext
       /\ UNCHANGED <<part, convVars, repairVars, sinkVars, gatingVars, mcpVars, execVars>>
    \/ /\ part = "sink" /\ SinkNext
       /\ UNCHANGED <<part, convVars, repairVars, subVars, gatingVars, mcpVars, execVars>>
    \/ /\ part = "gates" /\ GatingNext
       /\ UNCHANGED <<part, convVars, repairVars, subVars, sinkVars, mcpVars, execVars>>
    \/ /\ part = "approvals" /\ ApprovalsNext
       /\ UNCHANGED <<part, convVars, repairVars, subVars, sinkVars, gatingVars, execVars>>
    \/ /\ part = "executor" /\ ExecNext
       /\ UNCHANGED <<part, convVars, repairVars, subVars, sinkVars, gatingVars, mcpVars>>

MCSpec == MCInit /\ [][MCNext]_mcVars
=============================================================================
