-------------------------- MODULE MCAgentApproval --------------------------
EXTENDS AgentApproval

CONSTANTS admin, phone   \* chats; answers come in by the first

MCKinds == {"message", "confirm", "agent_approve"}
MCLockKinds == {"message"}
=============================================================================
