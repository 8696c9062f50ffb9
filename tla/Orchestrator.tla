---------------------------- MODULE Orchestrator ----------------------------
(***************************************************************************)
(* umabot/agents/orchestrator.py: DynamicOrchestrator.  A loop of model    *)
(* requests whose tool calls spawn agents, one after the other, in the     *)
(* asyncio task of the orchestrator itself.  Agents are numbered from 1 in *)
(* every run: a second run inside the same team run uses the same numbers. *)
(* AgentApproval has request_approval in detail; here it is a call that    *)
(* yields a result.  Prompts, catalogs and attachments are left out.       *)
(***************************************************************************)
EXTENDS SpawnedAgent

CONSTANTS
    OrchLimit, \* max_orchestrator_iterations
    Reply,     \* what a final reply may be
    Empty      \* the one without a text

ASSUME OrchestratorAssumption ==
    /\ OrchLimit \in Nat \ {0}
    /\ Empty \in Reply

VARIABLES
    orch, \* the loop of the orchestrator
    reply \* the final reply of a run, and what the policy makes of it

orchVars == <<orch, reply>>

NoReply == [status |-> "none"]
NoOne == 0
OrchIdle == [pc |-> "none", iter |-> 0, left |-> 0, seq |-> 0, at |-> NoOne]
OrchEnded == {"replied", "raised"}

OrchTypeOK ==
    /\ orch \in [pc : {"none", "ask", "call", "agent", "final"} \cup OrchEnded,
                 iter : 0..OrchLimit, left : 0..MaxCalls,
                 seq : Agent \cup {NoOne}, at : Agent \cup {NoOne}]

OrchInit == orch = OrchIdle /\ reply = NoReply

(* A call is done: the next call of the answer, iteration or the end.      *)
AfterOrchCall(o) ==
    IF o.left > 1 THEN [o EXCEPT !.left = @ - 1, !.pc = "call", !.at = NoOne]
    ELSE [o EXCEPT !.left = 0, !.at = NoOne, !.iter = @ + 1,
                   !.pc = IF o.iter + 1 < OrchLimit THEN "ask" ELSE "final"]

(* A new DynamicOrchestrator, of which the agents of one before are gone.  *)
Orchestrate ==
    /\ orch' = [OrchIdle EXCEPT !.pc = "ask"]
    /\ agent' = [a \in Agent |-> Idle]

(* run: the answer is a text and so the reply, ...                         *)
OrchAnswers ==
    /\ orch.pc = "ask"
    /\ reply' \in Reply
    /\ orch' = [orch EXCEPT !.pc = "replied"]
    /\ UNCHANGED <<mode, agentVars>>

(* ... or n calls, ...                                                     *)
OrchCalls(n) ==
    /\ orch.pc = "ask"
    /\ orch' = [orch EXCEPT !.pc = "call", !.left = n]
    /\ UNCHANGED <<mode, reply, agentVars>>

(* ... or the request raises out of run, as the arguments of a call may:   *)
(* nothing catches what _spawn_agent raises before its agent runs.         *)
OrchRaises ==
    /\ orch.pc \in {"ask", "call", "final"}
    /\ orch' = [orch EXCEPT !.pc = "raised"]
    /\ UNCHANGED <<mode, reply, agentVars>>

(* _spawn_agent: the workspace is made the active one of the task, and the *)
(* agent runs in it.                                                       *)
Spawn(ws) ==
    LET a == orch.seq + 1 IN
    /\ orch.pc = "call"
    /\ a \in Agent
    /\ StartAgent(a, Main, ws)
    /\ orch' = [orch EXCEPT !.pc = "agent", !.seq = a, !.at = a]
    /\ UNCHANGED <<mode, reply, telemetry>>

(* The agent came back; one whose work was cut off is "completed" as well. *)
SpawnReturns ==
    /\ orch.pc = "agent"
    /\ agent[orch.at].pc \in Returned
    /\ node' = [node EXCEPT ![orch.at] =
           IF agent[orch.at].pc = "raised" THEN "failed" ELSE "completed"]
    /\ orch' = AfterOrchCall(orch)
    /\ UNCHANGED <<mode, reply, agent, active, telemetry>>

(* send_update, request_approval and calls that no one knows.              *)
OtherCall ==
    /\ orch.pc = "call"
    /\ orch' = AfterOrchCall(orch)
    /\ UNCHANGED <<mode, reply, agentVars>>

(* At the limit: one more request without tools is the reply; if it is     *)
(* empty a text of the program takes its place.                            *)
OrchIsCut ==
    /\ orch.pc = "final"
    /\ reply' \in Reply \ {Empty}
    /\ orch' = [orch EXCEPT !.pc = "replied"]
    /\ UNCHANGED <<mode, agentVars>>

AgentOfOrch ==
    /\ orch.pc = "agent"
    /\ AgentStep(orch.at)
    /\ UNCHANGED orchVars

OrchStep ==
    \/ OrchAnswers \/ OrchRaises \/ OrchIsCut
    \/ \E n \in 1..MaxCalls : OrchCalls(n)
    \/ \E ws \in Workspaces : Spawn(ws)
    \/ SpawnReturns \/ OtherCall \/ AgentOfOrch
=============================================================================
