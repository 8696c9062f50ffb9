---------------------------- MODULE SpawnedAgent ----------------------------
(***************************************************************************)
(* umabot/agents/agent.py: specialist agents, each with its own loop of    *)
(* model requests and tool calls, and the guard that stands in front of    *)
(* their tools (umabot/worker.py).  An agent runs in an asyncio task, and  *)
(* the active workspace is a variable of that task (tools/workspace.py),   *)
(* not of the agent.  A model request ends with an answer or an exception, *)
(* a tool call always ends.  Texts, attachments and logs are left out.     *)
(***************************************************************************)
EXTENDS Naturals

CONSTANTS
    Agent,       \* the agents of a run: 1, 2, ...
    AgentLimit,  \* max_agent_iterations
    MaxCalls,    \* bound of the model: tool calls in one answer
    Tools,       \* what a call may name; a shell command counts as a tool
    Registered,  \* the tools the registry knows
    Allowed,     \* allowed_tools of the run
    Red,         \* tools of risk RED
    Shell,       \* the calls of shell.run, by their command
    Rule,        \* what the declarative rules say of a tool
    Workspaces,
    Eligible,    \* <<tool, workspace>> that the auto approval accepts
    AutoWorkspaces \* auto_approve_workspaces; all of them if empty

NoTool == "none"
NoWorkspace == "none"

ASSUME AgentAssumption ==
    /\ 1 \in Agent /\ Agent \subseteq Nat \ {0}
    /\ \A a \in Agent : 1..a \subseteq Agent
    /\ AgentLimit \in Nat \ {0}
    /\ MaxCalls \in Nat \ {0}
    /\ Red \cup Shell \subseteq Registered /\ Registered \subseteq Tools
    /\ NoTool \notin Tools /\ NoWorkspace \notin Workspaces
    /\ Allowed \subseteq Registered
    /\ Rule \in [Tools -> {"inherit", "allow", "deny", "require_confirmation"}]
    /\ Eligible \subseteq Tools \X Workspaces
    /\ AutoWorkspaces \subseteq Workspaces

VARIABLES
    mode,      \* policy.approval_mode
    agent,     \* the loop of each agent
    node,      \* the status last shown of each agent
    active,    \* the active workspace of each asyncio task
    telemetry  \* how each shell command ended last: _run_shell_telemetry

agentVars == <<agent, node, active, telemetry>>

Main == 0                   \* the task of the worker loop
Task == {Main} \cup Agent   \* and the tasks of asyncio.gather
Modes == {"normal", "auto_approve_workspace"}
Returned == {"ok", "cut", "raised"}
Idle == [pc |-> "none", iter |-> 0, left |-> 0, task |-> Main,
         home |-> NoWorkspace, last |-> NoTool, lastIn |-> NoWorkspace]

AgentTypeOK ==
    /\ mode \in Modes
    /\ agent \in [Agent ->
           [pc : {"none", "ask", "call", "final"} \cup Returned,
            iter : 0..AgentLimit, left : 0..MaxCalls, task : Task,
            home : Workspaces \cup {NoWorkspace},
            last : Tools \cup {NoTool},
            lastIn : Workspaces \cup {NoWorkspace}]]
    /\ node \in [Agent -> {"none", "queued", "running", "completed",
                           "truncated", "failed"}]
    /\ active \in [Task -> Workspaces \cup {NoWorkspace}]
    /\ telemetry \in [Shell -> {"none", "ok", "bad"}]

AgentInit ==
    /\ mode \in Modes
    /\ agent = [a \in Agent |-> Idle]
    /\ node = [a \in Agent |-> "none"]
    /\ active = [t \in Task |-> NoWorkspace]
    /\ telemetry = [c \in Shell |-> "none"]

-----------------------------------------------------------------------------
(* _should_auto_approve_tool_confirmation                                  *)
AutoApproves(t, ws) ==
    /\ mode = "auto_approve_workspace"
    /\ ws # NoWorkspace
    /\ AutoWorkspaces = {} \/ ws \in AutoWorkspaces
    /\ t \in Allowed
    /\ <<t, ws>> \in Eligible

(* Whether the guard lets a call pass.  `refused` stands for the reasons   *)
(* that are not modelled: arguments, the security policy, the target.      *)
GuardPasses(t, ws, refused) ==
    \/ mode # "auto_approve_workspace"
    \/ /\ t \in Allowed
       /\ ~refused
       /\ Rule[t] # "deny"
       /\ Rule[t] = "require_confirmation" => AutoApproves(t, ws)
       /\ t \in Red => AutoApproves(t, ws)

-----------------------------------------------------------------------------
(* Mutation of Enter: one variable for all tasks.                          *)
Enter_Shared(task, ws) == active' = [t \in Task |-> ws]

(* set_active_workspace, in the task that the agent will run in.           *)
Enter(task, ws) == active' = [active EXCEPT ![task] = ws]

(* A new agent; its status goes from queued to running at once.            *)
StartAgent(a, task, ws) ==
    /\ agent' = [agent EXCEPT ![a] =
                    [Idle EXCEPT !.pc = "ask", !.task = task, !.home = ws]]
    /\ node' = [node EXCEPT ![a] = "running"]
    /\ Enter(task, ws)

(* run: the model answers with a text and the agent is done, ...           *)
AgentAnswers(a) ==
    /\ agent[a].pc = "ask"
    /\ agent' = [agent EXCEPT ![a].pc = "ok"]
    /\ node' = [node EXCEPT ![a] = "completed"]
    /\ UNCHANGED <<mode, active, telemetry>>

(* ... or with n tool calls, ...                                           *)
AgentCalls(a, n) ==
    /\ agent[a].pc = "ask"
    /\ agent' = [agent EXCEPT ![a].pc = "call", ![a].left = n]
    /\ UNCHANGED <<mode, node, active, telemetry>>

(* ... or the request raises, which run does not catch.                    *)
AgentRaises(a) ==
    /\ agent[a].pc \in {"ask", "final"}
    /\ agent' = [agent EXCEPT ![a].pc = "raised"]
    /\ UNCHANGED <<mode, node, active, telemetry>>

(* Mutation of AfterCall: the iterations are not counted.                  *)
AfterCall_NoLimit(r) ==
    IF r.left > 1 THEN [r EXCEPT !.left = @ - 1]
    ELSE [r EXCEPT !.left = 0, !.pc = "ask"]

(* The next call of the answer, the next iteration or the end of them.     *)
AfterCall(r) ==
    IF r.left > 1 THEN [r EXCEPT !.left = @ - 1]
    ELSE IF r.iter + 1 < AgentLimit
         THEN [r EXCEPT !.left = 0, !.iter = @ + 1, !.pc = "ask"]
         ELSE [r EXCEPT !.left = 0, !.iter = @ + 1, !.pc = "final"]

(* After the last call of the last iteration "truncated" is shown.         *)
ShowAfterCall(a) ==
    node' = IF AfterCall(agent[a]).pc = "final"
            THEN [node EXCEPT ![a] = "truncated"] ELSE node

(* _execute_tool: the guard is asked, with the workspace active in the     *)
(* task, and a registered tool is called.  Every end of it, an exception   *)
(* of the tool too, is a result for the model.  A shell command that ended *)
(* is in the telemetry; one that raised has no command there.              *)
ToolRuns(a, t) ==
    /\ agent[a].pc = "call"
    /\ GuardPasses(t, active[agent[a].task], FALSE)
    /\ t \in Registered
    /\ agent' = [agent EXCEPT ![a] =
                    [AfterCall(agent[a]) EXCEPT
                        !.last = t, !.lastIn = active[agent[a].task]]]
    /\ ShowAfterCall(a)
    /\ \/ t \in Shell /\ \E end \in {"ok", "bad"} :
                            telemetry' = [telemetry EXCEPT ![t] = end]
       \/ UNCHANGED telemetry
    /\ UNCHANGED <<mode, active>>

(* A call that the guard or the registry refuses only yields a result.     *)
ToolRefused(a, t) ==
    /\ agent[a].pc = "call"
    /\ \/ \E r \in BOOLEAN : ~GuardPasses(t, active[agent[a].task], r)
       \/ t \notin Registered
    /\ agent' = [agent EXCEPT ![a] = AfterCall(@)]
    /\ ShowAfterCall(a)
    /\ UNCHANGED <<mode, active, telemetry>>

(* At the limit: one more request without tools, and a truncated result.   *)
AgentIsCut(a) ==
    /\ agent[a].pc = "final"
    /\ agent' = [agent EXCEPT ![a].pc = "cut"]
    /\ UNCHANGED <<mode, node, active, telemetry>>

AgentStep(a) ==
    \/ AgentAnswers(a)
    \/ \E n \in 1..MaxCalls : AgentCalls(a, n)
    \/ AgentRaises(a)
    \/ \E t \in Tools : ToolRuns(a, t) \/ ToolRefused(a, t)
    \/ AgentIsCut(a)

-----------------------------------------------------------------------------
(* In auto_approve_workspace mode a RED tool is only called in the         *)
(* workspace that its agent was given, and that workspace's auto approval  *)
(* accepts the call: the workspace of an agent or task before does not     *)
(* count.  The guard reads a variable of the task, set by someone else.    *)
RedOnlyAtHome ==
    mode = "auto_approve_workspace" =>
        \A a \in Agent : agent[a].last \in Red =>
            /\ agent[a].lastIn = agent[a].home
            /\ <<agent[a].last, agent[a].home>> \in Eligible
            /\ AutoWorkspaces = {} \/ agent[a].home \in AutoWorkspaces
=============================================================================
