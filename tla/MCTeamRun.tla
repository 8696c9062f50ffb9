----------------------------- MODULE MCTeamRun -----------------------------
(* A RED tool that is eligible in one of two workspaces, a shell command,  *)
(* two agents, one retry; a team of each kind, and one that asks for a     *)
(* capability that no tool here serves.                                    *)
EXTENDS TeamRun, PolicyRules, TLC, SequencesExt

MCAgent == 1..2
MCTools == {"red", "sh"}
MCRed == {"red"}
MCShell == {"sh"}
MCWorkspaces == {"w1", "w2"}
MCEligible == {<<"red", "w1">>, <<"sh", "w1">>, <<"sh", "w2">>}
MCVerified == {1}
MCCategory == {"unknown", "test_failure"}
MCFailureOf == [c \in MCShell |-> "test_failure"]
R(status, full, failed) ==
    [status |-> status, full |-> full, failed |-> failed, about |-> {}]
MCEmpty == R("empty", FALSE, {})
MCReply == {MCEmpty, R("none", FALSE, {}), R("completed", TRUE, {}),
            R("completed", TRUE, {"sh"}), R("blocked", TRUE, {"sh"})}

-----------------------------------------------------------------------------
(* The rules: the first is overruled by the second, which is compiled to   *)
(* one for all roles, and the third is for another channel.                *)
MCValue == {"red", "sh", "listener", "admin", "listner", "telegram", "web"}
MCKnown == [f \in Enumerated |->
               IF f = "connector_roles" THEN {"listener", "admin"} ELSE {}]
NoMatch == [f \in Field |-> {}]
ToolRule(priority, match, effect) ==
    [enabled |-> TRUE, sound |-> TRUE, priority |-> priority, match |-> match,
     tool |-> effect, intent |-> {}]
MCRules ==
    <<ToolRule(2, [NoMatch EXCEPT !["tools"] = {"red"}], "require_confirmation"),
      ToolRule(1, [NoMatch EXCEPT !["connector_roles"] = {"listner"}], "allow"),
      ToolRule(0, [NoMatch EXCEPT !["channels"] = {"web"}], "deny")>>
MCContext == [NoMatch EXCEPT !["connector_roles"] = {"admin"},
                             !["channels"] = {"telegram"}]
MCRule == [t \in MCTools |-> "allow"]
ASSUME TheRulesSaySo ==
    /\ \A t \in MCTools : DecideTool(MCRules, MCContext, t) = MCRule[t]
    /\ FilterTools(MCRules, MCContext, MCTools, TRUE) = MCTools

(* The loop of decide_tool, over the rules sorted as _compile_rules does   *)
(* it, is the reference for DecideTool.                                    *)
Scan(rules, context, t) ==
    LET order == SetToSortSeq(Live(rules), LAMBDA i, j : Before(rules, i, j))
        from[k \in 1..(Len(order) + 1)] ==
            IF k > Len(order) THEN "inherit"
            ELSE LET rule == rules[order[k]]
                 IN  IF Matches(rule, About(context, t)) /\ rule.tool # "inherit"
                     THEN rule.tool ELSE from[k + 1]
    IN  from[1]

SmallRules ==
    {[enabled |-> e, sound |-> TRUE, priority |-> p, match |-> m, tool |-> f,
      intent |-> {}] :
        e \in BOOLEAN, p \in 0..1, f \in ToolEffects,
        m \in {NoMatch, [NoMatch EXCEPT !["tools"] = {"red"}],
               [NoMatch EXCEPT !["connector_roles"] = {"listener"}]}}

ASSUME DecideToolIsTheScan ==
    \A rules \in SmallRules \X SmallRules \X SmallRules, t \in MCTools :
        DecideTool(rules, MCContext, t) = Scan(rules, MCContext, t)

-----------------------------------------------------------------------------
MCDefaultTools == ("build_and_test" :> {"sh"}) @@ ("browser_navigation" :> {})
MCFits == ("build_*" :> {"build_and_test"}) @@ ("browser_*" :> {"browser_navigation"})
MCNeeds == ("tester" :> {"sh"})
Team(kind, required) ==
    [kind |-> kind, tool_pool |-> {}, required |-> required, overrides |-> <<>>]
MCTeams == {Team(kind, {}) : kind \in {"chain", "parallel"}}
               \cup {Team("orchestrator_worker", {p}) : p \in DOMAIN MCFits}
=============================================================================
