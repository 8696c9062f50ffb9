---------------------------- MODULE PolicyRules ----------------------------
(***************************************************************************)
(* umabot/policy/rules.py: DeclarativePolicyEngine.  The rules of the      *)
(* configuration are compiled once; the first that matches and has an      *)
(* effect of the kind asked for decides.  A pattern stands for the values  *)
(* it fits.                                                                *)
(***************************************************************************)
EXTENDS Integers

CONSTANTS
    Value,  \* what a rule may list and a context may show
    Known   \* the values that the code knows for the fields it enumerates

Field == {"connectors", "connector_roles", "channels", "directions", "kinds",
          "tools", "importance", "actions", "needs_admin", "admin_explicit"}
Enumerated == {"connector_roles", "directions", "importance", "actions"}
ToolEffects == {"inherit", "allow", "deny", "require_confirmation"}

ASSUME RulesAssumption == Known \in [Enumerated -> SUBSET Value]

(* One rule as the configuration has it.  It is sound if it has a match    *)
(* and an apply part and all its effects are known; intent is what it says *)
(* of a listener's message, {} if nothing.                                 *)
RuleSet ==
    [enabled : BOOLEAN, sound : BOOLEAN, priority : Int,
     match : [Field -> SUBSET Value], tool : ToolEffects, intent : SUBSET Value]

(* What a context shows: two values for "connectors" (the connector and    *)
(* the one the message came from), none for what it leaves open.           *)
Context == [Field -> SUBSET Value]

(* _compile_rules keeps the rules in order of their priority, and those of *)
(* one priority as they were written.                                      *)
Live(rules) == {i \in DOMAIN rules : rules[i].enabled /\ rules[i].sound}

Before(rules, i, j) ==
    \/ rules[i].priority < rules[j].priority
    \/ rules[i].priority = rules[j].priority /\ i < j

(* _norm_patterns, _norm_enum_list: a value nobody knows is left out, and  *)
(* a field that had only such values restricts nothing.                    *)
Normalized(rule, f) ==
    IF f \in Enumerated THEN rule.match[f] \cap Known[f] ELSE rule.match[f]

(* _matches: every field that the rule restricts is shown one of its       *)
(* values; what the context leaves open matches no restriction.            *)
Matches(rule, context) ==
    \A f \in Field :
        Normalized(rule, f) # {} => Normalized(rule, f) \cap context[f] # {}

(* The first of some rules that matches, as a set.                         *)
Deciding(rules, among, context) ==
    {i \in among :
        /\ Matches(rules[i], context)
        /\ \A j \in among :
               Matches(rules[j], context) => i = j \/ Before(rules, i, j)}

ForTools(rules) == {i \in Live(rules) : rules[i].tool # "inherit"}
ForIntents(rules) == {i \in Live(rules) : rules[i].intent # {}}

About(context, t) == [context EXCEPT !["tools"] = {t}]

DecideTool(rules, context, t) ==
    LET first == Deciding(rules, ForTools(rules), About(context, t))
    IN  IF first = {} THEN "inherit" ELSE rules[CHOOSE i \in first : TRUE].tool

(* No tool is shown, so a rule that names tools does not match.            *)
DecideIntent(rules, context) ==
    LET first == Deciding(rules, ForIntents(rules), [context EXCEPT !["tools"] = {}])
    IN  IF first = {} THEN {} ELSE rules[CHOOSE i \in first : TRUE].intent

(* filter_tools_for_context; drop stands for drop_confirm_required, which  *)
(* a run of agents sets, as nobody asks for them.                          *)
FilterTools(rules, context, tools, drop) ==
    {t \in tools :
        /\ DecideTool(rules, context, t) # "deny"
        /\ drop => DecideTool(rules, context, t) # "require_confirmation"}
=============================================================================
