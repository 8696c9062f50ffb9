----------------------------- MODULE TeamTools -----------------------------
(***************************************************************************)
(* umabot/agents/team_registry.py, _prepare_team_for_runtime: which tools  *)
(* a team and its members are given, and whether they serve the            *)
(* capabilities that the team asks for.  A tool pattern stands for the     *)
(* tools it fits, a pattern of required_capabilities for the capabilities. *)
(***************************************************************************)
CONSTANTS
    DefaultTools, \* _CAPABILITY_TOOL_PATTERNS: capability -> tools
    Fits,         \* required pattern -> capabilities
    Needs         \* skill -> the tools that its metadata names

(* Overrides of a team replace a default or add a capability.              *)
Patterns(team, c) ==
    IF c \in DOMAIN team.overrides THEN team.overrides[c] ELSE DefaultTools[c]

(* The tools that a team lists; all, if none of those is available.        *)
Pool(team, available) ==
    IF team.tool_pool \cap available = {}
    THEN available ELSE team.tool_pool \cap available

(* _build_capability_catalog, _match_tool_patterns                         *)
Catalog(team, tools) ==
    [c \in DOMAIN DefaultTools \cup DOMAIN team.overrides |->
        Patterns(team, c) \cap tools]

(* _resolve_capabilities_for_team                                          *)
Hits(team, p) == Fits[p] \cap (DOMAIN DefaultTools \cup DOMAIN team.overrides)
MissingPatterns(team) == {p \in team.required : Hits(team, p) = {}}
Matched(team) == UNION {Hits(team, p) : p \in team.required}
WithoutTools(team, tools) == {c \in Matched(team) : Catalog(team, tools)[c] = {}}
Resolved(team, tools) == UNION {Catalog(team, tools)[c] : c \in Matched(team)}

(* capability_preflight["ok"]                                              *)
Able(team, available) ==
    LET tools == Pool(team, available)
    IN  /\ MissingPatterns(team) = {}
        /\ WithoutTools(team, tools) = {}
        /\ Resolved(team, tools) # {} \/ team.required = {}

RuntimePool(team, available) ==
    LET tools == Pool(team, available)
    IN  IF team.required = {} THEN tools ELSE tools \cap Resolved(team, tools)

(* _required_tools_from_skill, for all skills of a member                  *)
SkillTools(member) == UNION {Needs[s] : s \in member.skills}

(* A member may use what it lists, what its skills name, or both at once;  *)
(* one that says nothing may use all of the pool.                          *)
Asked(member, pool) ==
    CASE member.tools # {} /\ SkillTools(member) # {}
           -> member.tools \cap SkillTools(member)
      [] member.tools = {} /\ SkillTools(member) = {} -> pool
      [] OTHER -> member.tools \cup SkillTools(member)

EffectiveTools(team, member, available) ==
    RuntimePool(team, available)
        \cap Asked(member, RuntimePool(team, available))
=============================================================================
