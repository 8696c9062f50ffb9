SPECIFICATION Spec
CONSTANTS
    Agent <- MCAgent
    AgentLimit = 1
    MaxCalls = 1
    Tools <- MCTools
    Registered <- MCTools
    Allowed <- MCTools
    Red <- MCRed
    Shell <- MCShell
    Rule <- MCRule
    Workspaces <- MCWorkspaces
    Eligible <- MCEligible
    AutoWorkspaces = {}
    OrchLimit = 2
    Reply <- MCReply
    Empty <- MCEmpty
    Teams <- MCTeams
    Fallback = {TRUE, FALSE}
    DefaultTools <- MCDefaultTools
    Fits <- MCFits
    Needs <- MCNeeds
    Value <- MCValue
    Known <- MCKnown
    MaxRetries = 2
    FailOnDefer = TRUE
    RequireBlockers = TRUE
    EnforceShell = TRUE
    Verified <- MCVerified
    TeamVerifies = TRUE
    Category <- MCCategory
    FailureOf <- MCFailureOf
    Detail = {1}
INVARIANTS
    RedOnlyAtHome
    ChainInOrder
    EndingsAgree
PROPERTIES
    CompletedIsEarned
    RunEnds
