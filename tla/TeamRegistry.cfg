SPECIFICATION RegistrySpec
CONSTANTS
    Shared = {s1}
    Key = {k1, k2}
    MaxWrites = 2
INVARIANT ReportedIsTaken
PROPERTY TeamsAreKept
