SPECIFICATION FairSpec
CONSTANTS
    c1 = c1
    c2 = c2
    MaxJobs = 2
    Kinds = {"message", "confirm"}
    LockKinds = {"message"}
    Chats <- MCChats
    LeaseTicks = 1
    NumWorkers = 2
    MaxRestarts = 1
    MaxDbFaults = 1
CHECK_DEADLOCK FALSE
INVARIANTS
    ChatSerial
    LeaseExclusive
    NoOrphanedLock
PROPERTIES
    SingleClaimKeepsOutcome
    ImplementsJobService
    JobsSettle
