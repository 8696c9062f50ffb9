SPECIFICATION ApprovalFairSpec
CONSTANTS
    admin = admin
    phone = phone
    MaxJobs = 2
    Kinds <- MCKinds
    Chats = {admin, phone}
    Admin = admin
    LeaseTicks = 1
    NumWorkers = 2
    LockKinds <- MCLockKinds
    MaxRestarts = 0
    MaxDbFaults = 1
    ApprovalTicks = 2
    MaxAsks = 2
CHECK_DEADLOCK FALSE
INVARIANTS
    ApprovedOnlyOnYes
PROPERTIES
    MissedOnlyWhenNoLoopIsFree
    RequestsEnd
