SPECIFICATION TaskFairSpec
CONSTANTS
    once = once
    daily = daily
    MaxJobs = 2
    Kinds = {"task_run"}
    LockKinds = {}
    Chats = {daily}
    Tasks = {daily}
    Periodic = {daily}
    LeaseTicks = 1
    TaskLeaseTicks = 1
    NumWorkers = 1
    MaxRestarts = 1
    MaxDbFaults = 1
    MaxRuns = 2
    MaxNow = 1
    Hour = 2
    Day = 6
CHECK_DEADLOCK FALSE
PROPERTY
    DueTaskRuns
