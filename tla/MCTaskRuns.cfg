SPECIFICATION TaskSpec
CONSTANTS
    once = once
    daily = daily
    MaxJobs = 2
    Kinds = {"task_run"}
    LockKinds = {}
    Chats = {once}
    Tasks = {once}
    Periodic = {}
    LeaseTicks = 1
    TaskLeaseTicks = 1
    NumWorkers = 2
    MaxRestarts = 1
    MaxDbFaults = 1
    MaxRuns = 2
    MaxNow = 0
    Hour = 2
    Day = 6
CHECK_DEADLOCK FALSE
INVARIANTS
    OrphanRunsAreOnRecord
    NoSingleRunSticks
PROPERTY
    QuietCancelIsFinal
