SPECIFICATION Spec
CONSTANTS
    Server = {1, 2}
    Http = {2}
    Required = {2}
    Caller = {c1, c2}
    Starter = starter
    ServerIds = {5}
    MaxRequests = 6
    MaxNoise = 1
INVARIANTS
    AnswerIsOwn
PROPERTIES
    CallsReturn
CHECK_DEADLOCK FALSE
