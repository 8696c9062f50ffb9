SPECIFICATION ConfirmationSpec
CONSTANTS
    phone = phone
    panel = panel
    j1 = j1
    j2 = j2
    w1 = w1
    w2 = w2
    None = None
    Chats = {phone, panel}
    Job = {j1, j2}
    Worker = {w1, w2}
    MaxRequests = 2
    MaxTakes = 2
    MaxReloads = 1
    MaxRestarts = 1
    MaxFaults = 1
SYMMETRY MCSymmetry
CHECK_DEADLOCK FALSE
INVARIANTS
    SingleUse
    CallsAreApproved
    ApprovalNotLost
