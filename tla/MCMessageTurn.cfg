SPECIFICATION TurnSpec
CONSTANTS
    read = read
    write = write
    edit = edit
    send = send
    shell = shell
    wipe = wipe
    fetch = fetch
    ghost = ghost
    MaxMessages = 2
    MaxCalls = 2
    Tools <- MCTools
    Registered = {read, write, edit, send, shell, wipe, fetch}
    Red = {send, shell}
    Gmail = {fetch}
    Eligible = {edit, shell}
    Rule <- MCRule
CHECK_DEADLOCK FALSE
INVARIANTS
    RedRunsOnlyOnYes
    GmailNeverFetches
    AnsweredOnce
    GmailDroppedOnlyByRule
    FollowUpComplete
