SPECIFICATION FairSpec
CONSTANTS
    Channel = "EMAIL"
    w1 = w1
    w2 = w2
    c1 = c1
    Runners = {w1, w2}
    Checkers = {c1}
    MaxMsgs = 1
    MaxRedeliveries = 1
    MaxRegens = 3
    MaxAborts = 1
    MaxActs = 2
INVARIANTS
    PromisedTicketExists
    AtMostOneAnswer
    SideEffectsHaveRun
    RunSettled
    
PROPERTIES
    TakeoverDrains
    KillSwitchDrains
    EventuallyHandled
CHECK_DEADLOCK FALSE
