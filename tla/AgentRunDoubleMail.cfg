SPECIFICATION Spec
CONSTANTS
    Channel = "EMAIL"
    w1 = w1
    w2 = w2
    c1 = c1
    Runners = {w1}
    Checkers = {c1}
    MaxMsgs = 1
    MaxRedeliveries = 1
    MaxRegens = 0
    MaxAborts = 1
    MaxActs = 0
INVARIANTS
    NoDuplicateMail
CHECK_DEADLOCK FALSE
