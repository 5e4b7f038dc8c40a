SPECIFICATION Spec
CONSTANTS
    Channel = "WEB_CHAT"
    w1 = w1
    w2 = w2
    c1 = c1
    Runners = {w1}
    Checkers = {c1}
    MaxMsgs = 1
    MaxRedeliveries = 0
    MaxRegens = 0
    MaxAborts = 0
    MaxActs = 1
PROPERTIES
    HumanControlBlocksReplies
CHECK_DEADLOCK FALSE
