SPECIFICATION FairSpec
CONSTANTS
    Requests <- MCRequests
    Configs <- MCConfigs
    Kinds <- MCKinds
    Intents = {"BILLING", "OTHER"}
    Scores = {20, 90}
    Replies = {"none", "answer"}
    Chunks = {1, 2}
    HitScores = {30, 80}
    Listed = 2
    Candidates = 2
    Kept = 2
    RrfK = 60
    KeywordPart = 30
CHECK_DEADLOCK FALSE
INVARIANTS
    HandoffStands
    SentTextIsEarned
    
PROPERTIES
    ImplementsVerdict
