SPECIFICATION FairSpec
CONSTANTS
    Agents = {a1}
    Visitors = {v1}
    Conversations = {c1}
    MaxEvents = 2
    MaxMoves = 3
    None = None
    Sessions = {s1}
    Notes = {n1}
    Requests = {r1, r2}
    Choices <- MCChoices
CHECK_DEADLOCK FALSE
INVARIANTS
    OnceInOrder
PROPERTIES
    BroadcastSweeps
    MuteDrains
    
