SPECIFICATION FairSpec
CONSTANTS
    Minute = 2
    Day = 8
    Week = 3
    Schedule <- MCSchedule
    Holidays = {3}
    NoTime = NoTime
    Lookahead = 9
    Safety = 20
    HasHours = TRUE
    Sessions = {"s", "t"}
    Beat = "beat"
    Priorities = {"NORMAL", "HIGH"}
    Policies <- MCPolicies
    AnyPriority = "any"
    NoRow = NoRow
    Horizon = 7
    MaxOps = 2
    MaxFailures = 1
CHECK_DEADLOCK FALSE
INVARIANTS
    
    
    HoursAgree
PROPERTIES
    LateIsNoticed
