SPECIFICATION FairSpec
CONSTANTS
    Publishers = {"p", "q"}
    Sources <- MCSources
    Automations <- MCAutomations
    Rule <- MCRule
    Order <- MCOrder
    Switchable = {"again"}
    Tags = {"x"}
    Teams = {"billing", "support"}
    Tickets = {"t0", "t1", "t2"}
    Manual = "t0"
    MaxEdits = 1
CHECK_DEADLOCK FALSE
INVARIANTS
    SessionsBounded
    RecordsTellTruth
    
PROPERTIES
    EventsEnd
