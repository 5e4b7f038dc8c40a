SPECIFICATION Spec
CONSTANTS
    People <- MCPeople
    Founders <- MCFounders
    Crew <- MCCrew
    r1 = r1
    r2 = r2
    Requests = {r1, r2}
    Offered <- MCOffered
    MaxRequests = 3
    Absent = Absent
    Same = Same
    None = None
INVARIANTS
    TypeOK
    OwnerRemains
PROPERTIES
    NobodyOvertaken
SYMMETRY Symmetry
CHECK_DEADLOCK FALSE
