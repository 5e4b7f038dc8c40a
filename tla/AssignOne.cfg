SPECIFICATION MCSpec
CONSTANTS
    t1 = t1
    t2 = t2
    NoTeam = NoTeam
    c1 = c1
    s1 = s1
    Agents <- MCAgents
    Teams <- MCTeams
    Roster <- MCRoster
    Convs = {c1}
    Sessions = {s1}
    MaxTickets = 1
    MaxStaffing = 1
PROPERTIES
    TeamsRotate
    TransferSyncs
    FromCurrentTeam
    
