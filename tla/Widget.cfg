SPECIFICATION WidgetSpec
CONSTANTS
    t1 = t1
    t2 = t2
    Pages = {t1, t2}
    k1 = k1
    k2 = k2
    Keys = {k1, k2}
    Emails = {a1}
    e1 = e1
    e2 = e2
    Editors = {e1, e2}
    Hosts = {h1}
    PageHost = h1
    Max = 2
    Window = 1
    Horizon = 2
    MaxSessions = 2
    MaxEdits = 2
    MaxStatus = 1
    Absent = Absent
INVARIANTS
    WindowRespected
    ActiveHasDomains
    OneThread

    
SYMMETRY Symmetry
CHECK_DEADLOCK FALSE
