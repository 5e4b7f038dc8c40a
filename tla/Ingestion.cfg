SPECIFICATION Spec
CONSTANTS
    Versions = {v1, v2}
    Workers = {w1, w2}
    Editors = {e1, e2}
    First = v1
    NoHash = NoHash
    MaxQueue = 2
    MaxEdits = 4
SYMMETRY MCSymmetry
CHECK_DEADLOCK FALSE
INVARIANTS
    OneCopy
    
