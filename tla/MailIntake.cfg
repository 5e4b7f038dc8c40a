SPECIFICATION FairMailSpec
CONSTANTS
    m1 = m1
    m2 = m2
    m3 = m3
    a1 = a1
    a2 = a2
    Mails <- MCMails
    Calls <- MCCalls
    Of <- MCOf
    From <- MCFrom
    Subject <- MCSubject
    RepliesTo <- MCRepliesTo
    Robots = {m2}
    NoRow <- MCNoRow
CHECK_DEADLOCK FALSE
INVARIANTS
    StoredOnce
    OneReceipt
PROPERTIES
    EveryCallEnds
