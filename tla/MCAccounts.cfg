SPECIFICATION FairSpec
CONSTANTS
    e1 = e1
    Emails = {e1}
    VerifyTokens = {v1, v2}
    ResetTokens = {t1, t2, t3}
    Keys = {k1}
    Requests = {r1, r2}
    None = None
    MaxResets = 3
    OpSets <- MCOpSets
    FirstUsers <- MCFirstUsers
INVARIANTS
    SpentLinksStaySpent
    ClosedIsClosed
PROPERTIES
    NothingIsUndone
    Answered
CHECK_DEADLOCK FALSE
