SPECIFICATION FairSpec
CONSTANTS
    Conn <- MCConn
    Worker = {w1, w2}
    Nothing = Nothing
    QueueSize = 1
    MaxRequests <- MCMaxRequests
    Leaver <- MCLeaver
    c1 = c1
    c2 = c2
    w1 = w1
    w2 = w2
INVARIANTS
    TypeOK
    OneOwner
    StopServesQueued
PROPERTIES
    OnlyBadForgotten
    NotClosedWhileServed
    RequestsAnswered
    StopEnds
CHECK_DEADLOCK FALSE
