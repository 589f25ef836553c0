SPECIFICATION FairSpec
CONSTANTS
    m1 = m1
    m2 = m2
    m3 = m3
    NoMsg = NoMsg
    Producers = {p1, p2}
    Messages = {m1, m2, m3}
    MsgLen <- MCLen
    MsgLevel <- MCLevel
    Safe = TRUE
    InitialSize = 2
    Threshold = 5
    Increment = 1
    MaxFile = 2
INVARIANTS
    LoggerInv
PROPERTIES
    ServiceSpec
    MessageGetsWritten
    PushReturns
    StopReturnsUnlessMissed
