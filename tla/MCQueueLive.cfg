SPECIFICATION FairSpec
CONSTANTS
    c1 = c1
    c2 = c2
    u1 = u1
    u2 = u2
    s1 = s1
    o1 = o1
    o2 = o2
    Channels <- MCChannels
    Live <- MCLive
    Messages = {u1, o1}
    ChanOf <- MCChanOf
    KindOf <- MCKindOf
    Agent = Agent
    Pushers = {g1}
    NoChannel = NoChannel
    NoMessage = NoMessage
    Debounce = TRUE
    MaxRestarts = 0
    MaxFailures = 1
    MaxIntercepts = 0
INVARIANTS
    QueueOK
    FiredTimerMeansIdle
PROPERTIES
    StrandedOnlyByArrival
    AllHandled
