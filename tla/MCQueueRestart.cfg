SPECIFICATION Spec
CONSTANTS
    c1 = c1
    c2 = c2
    u1 = u1
    u2 = u2
    s1 = s1
    o1 = o1
    o2 = o2
    Channels <- MCChannels
    Live <- MCLive
    Messages = {u1, u2, s1, o2}
    ChanOf <- MCChanOf
    KindOf <- MCKindOf
    Agent = Agent
    Pushers = {}
    NoChannel = NoChannel
    NoMessage = NoMessage
    Debounce = TRUE
    MaxRestarts = 2
    MaxFailures = 0
    MaxIntercepts = 1
INVARIANTS
    FileIsSound
    UserOrder
