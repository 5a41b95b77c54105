SPECIFICATION FairSpec
CONSTANTS
    c1 = c1
    Channels = {c1}
    UserMsgs = {u1}
    OtherMsgs = {o1}
    ChanOf <- MCChanOf
    None = None
    MaxIterations = 3
    MaxCrashes = 1
    MaxChanges = 1
    MaxOAuth = 1
INVARIANTS
    LoopOK
PROPERTIES
    HopsKeepNonUser
    ChangeEndsIteration
CHECK_DEADLOCK FALSE
