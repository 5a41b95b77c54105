SPECIFICATION FairSpec
CONSTANTS
    a = a
    b = b
    ea1 = ea1
    ea2 = ea2
    Worker = Worker
    NoOp = NoOp
    Ops = {a, b, ea1, ea2}
    KindOf <- MCKindOf
    TargetOf <- MCTargetOf
    After <- MCAfter
    Enqueuers = {e1}
    Background = {}
    MaxFaults = 2
    MaxRetries = 1
    MaxRestarts = 1
INVARIANTS
    OutboxOK
    SendNotLost
    CopiesArePaidFor
PROPERTIES
    QueueDrains
CHECK_DEADLOCK FALSE
