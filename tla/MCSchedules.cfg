SPECIFICATION Spec
CONSTANTS
    s1 = s1
    s2 = s2
    work = work
    c1 = c1
    Loop = Loop
    None = None
    Ids = {s1, s2}
    Channels = {work}
    Callers = {c1}
    Persisted <- MCPersisted
    MaxTime = 1
    MaxCalls = 1
    MaxFaults = 1
INVARIANTS
    FiresAreSound
PROPERTIES
    Settles
CHECK_DEADLOCK FALSE
