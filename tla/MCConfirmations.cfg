SPECIFICATION Spec
CONSTANTS
    p1 = p1
    p2 = p2
    a1 = a1
    None = None
    Prompts = {p1, p2}
    Teardown = {p1, p2}
    Approvals = {a1}
    HasButtons = TRUE
    MaxSaid = 2
    MaxFailures = 1
SYMMETRY Interchangeable
INVARIANTS
    ConsentIsGenuine
    SettledOnce
    AllowedWasPressed
    DeclineIsFinal
PROPERTIES
    ImplementsConsent
CHECK_DEADLOCK FALSE
