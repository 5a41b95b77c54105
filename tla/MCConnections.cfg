SPECIFICATION ConnectionsSpec
CONSTANTS
    c1 = c1
    c2 = c2
    t1 = t1
    t2 = t2
    h1 = h1
    r1 = r1
    r2 = r2
    k1 = k1
    k2 = k2
    v1 = v1
    Channels <- MCChannels
    Calls <- MCCalls
    Handlers <- MCHandlers
    Requests <- MCRequests
    Clerks <- MCClerks
    Visits <- MCVisits
    SignIns <- MCSignIns
    Labels = {"work", "home"}
    Declared = {"work"}
    Seeded = {"work"}
    Fields = {"id", "key"}
    MaxFlows = 3
    MaxAdds = 2
    MaxGrants = 2
    MaxAtDesk = 2
    MaxTokens = 2
    MaxBusy = 2
    Budgets <- MCBudgets
    MaxFaults = 1
SYMMETRY MCSymmetry
INVARIANTS
    
    RegistrationHolds
    ToolsFollowSets
    
CHECK_DEADLOCK FALSE
