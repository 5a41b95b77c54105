SPECIFICATION WorkspaceSpec
CONSTANTS
    v = v
    r1 = r1
    t1 = t1
    t2 = t2
    e1 = e1
    b1 = b1
    b2 = b2
    d1 = d1
    d2 = d2
    x1 = x1
    o1 = o1
    Repos <- MCRepos
    Declared <- MCDeclared
    Vault = v
    Calls <- MCCalls
    Edits <- MCEdits
    Branches <- MCBranches
    Owners <- MCOwners
    DevCalls <- MCDevCalls
    Changes <- MCChanges
    Depth = 1
    MaxTime = 1
    MaxCommits = 2
    MaxBusy = 2
    MaxBegun = 3
    MaxFaults = 1
SYMMETRY MCSymmetry
INVARIANTS
    
    
    PushWasGranted
    
CHECK_DEADLOCK FALSE
