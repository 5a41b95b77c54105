SPECIFICATION FairSpec
CONSTANTS
    c1 = c1
    c2 = c2
    Channels <- MCOne
    Texts = {"stop", "new", "login", "status", "pressYes", "yes", "oauth", "api", "key", "cancel"}
    OtherTexts = {"yes"}
    Builtins = {"stop", "new", "login"}
    Local = TRUE
    HasProd = TRUE
    AsksMidTurn = FALSE
    MaxRetries = 1
    NotifyCap = 1
    MaxMessages = 4
    MaxQueue = 1
    MaxFlows = 2
    MaxAgents = 2
INVARIANTS
    TurnsAreAskedFor
    ClearedStaysCleared
PROPERTIES
    PromptsAreTheUsers
    SignInSettles
CHECK_DEADLOCK FALSE
