SPECIFICATION StreamSpec
CONSTANTS
    Chats = {1}
    RichMemory = 1
    WebhookRetries = 2
    PlainLimit = 1
    StatusLimit = 2
    ReplyLimit = 2
    MaxUpdates = 2
    MaxRebuilds = 1
    MaxFaults = 1
    MaxEvents = 4
    MaxBreaks = 1
INVARIANTS
    ReplyIsWhole
    

    
CHECK_DEADLOCK FALSE
