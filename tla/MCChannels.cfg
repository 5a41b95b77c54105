CONSTANTS
    main = main
    side = side
    call = call
    Nothing = Nothing
    Bridge = Bridge
    Reaper = Reaper
    Router = Router
    Names <- MCNames
    Ephemeral <- MCEphemeral
    Configured <- MCConfigured
    Visible <- MCHidden
    Callers <- MCCallers
    MaxBots = 3
    MaxCalls = 2
    MaxReaps = 1
    MaxFaults = 1
SPECIFICATION ChannelsSpec
INVARIANTS
    NothingLeaks
    
PROPERTIES
    ComesUp
CHECK_DEADLOCK FALSE
