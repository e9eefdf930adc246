SPECIFICATION PathSpec
CONSTANTS
    Candles <- MCCandles
    Contexts <- MCContexts
    Top = 20
    MaxBreakouts = 1
    Fresh = 1
    RetestBars = 1
    Signals = {s1}
    Closers = {c1}
    MaxRetries = 2
    MaxTickets = 2
    MaxPositions = 3
INVARIANTS
    
    StopsProtect
    ExpansionSpendsCompression
    DuplicateNeedsLostAnswer
    RegistryMatchesBroker
    ConfirmedCloseIsFlat
CHECK_DEADLOCK FALSE
