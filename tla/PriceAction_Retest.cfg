SPECIFICATION ActionSpec
CONSTANTS
    Candles <- FewCandles
    Contexts <- FewContexts
    Top = 20
    MaxBreakouts = 2
    Fresh = 1
    RetestBars = 5
INVARIANTS
    RetestIsRecent
CHECK_DEADLOCK FALSE
