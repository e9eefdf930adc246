SPECIFICATION Spec
CONSTANTS
    Signals = {s1}
    Closers = {c1}
    MaxRetries = 2
    MaxTickets = 2
    MaxPositions = 2
INVARIANTS
    CloseAdvances
