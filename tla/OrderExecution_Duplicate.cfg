SPECIFICATION Spec
CONSTANTS
    Signals = {s1}
    Closers = {}
    MaxRetries = 2
    MaxTickets = 2
    MaxPositions = 2
INVARIANTS
    OnePositionPerSignal
