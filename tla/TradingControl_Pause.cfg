SPECIFICATION ControlSpec
CONSTANTS
    Callers = {t1, t2}
    Equities = {70, 95, 100}
    Floor = 80
    HardPct = 20
    FlashPct = 10
    Window = 1
    Callbacks = 1
    MaxReadings = 2
INVARIANT PauseActivates
