SPECIFICATION FairControlSpec
CONSTANTS
    Callers = {t1, t2}
    Equities = {70, 85, 95, 110}
    Floor = 80
    HardPct = 20
    FlashPct = 12
    Window = 1
    Callbacks = 2
    MaxReadings = 2
INVARIANTS
    CallbacksOnce
PROPERTIES
    StopOutlastsCallbacks
    PassedIsNearPeak
    EveryCallReturns
    ActiveSwitchAdmitsNothing
