SPECIFICATION ServicesSpec
CONSTANTS
    FailureThreshold = 3
    Window = 2
    Recovery = 1
    SuccessThreshold = 3
    HalfOpenMax = 2
    Callers = {c1, c2, c3, c4}
    Jobs = {j1, j2}
    Tasks = {t1, t2, t3, t4}
    Stoppers = {s1}
    None = None
    Profits <- LossAndGain
    Tickets = {p1, p2}
    Keys = {k1, k2}
    Values = {v1, v2}
    Users = {u1, u2}
    L1Size = 1
    L1Ttl = 1
    Miss = Miss
    Signals = {g1}
    Clients = {a1, a2}
    MaxRows = 2
    Nobody = Nobody
    SignalIds = {g1}
    Taps = {q1, q2, q3}
    MaxPushes = 2
    NoSignal = NoSignal
    Length = 3
INVARIANTS
    BreakerBounded
    LoopsAreHandled
    LoneWriteIsSeen
    OneRowPerSignal
    DecidedOncePerPush
    FramesFollowControls
PROPERTIES
    OpenIsProbed
    StopReturns
    OpenIsRejectedOnlyBlind
    RegistryConverges
    LevelsConverge
CHECK_DEADLOCK FALSE
