SPECIFICATION LedgersSpec
CONSTANTS
    Tickets = {t1, t2, t3}
    MaxTickets = 2
    Orders = {o1, o2, o3}
    Loops = {1, 2}
    MaxRetries = 2
    QueueSize = 2
    DeadSize = 1
    None = None
    Users = {u1}
    Provider = "stripe"
    NonceMax = 2
    Plans = {"trial", "pro"}
    MaxHours = 1
    MaxInvoices = 2
    MaxEvents = 2
    MaxDunning = 3
    NoSubscription = NoSubscription
INVARIANTS
    StoreOK
    OnePlace
    AccountsAgree
PROPERTIES
    LiveEvictedLast
    FreshNeverExpires
    ImplementsLifecycle
    LostOnlyByStopOrOverflow
    QueuedIsSettled
    StopReturns
    RevokedIsTerminal
    PaymentIsCredited
CHECK_DEADLOCK FALSE
