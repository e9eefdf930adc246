SPECIFICATION SafeguardsSpec
CONSTANTS
    Equities = {0, 89, 93, 96, 100}
    DefaultBalance = 100
    DailyPct = 5
    DrawdownPct = 10
    WarnPct = 7
    Cooldown = 2
    MaxLoss = 110
    Switches = {k1, k2}
    Devices = {d1}
    Global = Global
    Incidents = {i1, i2}
    Ttl = 1
    Sla = 0
    Owners = {o1, o2}
    MaxSessions = 2
    MaxTokens = 4
    Threads = {h1, h2}
    Tenants = {u1}
    NoTenant = NoTenant
    MaxVersions = 2
    MaxKeys = 3
INVARIANTS
    WithinLimits
    DailyLossCovered
    StandingSwitchBlocks
    OneChainPerSession
    RotationServes
PROPERTIES
    HaltLastsCooldown
    OverdueEscalates
CHECK_DEADLOCK FALSE
