SPECIFICATION BillingSpec
CONSTANTS
    Users = {u1}
    Provider = "stripe"
    NonceMax = 4
    Plans = {"trial"}
    MaxHours = 0
    MaxInvoices = 1
    MaxEvents = 3
    MaxDunning = 3
    NoSubscription = NoSubscription
INVARIANTS
    RefundTakesEffect
CHECK_DEADLOCK FALSE
