SPECIFICATION TakeBackSpec
CONSTANTS
    o1 = o1
    o2 = o2
    u1 = u1
    k1 = k1
    k2 = k2
    NoKey = NoKey
    NoOrder = NoOrder
    Orders = {o1}
    Keys = {k1, k2}
    Users = {u1}
    Owner <- OneOwner
    KeyOrder <- OneOrder
    Amount <- Two
    Confirms = {c1}
    Refunds = {}
    Events = {"account", "webhook", "admin", "withdraw", "cancel", "manual"}
    Faults = {"revoke", "reject", "lookup", "receipt"}
    MaxFaults = 2
    MaxUsed = 1
    NoJob = NoJob
    Submits = {s1, s2}
    Cancels = {d1}
    Chunks = 2
    BatchFlaws = {"raise", "save", "die", "overlap"}
    MaxBatchFlaws = 1
    MaxAtOnce = 2
INVARIANT NoFreeCoins
INVARIANT JobsAreTrue
PROPERTY CanceledIsFinal
CHECK_DEADLOCK FALSE
