SPECIFICATION FairSpec
CONSTANTS
    o1 = o1
    o2 = o2
    u1 = u1
    k1 = k1
    k2 = k2
    NoKey = NoKey
    NoOrder = NoOrder
    Orders = {o1}
    Keys = {k1, k2}
    Users = {u1}
    Owner <- OneOwner
    KeyOrder <- OneOrder
    Amount <- Two
    Confirms = {c1, c2}
    Refunds = {}
    Events = {"replay", "withdraw", "webhook", "admin"}
    Faults = {"unknown", "reject", "lookup", "webhook"}
    MaxFaults = 3
    MaxUsed = 0
INVARIANT StrandedIsListed
PROPERTY StrandedIsPaid
CHECK_DEADLOCK FALSE
