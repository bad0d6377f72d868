SPECIFICATION Spec
CONSTANTS
    o1 = o1
    o2 = o2
    u1 = u1
    k1 = k1
    k2 = k2
    NoKey = NoKey
    NoOrder = NoOrder
    Orders = {o1}
    Keys = {k1}
    Users = {u1}
    Owner <- OneOwner
    KeyOrder <- OneOrder
    Amount <- Two
    Confirms = {c1}
    Refunds = {r1}
    Events = {"cancel", "manual", "withdraw", "admin", "webhook", "account"}
    Faults = {"crash", "unknown", "reject", "lookup", "outage", "receipt", "webhook", "revoke"}
    MaxFaults = 1
    MaxUsed = 1
INVARIANT TypeOK
INVARIANT LedgerMatchesBalance
INVARIANT PaidBuyerKept
INVARIANT RefundedWithinOrder
CHECK_DEADLOCK FALSE
