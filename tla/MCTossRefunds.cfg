SPECIFICATION Spec
CONSTANTS
    o1 = o1
    o2 = o2
    u1 = u1
    k1 = k1
    k2 = k2
    NoKey = NoKey
    NoOrder = NoOrder
    Orders = {o1, o2}
    Keys = {k1, k2}
    Users = {u1}
    Owner <- OneOwner
    KeyOrder <- OrderPerKey
    Amount <- FourAndOne
    Confirms = {c1}
    Refunds = {r1, r2}
    Events = {}
    Faults = {"reject"}
    MaxFaults = 2
    MaxUsed = 2
PROPERTY ExchangeIsFair
INVARIANT NeverBoth
INVARIANT ReturnedIsRecorded
INVARIANT RefundsSettle
CHECK_DEADLOCK FALSE
