SPECIFICATION Spec
CONSTANTS
    o1 = o1
    o2 = o2
    u1 = u1
    k1 = k1
    k2 = k2
    NoKey = NoKey
    NoOrder = NoOrder
    Orders = {o1, o2}
    Keys = {k1, k2}
    Users = {u1}
    Owner <- OneOwner
    KeyOrder <- OrderPerKey
    Amount <- ThreeAndOne
    Confirms = {c1}
    Refunds = {r1}
    Events = {"webhook", "admin"}
    Faults = {"revoke"}
    MaxFaults = 1
    MaxUsed = 1
PROPERTY FreshClawIsExact
CHECK_DEADLOCK FALSE
