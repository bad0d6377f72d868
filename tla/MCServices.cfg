SPECIFICATION ServicesSpec
CONSTANTS
    Events = {1, 2}
    Consumers = {c1, c2}
    Dispatchers = {worker, api}
    Emitter = api
    MaxAttempts = 2
    Capacity = 1
    Mishaps = {"handler", "mark", "commit", "crash", "insert", "repeat"}
    MaxMishaps = 2
    q1 = q1
    q2 = q2
    q3 = q3
    q4 = q4
    k1 = k1
    b1 = b1
    b2 = b2
    Requests = {q1, q2, q3, q4}
    ChargeKeys = {k1}
    Bodies = {b1, b2}
    KeyOf <- OneKey
    BodyOf <- LastDiffers
    MaxUnits = 1
    Flaws = {"outage", "raise", "die", "lost charge", "settle", "release", "slow"}
    MaxFlaws = 1
INVARIANT BothTypesOK
INVARIANT SavedTogether
INVARIANT ChargedOnce
INVARIANT FreeWasPaid
PROPERTY Settles
PROPERTY DeliversAtLeastOnce
PROPERTY KeyComesBack
CHECK_DEADLOCK FALSE
