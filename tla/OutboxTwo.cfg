SPECIFICATION OutboxSpec
CONSTANTS
    Events = {1}
    Consumers = {c1, c2}
    Dispatchers = {worker, api}
    Emitter = api
    MaxAttempts = 2
    Capacity = 2
    Mishaps = {"handler"}
    MaxMishaps = 1
INVARIANT HandledOnce
CHECK_DEADLOCK FALSE
