CONSTANTS
    s1 = s1
    l1 = l1
    r1 = r1
    Signals = {s1}
    Urgency <- Halfway
    Legs = {l1}
    Reporters = {}
    Orders <- OneSlice
    Calls <- ActorCalls
    MaxActivations = 1
SPECIFICATION KSpec
INVARIANTS
    FlattenSignalsPass
CHECK_DEADLOCK FALSE
