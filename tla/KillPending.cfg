CONSTANTS
    s1 = s1
    l1 = l1
    r1 = r1
    Signals = {s1}
    Urgency <- Halfway
    Legs = {}
    Reporters = {}
    Orders <- TwoSlices
    Calls <- ActorCalls
    MaxActivations = 1
SPECIFICATION KSpec
INVARIANTS
    KillCancelsAllPending
CHECK_DEADLOCK FALSE
