CONSTANTS
    s1 = s1
    l1 = l1
    r1 = r1
    Signals = {s1}
    Urgency <- Halfway
    Legs = {}
    Reporters = {}
    Orders <- OneSlice
    Calls <- ActorCalls
    MaxActivations = 1
SPECIFICATION KSpec
PROPERTIES
    UpgradeReplaces
CHECK_DEADLOCK FALSE
