CONSTANTS
    s1 = s1
    l1 = l1
    r1 = r1
    Signals = {s1}
    Urgency <- Halfway
    Legs = {l1}
    Reporters = {r1}
    Orders <- OneSlice
    Calls <- ActorCalls
    MaxActivations = 1
SPECIFICATION KSpec
INVARIANTS
    SweepReachesWorkingOrders
PROPERTIES
    NoOrderAdmittedWhileKilled
    KillCompletes
    PassiveOrdersSettle
CHECK_DEADLOCK FALSE
