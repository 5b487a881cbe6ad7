CONSTANTS
    Handlers = {h1, h2}
    Types = {tick}
    Loops = {l1, l2}
    MaxEvents = 2
    MaxListed = 2
    None = None
SPECIFICATION Spec
INVARIANTS
    NoHandlerSkipped
PROPERTIES
    LoopsEnd
    QueueDrains
    ImplementsBroadcast
CHECK_DEADLOCK FALSE
