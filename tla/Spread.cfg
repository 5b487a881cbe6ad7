CONSTANTS
    x = x
    y = y
    z = z
    Symbols = {x, y, z}
    Pairs <- SharedPairs
    MaxOpenPairs = 1
    Handlers = {h1, h2}
    MaxEntries = 3
    Watched = {x}
SPECIFICATION Spec
INVARIANTS
    OpenPairsBounded
    BooksMatchBelief
PROPERTIES
    HaltedOnlyFinishes
