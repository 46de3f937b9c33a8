SPECIFICATION UpkeepSpec
CONSTANTS
    MaxValue = 1
    MaxFrontEdits = 1
    MaxExtractions = 1
    MaxByHand = 1
    r1 = r1
    r2 = r2
    h1 = h1
    Records = {r1, r2}
    Marked = {r1}
    Refused = {r2}
    Reporters = {h1}
    Passes <- OnlyPrepared
    MaxEdits = 1
    MaxVersion = 1
INVARIANTS
    EditsAreAccounted
    ReportsAreTrue
PROPERTIES
    EditsConverge
    EventuallyFresh
CHECK_DEADLOCK FALSE
