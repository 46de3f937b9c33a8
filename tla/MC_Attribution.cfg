SPECIFICATION AttSpec
CONSTANTS
    b1 = b1
    b2 = b2
    open = open
    closed = closed
    v1 = v1
    v2 = v2
    t1 = t1
    t2 = t2
    s1 = s1
    s2 = s2
    NoRecord = NoRecord
    NoRegistry = NoRegistry
    NoFile = NoFile
    NoDigest = NoDigest
    Blank = Blank
    Jobs = 2
    Bodies = {b1, b2}
    Statuses = {open, closed}
    Open = {open}
    Overridden = {"claims"}
    Versions = {v1, v2}
    Texts = {t1, t2}
    Sources = {s1}
    MaxEdits = 2
SYMMETRY Interchangeable
INVARIANTS
    DigestsAreTrue
PROPERTY CallsArePermitted
CHECK_DEADLOCK FALSE
