SPECIFICATION FairQueueSpec
CONSTANTS
    d1 = d1
    d2 = d2
    book = book
    note = note
    Drivers = {d1, d2}
    Records = {book, note}
    Books = {book}
    Lists <- MCLists
    NoRecord = NoRecord
    MaxStrikes = 2
INVARIANTS
    DrainedIsDone
    OneExtraction
PROPERTIES
    NeverRedone
    SmallOnesGetTheirTurn
    QueueDrains
CHECK_DEADLOCK FALSE
