SPECIFICATION PartsSpec
CONSTANTS
    Parts = {"refresh"}
    HardMax = 4
    MaxChars = 6
    MinChars = 1
    ChapterMin = 2
    MaxLen = 7
    MaxBlock = 2
    MaxLines = 5
    Words = {"a", "b", "c"}
    SeedLen = 3
    MinSlack = 1
    SpanRatio = 1
    SpanSlack = 1
    AmbigGap = 1
    MaxSource = 5
    MaxQuote = 3
    MaxOffset = 5
    MaxTellings = 3
    ChapterSets <- SomeChapters
    Names = {"n"}
    Sources = {"s", "t"}
    Chains = {"d1", "d2"}
    Contents = {"c"}
    RoundsMax = 2
    ClaimsMinNew = 1
    MaxAnswer = 2
    Hashes = {"h1", "h2"}
    NoHash = "none"
    MaxFiles = 2
    Keys = {"title", "description", "provenance"}
    Changeable = {"title", "description", "provenance"}
    Mappings = {"provenance"}
    NestedKeys = {"description", "source_url"}
    MaxBlockLines = 5
    BatchSize = 4
    Costs = {1, 2}
    MaxMemory = 4
    MaxPairs = 4
    MaxProbs = 1
    p1 = p1
    p2 = p2
    p3 = p3
    Procs = {p1, p2, p3}
    Pids = {p1, p2, p3}
    Prior = Prior
    NoFile = NoFile
    Pid <- OwnPids
    RecordBodies = {"b1", "b2"}
    MaxCommits = 4
    MaxReviews = 2
    Experiments = {"e1", "e2"}
    RunIds = {"i1"}
    RunId <- OneRun
    Dimensions = {"d1", "d2"}
    MaxRate = 1
    MaxFixtures = 1
    MaxTampering = 1
    Outputs = {"p", "q"}
INVARIANT OnlyThePlannedChanges
CHECK_DEADLOCK FALSE
