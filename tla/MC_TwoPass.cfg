SPECIFICATION FairTwoSpec
CONSTANTS
    fravor = fravor
    day = day
    nimitz = nimitz
    tictac = tictac
    dutyOfficer = dutyOfficer
    Chunks = 2
    IterationMax = 2
    MinNew = 1
    Capacity = 2
    MaxRuns = 2
    Names = {fravor, day, nimitz}
    Claims <- MCClaims
    NodeAnswers <- MCNodeAnswers
    ClaimAnswers <- MCClaimAnswers
INVARIANTS
    MergeInv
    ResumeReplays
PROPERTIES
    
    RunEnds
    ImplementsConversation
CHECK_DEADLOCK FALSE
