SPECIFICATION TwoSpec
CONSTANTS
    fravor = fravor
    day = day
    nimitz = nimitz
    tictac = tictac
    dutyOfficer = dutyOfficer
    Chunks = 2
    IterationMax = 3
    MinNew = 2
    Capacity = 2
    MaxRuns = 1
    Names = {fravor, day, nimitz}
    Claims <- MCClaims
    NodeAnswers <- MCNodeAnswers
    ClaimAnswers <- MCClaimAnswers
INVARIANT AttributionIsKept
CHECK_DEADLOCK FALSE
