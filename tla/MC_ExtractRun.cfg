SPECIFICATION FairRunSpec
CONSTANTS
    kimi = kimi
    glm = glm
    sonnet = sonnet
    metered = metered
    NoRoute = NoRoute
    Routes = {kimi, glm, sonnet, metered}
    Opencode = {kimi, glm}
    Allowance = {sonnet}
    Metered = {metered}
    MaxCalls = 2
INVARIANTS
    CallsAreGated
    
PROPERTY ProcessExits
CHECK_DEADLOCK FALSE
