SPECIFICATION RunSpec
CONSTANTS
    kimi = kimi
    glm = glm
    sonnet = sonnet
    metered = metered
    NoRoute = NoRoute
    Routes = {kimi, glm, sonnet, metered}
    Opencode = {kimi, glm}
    Allowance = {sonnet}
    Metered = {metered}
    MaxCalls = 2
INVARIANT ExitCodeContract
CHECK_DEADLOCK FALSE
