SPECIFICATION FairSpec
CONSTANTS
    p1 = p1
    p2 = p2
    p3 = p3
    sonnet = sonnet
    opus = opus
    luna = luna
    pidA = pidA
    pidB = pidB
    Procs = {p1, p2, p3}
    Configs = {sonnet, opus, luna}
    Pids = {pidA, pidB}
    NoProc = NoProc
    Wants <- MCWants
    Pid <- MCPid
PROPERTIES
    ReadabilityIsStable
    EveryCallEnds
    ImplementsRetained
CHECK_DEADLOCK FALSE
