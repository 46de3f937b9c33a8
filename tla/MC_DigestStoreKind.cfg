SPECIFICATION FairStoreSpec
CONSTANTS
    r1 = r1
    r2 = r2
    r3 = r3
    r4 = r4
    r5 = r5
    r6 = r6
    repeat = repeat
    tunedPrompts = tunedPrompts
    stewart = stewart
    stewartV2 = stewartV2
    sonnet = sonnet
    grok = grok
    registryPrompts = registryPrompts
    c1 = c1
    c2 = c2
    c3 = c3
    NoLabel = NoLabel
    NoPrompts = NoPrompts
    NoRun = NoRun
    Runs = {r1, r4}
    Names = {stewart, stewartV2}
    Models = {sonnet, grok}
    Opencode = {grok}
    Prompts = {registryPrompts, tunedPrompts}
    Active = {registryPrompts}
    Labels = {repeat}
    Configs = {c1, c2, c3}
    Job <- MCJob
    DeVersion <- MCDeVersion
    Safe <- MCSafe
    Sha8 <- MCSha8
    Production <- MCProduction
INVARIANT KindAnswersOnItsOwn
CHECK_DEADLOCK FALSE
