SPECIFICATION FairSpec
CONSTANTS
    p1 = p1
    p2 = p2
    i1 = i1
    act = act
    g1 = g1
    g2 = g2
    r1 = r1
    r2 = r2
    Public <- PublicAndAction
    Internal <- OneInternal
    Actions <- OneAction
    Goroutines <- TwoGoroutines
    Runners <- TwoRunners
    Finisher = Finisher
    Recovery = Recovery
    None = None
    Sent = Sent
    Ops <- RestartOps
    MaxCrashes = 1
INVARIANTS
    StartedOnce
PROPERTIES
    ClaimedPromptResumes
