SPECIFICATION Spec
CONSTANTS
    p1 = p1
    p2 = p2
    i1 = i1
    act = act
    g1 = g1
    g2 = g2
    r1 = r1
    r2 = r2
    Public <- TwoPublic
    Internal <- NoPrompts
    Actions <- NoPrompts
    Goroutines <- TwoGoroutines
    Runners <- OneRunner
    Finisher = Finisher
    Recovery = Recovery
    None = None
    Sent = Sent
    Ops <- FaultOps
    MaxCrashes = 0
SYMMETRY Symmetry
INVARIANTS
    CopyFresh
    NoPromptLost
    StartedOnce
    PendingSteerAttended
