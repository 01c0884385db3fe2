SPECIFICATION Spec
CONSTANTS
    p1 = p1
    p2 = p2
    i1 = i1
    act = act
    g1 = g1
    g2 = g2
    r1 = r1
    r2 = r2
    Public <- TwoPublic
    Internal <- OneInternal
    Actions <- NoPrompts
    Goroutines <- OneGoroutine
    Runners <- OneRunner
    Finisher = Finisher
    Recovery = Recovery
    None = None
    Sent = Sent
    Ops <- AloneOps
    MaxCrashes = 0
PROPERTIES
    KeepsPromises
