SPECIFICATION FairSpec
CONSTANTS
    Loops = {a}
    Messages = {m1}
    Handlers = {h1, h2}
    Nothing = Nothing
    MaxRuns = 2
    MaxEdits = 2
    MaxCrashes = 1
INVARIANTS
    TypeOK
    OneActiveRun
    LastRunAgrees
    FiredOnce
PROPERTIES
    FinishedStaysFinished
    EveryRunEnds
CHECK_DEADLOCK FALSE
