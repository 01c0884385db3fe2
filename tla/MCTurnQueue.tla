---------------------------- MODULE MCTurnQueue ----------------------------
EXTENDS TurnQueue

CONSTANTS p1, p2, i1, act, g1, g2, r1, r2

NoPrompts == {}
OnePublic == {p1}
TwoPublic == {p1, p2}
PublicAndAction == {p1, act}
TwoPublicAndAction == {p1, p2, act}
OneInternal == {i1}
OneAction == {act}
OneGoroutine == {g1}
TwoGoroutines == {g1, g2}
OneRunner == {r1}
TwoRunners == {r1, r2}

\* Requests differ in nothing but their names (no run with liveness uses this).
Symmetry == Permutations(TwoGoroutines) \cup Permutations(TwoPublic)

\* What may happen in each run.
QueueOps ==
    {"append", "delete", "reorder", "enqueue", "begin", "steerable", "fail", "turnFail"}
FaultOps ==
    {"append", "steer", "begin", "ext", "steerable", "unsteerable",
     "fail", "sendFail", "appendFail", "turnFail", "plan", "cancel", "goal"}
RestartOps == {"append", "enqueue"}
AloneOps ==
    {"append", "delete", "enqueue", "begin", "steer", "plan", "steerable", "unsteerable",
     "fail", "sendFail", "turnFail", "cancel", "goal", "resumeSave", "cancelStored"}
StatusOps == {"append"}
ResumeOps == {"append", "begin", "resumeSave"}

=============================================================================
