SPECIFICATION Spec
CONSTANTS
    Methods = {"queueing", "native"}
    Cancellers = {c1}
    MaxTurns = 3
    MaxPrompts = 3
    MaxQuestions = 1
    None = None
INVARIANTS
    TypeOK
    TurnCanEnd
    EndsInOrder
    QuestionsFollowTurn
    OneResponse
CHECK_DEADLOCK FALSE
PROPERTIES
    CancelledTurnEnds
