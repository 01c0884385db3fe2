SPECIFICATION FairSpec
CONSTANTS
    Members = {b1, b2}
    User = User
    MaxFollowUps = 1
    MaxPosts = 3
    MaxCrashes = 1
INVARIANTS
    TypeOK
    NothingSkipped
    ShownOnce
    PostAttended
PROPERTIES
    EveryPostArrives
CHECK_DEADLOCK FALSE
