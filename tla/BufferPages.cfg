SPECIFICATION FairScores
CONSTANTS
    s1 = s1
    s2 = s2
    s3 = s3
    s4 = s4
    s5 = s5
    d1 = d1
    d2 = d2
    NoMap = NoMap
    StdMode = "std"
    Scores = {s1, s2, s3, s4}
    PageSize = 2
    Faults = {"fetch"}
    Moves = {"insert", "remove"}
    MaxMoves = 2
    MaxCalls = 2
    Channels = {d1, d2}
    Collections <- SomeCollections
    PostFaults = {"map", "post", "row"}
CHECK_DEADLOCK FALSE
INVARIANTS
    ScoresTypeOK
    ItemsArePrefix
    NoScoreSkipped
    EveryScoreIsTold
PROPERTY
    CallsReturn
