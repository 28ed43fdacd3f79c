SPECIFICATION Spec
CONSTANTS
    Pagers <- AllPagers
    Batch = 50
    MaxQueue = 2
    Faults = {"edit"}
    NoPage = NoPage
CHECK_DEADLOCK FALSE
INVARIANTS
    TypeOK
    PageIsShown
    ButtonsAreRemoved
PROPERTY
    FastNextMovesOn
