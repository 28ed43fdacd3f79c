SPECIFICATION Spec
CONSTANTS
    r1 = r1
    r2 = r2
    Nothing = Nothing
    NoMode = NoMode
    Requests = {r1, r2}
    CommandsOf <- Commands
    Members = {1, 2, 3}
    BoardMaps <- TwoMaps
    PlaysOf <- TwoPlayers
    StatsOf <- ThreeProfiles
    Modes = {"std", "mania"}
    Std = "std"
    Native <- MapModes
    SetOf <- OneSet
    AnnouncerHere = FALSE
    MaxTurns = 1
    MaxFaults = 1
CHECK_DEADLOCK FALSE
INVARIANTS
    CommandsTypeOK
    LastMapIsShown
    CommandsAnswer
    BoardsAreFair
