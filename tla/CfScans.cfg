SPECIFICATION ScansSpec
CONSTANTS
    u1 = u1
    u2 = u2
    a1 = a1
    a2 = a2
    k1 = k1
    k2 = k2
    k3 = k3
    w1 = w1
    w2 = w2
    q1 = q1
    h1 = h1
    NoHandle = NoHandle
    NoContest = NoContest
    Users = {u1}
    Handles = {a1, a2}
    Contests = {k1, k2}
    MaxFaults = 1
    MaxFailures = 2
    MaxSaves = 2
    Watched = {q1}
    Watches = {w1, w2}
    NoWatch = NoWatch
    Coders = {h1}
    Worth = 2
    MaxTries = 2
    MaxClock = 2
    ListAge = 0
    Grace = 0
    WatchFaults = {"standings", "list", "send"}
SYMMETRY Symmetry
INVARIANTS
    ScansTypeOK
    RepeatsNeedAMishap
    NoChangeSkipped
    VerdictsAreTold
PROPERTY
    LateSaveWins
    ListNeverGoesBack
