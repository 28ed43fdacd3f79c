SPECIFICATION Spec
CONSTANTS
    u1 = u1
    u2 = u2
    a1 = a1
    a2 = a2
    m1 = m1
    m2 = m2
    NoAccount = NoAccount
    Users = {u1}
    Accounts = {a1, a2}
    Modes = {m1, m2}
    ModeOrder <- TwoModes
    TicksPerSecond = 2
    MaxTime = 5
    MaxFailures = 2
    Feeds = {"top"}
    Faults = {"fetch"}
    MaxItems = 1
    MaxLinks = 1
SYMMETRY Symmetry
INVARIANT
    NoTopScoreSkipped
PROPERTY
    OnlyLinkedAccountAnnounced
