SPECIFICATION Spec
CONSTANTS
    u1 = u1
    u2 = u2
    a1 = a1
    a2 = a2
    m1 = m1
    m2 = m2
    NoAccount = NoAccount
    Users = {u1, u2}
    Accounts = {a1, a2}
    Modes = {m1}
    ModeOrder <- OneMode
    TicksPerSecond = 1
    MaxTime = 1
    MaxFailures = 2
    Feeds = {"top"}
    Faults = {"save", "crash"}
    MaxItems = 0
    MaxLinks = 2
SYMMETRY Symmetry
INVARIANT
    OneUserPerAccount
PROPERTY
    LinksAreClaims
