SPECIFICATION Spec
CONSTANTS
    u1 = u1
    u2 = u2
    a1 = a1
    a2 = a2
    m1 = m1
    m2 = m2
    NoAccount = NoAccount
    Users = {u1}
    Accounts = {a1}
    Modes = {m1}
    ModeOrder <- OneMode
    TicksPerSecond = 1
    MaxTime = 3
    MaxFailures = 2
    Feeds = {"top"}
    Faults = {"fetch"}
    MaxItems = 1
    MaxLinks = 0
PROPERTY
    FailedUpdateIsCounted
