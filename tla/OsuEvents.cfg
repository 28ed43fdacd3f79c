SPECIFICATION FairSpec
CONSTANTS
    u1 = u1
    u2 = u2
    a1 = a1
    a2 = a2
    m1 = m1
    m2 = m2
    NoAccount = NoAccount
    Users = {u1}
    Accounts = {a1}
    Modes = {m1}
    ModeOrder <- OneMode
    TicksPerSecond = 2
    MaxTime = 4
    MaxFailures = 2
    Feeds = {"top", "rank", "map"}
    Faults = {"fetch", "events", "save", "crash"}
    MaxItems = 1
    MaxLinks = 1
INVARIANTS
    TypeOK
    RepeatsNeedAMishap
PROPERTY
    MappingEventsAreTaken
