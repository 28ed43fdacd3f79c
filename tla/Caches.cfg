SPECIFICATION CachesSpec
CONSTANTS
    u1 = u1
    g1 = g1
    c1 = c1
    c2 = c2
    t1 = t1
    p1 = p1
    p2 = p2
    o1 = o1
    o2 = o2
    e1 = e1
    r1 = r1
    e2 = e2
    v1 = v1
    Unset = Unset
    NoCaller = NoCaller
    Users = {u1}
    Guilds = {g1}
    Callers = {c1, c2}
    Valid = 3
    Invalid = 2
    MaxTime = 4
    Faults = {"listing", "member"}
    Loaders = {c1, c2}
    Borrowers = {c1, c2}
    Sleepers = {t1}
    Count = 1
    WaitTime = 1
    MaxNow = 1
    Maps = {1, 2}
    MapModes = {"std", "mania"}
    NativeMode <- StdAndMania
    MaxVersion = 1
    MapFaults = {"api", "db"}
    People = {p1, p2}
    OwnerCommands = {o1, o2}
    IgnoreFaults = {"db", "stop"}
    Announcers = {e1, e2}
    Assignable = {r1}
    Given = {v1}
    Admins = {c1, c2}
    FileFaults = {"save", "remove", "stop"}
SYMMETRY Symmetry
CHECK_DEADLOCK FALSE
INVARIANTS
    CachesTypeOK
    FoundIsFresh
    MapsAreCurrent
    SetsAreWhole
    UsesAreLimited
    IgnoredStayIgnored
    ConfirmedIsKept
