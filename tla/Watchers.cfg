SPECIFICATION FairWatchers
CONSTANTS
    r1 = r1
    r2 = r2
    u1 = u1
    h1 = h1
    h2 = h2
    h3 = h3
    c1 = c1
    c2 = c2
    m1 = m1
    m2 = m2
    s1 = s1
    s2 = s2
    p1 = p1
    p2 = p2
    NoHandler = NoHandler
    Messages = {r1, r2}
    Members = {u1}
    Handlers = {h1, h2, h3}
    Commands = {c1, c2}
    Threads = 2
    Faults = {"edit", "member", "role"}
    MaxReactions = 2
    Paginated = {m1, m2}
    Shards = {s1, s2}
    Presses = {p1, p2}
    Workers = 2
    CollectorFaults = {"ack"}
CHECK_DEADLOCK FALSE
INVARIANTS
    WatchersTypeOK
    OneHandlerPerMessage
    StoredIsServed
    RolesFollowReactions
    FoundStays
PROPERTIES
    CommandsReturn
    NobodyStuck
