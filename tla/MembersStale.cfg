SPECIFICATION Spec
CONSTANTS
    u1 = u1
    g1 = g1
    c1 = c1
    c2 = c2
    c3 = c3
    NoCaller = NoCaller
    Users = {u1}
    Guilds = {g1}
    Callers = {c1}
    Valid = 2
    Invalid = 1
    MaxTime = 4
    Faults = {"listing"}
SYMMETRY Symmetry
INVARIANTS
    AnswersAreFresh
