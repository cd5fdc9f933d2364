SPECIFICATION Spec
CONSTANTS
    m1 = m1
    m2 = m2
    p1 = p1
    p2 = p2
    MapServers = {m1}
    Players = {p1, p2}
    Members = {p1, p2}
    Carried = 1
    Stored = 0
    GuildStored = 1
    Owners = {p1, p2}
    Patient = {p1, p2}
    Eager = {p1}
    Hasty = {}
    Expelled = {}
    MaxQueue = 2
    MaxFaults = 0
INVARIANTS GuildNotStuck
CHECK_DEADLOCK FALSE
