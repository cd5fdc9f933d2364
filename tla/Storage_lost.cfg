SPECIFICATION Spec
CONSTANTS
    m1 = m1
    m2 = m2
    p1 = p1
    p2 = p2
    MapServers = {m1, m2}
    Players = {p1}
    Members = {}
    Carried = 1
    Stored = 1
    GuildStored = 0
    Owners = {p1}
    Patient = {}
    Eager = {}
    Hasty = {}
    Expelled = {}
    MaxQueue = 2
    MaxFaults = 0
PROPERTIES ItemsKept
CHECK_DEADLOCK FALSE
