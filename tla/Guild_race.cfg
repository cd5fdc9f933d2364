SPECIFICATION GuildSpec
CONSTANTS
    Guilds = {g1, g2}
    NoGuild = NoGuild
    GuildPlayers = {p1, p2}
    NoPlayer = NoPlayer
    GuildServers = {s1, s2}
    Master = p1
    FirstGuild = g1
    FirstServer = s1
    Founders = {}
    MaxMember = 2
    MaxInvites = 1
    MaxTrips = 2
    MaxQuits = 1
INVARIANTS MembersKnow
CHECK_DEADLOCK FALSE
