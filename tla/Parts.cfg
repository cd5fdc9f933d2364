SPECIFICATION PartsSpec
CONSTANTS
    Parts = {"journal", "market", "crossing", "trading", "guild", "mail", "storage", "shared", "expelled"}
    CharIds = {1001, 1002}
    NoChar = NoChar
    Clean = Clean
    StampSteps = {1}
    MaxWrites = 2
    MaxStamp = 3
    MaxCrashes = 2
    p1 = p1
    p2 = p2
    p3 = p3
    Traders = {p1, p2, p3}
    Nobody = Nobody
    Places = {1, 2}
    FirstInv <- OwnInv
    FirstCart <- OwnCart
    FirstZeny <- OwnZeny
    FirstPlace <- OnePlace
    MaxWeight <- Strength
    MaxZeny = 2
    Prices = {1, 2}
    Lucky = {p2}
    Carts = {p3}
    MaxRequests = 1
    MaxChance = 2
    g1 = g1
    g2 = g2
    s1 = s1
    s2 = s2
    Guilds = {g1, g2}
    NoGuild = NoGuild
    GuildPlayers = {p1, p2}
    NoPlayer = NoPlayer
    GuildServers = {s1, s2}
    Master = p1
    FirstGuild = g1
    FirstServer = s1
    Founders = {p2}
    MaxMember = 2
    MaxInvites = 1
    MaxTrips = 2
    MaxQuits = 1
    m1 = m1
    m2 = m2
    MapServers = {m1, m2}
    Players = {p1}
    Members = {}
    Carried = 1
    Stored = 1
    GuildStored = 0
    Owners = {p1}
    Patient = {p1}
    Eager = {}
    Hasty = {}
    Expelled = {}
    MaxQueue = 2
    MaxFaults = 1
    w1 = w1
    w2 = w2
    Writers = {w1, w2}
    Stranger = Stranger
    FirstPieces = 1
    FirstPurse = 1
    MailStoreMax = 2
    Posters = {w1}
    Readers = {w2}
    MaxLetters = 1
    MaxLines = 2
    MaxPosts = 1
    MaxAsked = 2
    MaxMailCrashes = 1
INVARIANTS PartsTypeOK TableIsNewest OnlyCopyKept NoZenyMade PartnersAgree VendorNotTrading CopiesAgree NoFalseMember GuildStorageOneUser
PROPERTIES PiecesKept LettersPaid KeepsPromise GivenIfCarried PaidIsDelivered NoItemLost
CHECK_DEADLOCK FALSE
