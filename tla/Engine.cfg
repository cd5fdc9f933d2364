SPECIFICATION EngineSpec
CONSTANTS
    Pieces = {"timer", "db", "blocks", "mobai", "unit"}
    u1 = u1
    u2 = u2
    core = core
    f1 = f1
    f2 = f2
    TimerUsers = {u1, u2, core}
    Server = core
    FuncOf <- Funcs
    Null = Null
    Unset = Unset
    Ticks = 64
    FirstTick = 60
    Beat = 3
    Late = 3
    Delays = {0, 2}
    Naps = {2, 4, 5}
    MaxTime = 7
    MaxSets = 3
    Keys = {1, 2, 3, 4, 5, 6, 7}
    Nil = Nil
    Touched = {2, 4}
    MaxCalls = 2
    MaxDepth = 2
    b1 = b1
    b2 = b2
    b3 = b3
    b4 = b4
    Pcs = {b1}
    Mobs = {b2}
    Things = {b3, b4}
    LastCell = 2
    NullBl = NullBl
    ListHead = ListHead
    MaxObject = 3
    Areas = {{1, 2}}
    DropCells = {1}
    MaxList = 3
    MaxFree = 1
    MaxNest = 2
    MaxChanges = 1
    MaxForgotten = 1
    c1 = c1
    c2 = c2
    k1 = k1
    k2 = k2
    Characters = {c1, c2}
    Monsters = {k1, k2}
    Respawning = {k1}
    NoMob = NoMob
    Width = 3
    Height = 3
    Sight = 1
    MaxJump = 2
    Squares <- Lane
    Landings <- Ends
    MaxDoings = 1
    p1 = p1
    q1 = q1
    Players = {p1}
    Beasts = {q1}
    Nobody = Nobody
    Speeds = {100, 200}
    MaxFreeCast = 1
    Lengths <- Paths
    MaxLives = 1
INVARIANTS EngineTypeOK EachSlotOnce RedBlack SearchFinds ListsSound NotFreedInUse ObjectsFound AiKnowsWhoIsNear TimersMatch CastersOnMap StandsWhileCasting SpeedMatches
PROPERTIES KeepsAgenda WalkSeesAll ForeachMeetsAll EveryMobThinks
SYMMETRY SymmetricCharacters
CHECK_DEADLOCK FALSE
