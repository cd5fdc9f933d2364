SPECIFICATION MailSpec
CONSTANTS
    Writers = {w1, w2}
    Stranger = Stranger
    FirstPieces = 1
    FirstPurse = 0
    MailStoreMax = 2
    Posters = {w1}
    Readers = {w2}
    MaxLetters = 2
    MaxLines = 2
    MaxPosts = 1
    MaxAsked = 2
    MaxMailCrashes = 0
INVARIANTS StoreCounts
CHECK_DEADLOCK FALSE
