SPECIFICATION JournalSpec
CONSTANTS
    CharIds = {1001, 1002}
    NoChar = NoChar
    Clean = Clean
    StampSteps = {0, 1}
    MaxWrites = 2
    MaxStamp = 3
    MaxCrashes = 1
PROPERTIES KeepsPromise
CHECK_DEADLOCK FALSE
