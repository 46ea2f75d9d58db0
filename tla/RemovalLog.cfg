SPECIFICATION PollSpec
CONSTANTS
    MaxLen = 3
    MaxLimit = 2
    MaxRecorded = 7
PROPERTIES NoSilentLoss CatchesUp
