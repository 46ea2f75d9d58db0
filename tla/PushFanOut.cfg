SPECIFICATION FairSpec
CONSTANTS
    k1 = k1
    k2 = k2
    Pairs = {k1, k2}
    EntryOf <- MCEntryOf
    Devices = {"d1", "d2"}
    Providers = {"fcm", "webpush", "adm", "apns"}
    TypeOf <- MCTypeOf
    Scenarios <- MCScenarios
    Asked <- MCAsked
    Second = 1
    FirstDelay = 3
    Ceiling = 4
    MaxRequested = 8
    Limit = 1
    None = None
INVARIANTS OneCopy ReportedOnce NothingLost NoSendOnClosed RetriesBounded
PROPERTY EverythingEnds
CHECK_DEADLOCK FALSE
