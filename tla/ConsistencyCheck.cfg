SPECIFICATION CheckSpec
CONSTANTS
    p1 = p1  w1 = w1  w2 = w2  alice = alice
    apns = apns  fcm = fcm  d1 = d1  q1 = q1  q2 = q2  q3 = q3  q4 = q4
    Procs = {p1}
    Workers = {w1, w2}
    ProcOf <- MCProcOf
    SubKeys = {alice}
    Patterns = {}
    Types = {apns, fcm}
    Devices = {d1}
    TypeOf <- MCTypeOf
    Home <- MCHome
    FixedSub <- MCHome
    Values = {v1}
    Debris = TRUE
    NoRecord = NoRecord
    Nobody = Nobody
    Providers = {q1, q2, q3, q4}
    TypeOfPsp <- MCTypeOfPsp
    FirstBound <- MCFirstBound
    Unreadable = {q4}
    Counters = {d1}
    Reader = w2
    MaxRequests = 1
    MaxTorn = 1
CHECK_DEADLOCK FALSE
INVARIANTS FindsWhatStays ExactWhereQuiet StatsAddUp
