SPECIFICATION RebuildSpec
CONSTANTS
    p1 = p1  w1 = w1  alice = alice  bob = bob
    apns = apns  fcm = fcm  d1 = d1  d2 = d2  d3 = d3
    Procs = {p1}
    Workers = {w1}
    ProcOf <- MCProcOf
    SubKeys = {alice, bob}
    Patterns = {}
    Types = {apns, fcm}
    Devices = {d1, d3}
    TypeOf <- MCTypeOf
    Home <- MCHome
    FixedSub <- MCHome
    Values = {v1}
    Debris = FALSE
    NoRecord = NoRecord
    Nobody = Nobody
    Rebuilders = {r1, r2}
    IndexKey = IndexKey
    MaxRequests = 1
    MaxRebuilds = 3
SYMMETRY Symmetry
CHECK_DEADLOCK FALSE
INVARIANTS MarkedMeansRight
