SPECIFICATION Spec
CONSTANTS
    p1 = p1  p2 = p2  w1 = w1  w2 = w2
    alice = alice  bob = bob  list = list  star = star
    apns = apns  fcm = fcm  d1 = d1  d2 = d2  d3 = d3  v1 = v1  v2 = v2
    Procs = {p1}
    Workers = {w1, w2}
    ProcOf <- OneProc
    SubKeys = {alice}
    Patterns = {}
    Types = {apns, fcm}
    Devices = {d1}
    TypeOf <- MCTypeOf
    Home <- MCHome
    FixedSub <- MCHome
    Values = {v1}
    Debris = FALSE
    NoRecord = NoRecord
    Nobody = Nobody
PROPERTIES QuerySparesLive
