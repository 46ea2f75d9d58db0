SPECIFICATION FairSpec
CONSTANTS
    p1 = p1  p2 = p2  w1 = w1  w2 = w2
    apns = apns  adm = adm  a1 = a1  a2 = a2  b1 = b1  d1 = d1
    Procs = {p1, p2}
    Workers = {w1, w2}
    ProcOf <- TwoProcs
    Providers = {a1, a2}
    Types = {apns, adm}
    TypeOf <- MCTypeOf
    Devices = {d1}
    DevType <- MCDevType
    Legacy = FALSE
    MayFail = FALSE
    Attempts = 2
    NoProvider = NoProvider
    Nobody = Nobody
INVARIANTS OnePerType
PROPERTIES RequestsEnd
