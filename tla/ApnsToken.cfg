SPECIFICATION Spec
CONSTANTS
    p1 = p1
    Processes = {p1}
    Batches = {b1, b2}
    ProcessOf <- OneProcess
    Offset <- NoSkew
    Lifetime = 9
    Floor = 3
    Margin = 1
    Start = 9
    End = 15
    MaxBatches = 3
    MaxLost = 1
    MaxErrors = 1
SYMMETRY Symmetry
INVARIANTS ExpiresOnTheWay ConfirmedWasTaken NoHerd NoStrandedProbe FallbackWorks CacheServes
