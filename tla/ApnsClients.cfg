SPECIFICATION DestSpec
CONSTANTS
    Keys <- MCKeys
    Provider <- MCProvider
    Batches = {b1, b2}
    None = None
    MaxClients = 2
    MaxFinalized = 1
    Urls <- MCUrls
    AppleUrls <- MCApple
    HttpsUrls <- MCHttps
    ShapedUrls <- MCShaped
    HostProduction = "prod"
    HostDevelopment = "dev"
    Stored <- MCStored
    Requests <- MCRequests
    Rotated = {"cert"}
    MaxRotations = 1
SYMMETRY MCSymmetry
INVARIANTS NoLeak ShutdownIsComplete RotationTakesEffect TrustIsItsOwn
