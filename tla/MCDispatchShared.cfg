SPECIFICATION DispatchSpec
CONSTANTS
    a = a
    b = b
    r1 = r1
    r2 = r2
    Fingerprint <- MCFingerprint
    BoxFingerprint = {}
    Plugin = {"fpl"}
    LenientPlugin = {}
    Label = {}
    Region = {}
    Offers <- PlainOffers
    Policy = "random"
    FastPercent = 50
    MaxFailures = 1
    RRModulus = 2
    Session = {"s"}
    DefaultTTL = 1
    MaxTTL = 1
    SweepInterval = 1
    Request <- MCRequest
    InfosOf <- SharedSession
    RetryAttempts = 1
    Healthy = {a}
    MayShutDown = FALSE
PROPERTY SessionIsStable
