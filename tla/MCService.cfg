SPECIFICATION ServiceSpec
CONSTANTS
    a = a
    b = b
    Fingerprint <- MCFingerprint
    BoxFingerprint = {}
    Plugin <- MCPlugin
    LenientPlugin = {"fpl"}
    Label = {"q1", "q2", "list"}
    Region = {}
    Offers <- Own
    Policy = "random"
    FastPercent = 100
    MaxFailures = 1
    RRModulus = 2
    SourcesOf <- MCSources
    LocalSource = {}
    Steady <- MCSteady
    MayShutDown = TRUE
    MayCrash = TRUE
INVARIANTS
    ServiceTypeOK
    DownIsSaved
PROPERTIES
    SteadyIsKept
    StopCompletes
