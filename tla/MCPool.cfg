SPECIFICATION RotationSpec
CONSTANTS
    a = a
    b = b
    x = x
    Fingerprint <- MCFingerprint
    BoxFingerprint <- MCBox
    Plugin <- MCPlugin
    LenientPlugin = {"fpl"}
    Label <- MCLabel
    Region = {}
    Offers <- MCOffers
    Policy = "round_robin"
    FastPercent = 70
    MaxFailures = 2
    RRModulus = 6
INVARIANTS
    TypeOK
    OrderEnumeratesItems
    AvailableBelowThreshold
    AvailableBoxHasDialer
    DialersHaveItems
    FastPoolSound
    NoneIsSkipped
    EvictedUntilValidated
PROPERTIES
    SurvivorsKeepOrder
