CONSTANT Data <- DataMC
SPECIFICATION ConnectionSpec
INVARIANTS
    ConnectionTypeOK
    DialOwnsConnection
    ReadAheadKept
PROPERTIES
    TunnelEnds
    NoCopierStays
    ServingIsCredited
