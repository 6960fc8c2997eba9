CONSTANTS
    c1 = c1
    c2 = c2
    Conn <- ConnMC
    AuthEnabled = TRUE
    Files <- FilesMC
    Duration <- DurationMC
    Lower <- LowerMC
    Upper <- UpperMC
    SessionWord = {"job", "fast", "5m"}
    PluginWord = {"FPL"}
    RegionWord = {"us"}
SPECIFICATION ServerSpec
INVARIANTS
    ServerTypeOK
    WaitLeavesNoneOpen
    CheckedConfigIsSound
    NamesParseAsDocumented
PROPERTIES
    HandlersEnd
    SilentClientDropped
