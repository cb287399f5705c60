CONSTANTS
    s1 = s1
    s2 = s2
    Sessions <- MCSessions
    DepthSizes <- MCDepthSizes
    Venue <- MCVenue
    MaxFrames = 2
    NoIni = NoIni
    ConfigIniFiles <- MCConfigIniFiles
    Cores = 2
SPECIFICATION Spec
INVARIANT GlobalSeqMonotonic
CHECK_DEADLOCK FALSE
