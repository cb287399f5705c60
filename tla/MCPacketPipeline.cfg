CONSTANTS
    s1 = s1
    s2 = s2
    Sessions <- MCSessions
    DepthSizes <- MCDepthSizes
    Venue <- MCVenue
    MaxFrames = 2
    NoIni = NoIni
    ConfigIniFiles <- MCConfigIniFiles
    Cores = 2
SPECIFICATION Spec
INVARIANT TypeOK
INVARIANT HeaderMatchesPayload
INVARIANT SeqUnique
INVARIANT SessionOrder
INVARIANT IsLastExact
INVARIANT StatsMatchWire
INVARIANT VenueTagOverride
INVARIANT DecoderReadsWire
 
PROPERTY EmitterRefinement
CHECK_DEADLOCK FALSE
