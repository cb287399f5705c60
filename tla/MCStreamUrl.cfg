CONSTANTS
    Absent = Absent
    NoEndpoint <- Absent
    Venues <- MCVenues
    Endpoints <- ProductionEndpoints
    SymbolLists <- MCSymbolLists
SPECIFICATION Spec
INVARIANT UrlMatchesSpec
CHECK_DEADLOCK FALSE
