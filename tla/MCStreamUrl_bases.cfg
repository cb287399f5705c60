CONSTANTS
    Absent = Absent
    NoEndpoint <- Absent
    Venues <- OtherVenues
    Endpoints <- OtherEndpoints
    SymbolLists <- MCSymbolLists
SPECIFICATION Spec
INVARIANT UrlMatchesSpec
CHECK_DEADLOCK FALSE
