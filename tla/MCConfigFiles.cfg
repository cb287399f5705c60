CONSTANTS
    Missing = Missing
    NoValue = NoValue
    NoFile <- Missing
    None <- NoValue
    Names <- MCNames
    BtcSymbols <- MCBtcSymbols
    SymbolFiles <- WellFormedSymbolFiles
    EndpointFiles <- WellFormedEndpointFiles
SPECIFICATION Spec
INVARIANT ConfiguredSessions
CHECK_DEADLOCK FALSE
