CONSTANTS
    Missing = Missing
    NoValue = NoValue
    NoFile <- Missing
    None <- NoValue
    Names <- MCNames
    BtcSymbols <- MCBtcSymbols
    SymbolFiles <- OtherSymbolFiles
    EndpointFiles <- OtherEndpointFiles
SPECIFICATION Spec
INVARIANT ConfiguredSessions
CHECK_DEADLOCK FALSE
