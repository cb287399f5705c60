CONSTANTS
    NaNValue = NaNValue
    NaN <- NaNValue
    Prices <- MCPrices
    Quantities <- MCQuantities
    MaxItems = 3
SPECIFICATION Spec
INVARIANT TradeOrderStable
INVARIANT BookOrder
CHECK_DEADLOCK FALSE
