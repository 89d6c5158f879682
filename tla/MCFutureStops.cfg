\* A future: stops and stop-limits that trigger, fill and are modified, quotes that fail
\* and an account that is reset under open orders.
SPECIFICATION Spec
CONSTANTS
    StartingCapital = 60
    Leverage <- FutureLeverage
    Instrument = "future"
    UserOrder = {u1, u2}
    SystemOrder = {}
    OrderTypes = {"MARKET", "SL", "SL-M"}
    Quantities = {1}
    Prices <- TwoPrices
    Quotes <- FlatQuotes
    HeldShares = 0
    QuoteOutages = TRUE
    MaxResets = 1
    u1 = u1
    u2 = u2
SYMMETRY UserSymmetry
INVARIANTS EquityConserved FillsRespectLimits
PROPERTIES BookSpec
CHECK_DEADLOCK FALSE
