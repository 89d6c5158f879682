\* Three trades over two nights, with jobs that are missed and one that fails.
SPECIFICATION Spec
CONSTANTS
    StartingCapital = 500
    Leverage <- EquityLeverage
    Instrument = "equity"
    Quantities = {1, 2}
    Quotes <- TwoQuotes
    MaxTrades = 3
    MaxNights = 2
    MaxCuts = 1
INVARIANTS TypeOK SharesFollowTrades CashFollowsTrades
PROPERTIES CatchUpKeepsToday
CHECK_DEADLOCK FALSE
