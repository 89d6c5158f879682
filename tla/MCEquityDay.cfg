\* Three orders of one user in an equity symbol: additions, reductions and reversals.
SPECIFICATION Spec
CONSTANTS
    StartingCapital = 250
    Leverage <- EquityLeverage
    Instrument = "equity"
    UserOrder = {u1, u2, u3}
    SystemOrder = {}
    OrderTypes = {"MARKET", "LIMIT"}
    Quantities = {1, 2}
    Prices = {60}
    Quotes <- WideQuotes
    HeldShares = 1
    QuoteOutages = FALSE
    MaxResets = 0
    u1 = u1
    u2 = u2
    u3 = u3
SYMMETRY UserSymmetry
INVARIANTS TypeOK PositionsMatchTrades PnlMatchesTrades EquityConserved NoMarginStuck
CHECK_DEADLOCK FALSE
