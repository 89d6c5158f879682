\* The square-off job against a user who keeps trading past the cut-off, and a reset.
SPECIFICATION FairSpec
CONSTANTS
    StartingCapital = 250
    Leverage <- EquityLeverage
    Instrument = "equity"
    UserOrder = {u1, u2}
    SystemOrder = {s1, s2, s3}
    OrderTypes = {"MARKET", "LIMIT"}
    Quantities = {1, 2}
    Prices = {60}
    Quotes <- FlatQuotes
    HeldShares = 0
    QuoteOutages = FALSE
    MaxResets = 1
    u1 = u1
    u2 = u2
    s1 = s1
    s2 = s2
    s3 = s3
PROPERTIES SquareOffCompletes
CHECK_DEADLOCK FALSE
