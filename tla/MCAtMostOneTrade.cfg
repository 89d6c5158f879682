\* The polling engine and an immediate execution of the same order.
SPECIFICATION Spec
CONSTANTS
    StartingCapital = 100
    Leverage <- Lever
    Instrument = "equity"
    OrderId = {o1, o2}
    Server = {r1}
    Poller = {p1}
    Ticker = {}
    OrderTypes = {"MARKET"}
    Quantities = {1}
    Prices = {60}
    Quotes <- TwoQuotes
    Prefetched = FALSE
    MaxRestarts = 0
    NoOrder = noOrder
    NoThread = noThread
    o1 = o1
    o2 = o2
    o3 = o3
    r1 = r1
    r2 = r2
    p1 = p1
    t1 = t1
    noOrder = noOrder
    noThread = noThread
SYMMETRY RaceSymmetry
INVARIANTS AtMostOneTrade
CHECK_DEADLOCK FALSE
