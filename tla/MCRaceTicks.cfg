\* The WebSocket engine alone, against requests and restarts.
SPECIFICATION Spec
CONSTANTS
    StartingCapital = 100
    Leverage <- Lever
    Instrument = "equity"
    OrderId = {o1, o2}
    Server = {r1, r2}
    Poller = {}
    Ticker = {t1}
    OrderTypes = {"MARKET", "LIMIT"}
    Quantities = {1}
    Prices = {60}
    Quotes <- TwoQuotes
    Prefetched = TRUE
    MaxRestarts = 1
    NoOrder = noOrder
    NoThread = noThread
    o1 = o1
    o2 = o2
    o3 = o3
    r1 = r1
    r2 = r2
    p1 = p1
    t1 = t1
    noOrder = noOrder
    noThread = noThread
SYMMETRY RaceSymmetry
INVARIANTS TypeOK AtMostOneTrade OpenOrdersIndexed NothingNettedTwice
CHECK_DEADLOCK FALSE
