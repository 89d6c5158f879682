\* Resting orders: one engine fills while requests place and cancel.
SPECIFICATION Spec
CONSTANTS
    StartingCapital = 40
    Leverage <- Lever
    Instrument = "equity"
    OrderId = {o1, o2, o3}
    Server = {r1}
    Poller = {p1}
    Ticker = {}
    OrderTypes = {"LIMIT"}
    Quantities = {1, 2}
    Prices = {60, 120}
    Quotes <- TwoQuotes
    Prefetched = FALSE
    MaxRestarts = 0
    NoOrder = noOrder
    NoThread = noThread
    o1 = o1
    o2 = o2
    o3 = o3
    r1 = r1
    r2 = r2
    p1 = p1
    t1 = t1
    noOrder = noOrder
    noThread = noThread
SYMMETRY RaceSymmetry
INVARIANTS EquityConserved
CHECK_DEADLOCK FALSE
