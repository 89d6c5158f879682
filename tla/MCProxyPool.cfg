\* Two clients, three symbols, a pool of two connections with one slot each;
\* Few: up to three subscriptions, two requests that wait, and a hasty symbol and a
\* fault, or a login at the broker.
SPECIFICATION Spec
CONSTANTS
    Sym = {a, b, d}
    Modes = {1, 2}
    MaxSymbols = 1
    MaxConnections = 2
    MaxFaults = 1
    Client = {c1, c2}
    ModePerSymbol = TRUE
    MaxRelogins = 1
    c1 = c1
    c2 = c2
    a = a
    b = b
    d = d
SYMMETRY Symmetric
INVARIANTS TypeOK CountsMatch   AdapterIsOpen
PROPERTIES PlacementSpec
CHECK_DEADLOCK FALSE
CONSTRAINT Few
