\* Two threads switch the mode while the proxy and the data come and go.
SPECIFICATION Spec
CONSTANTS
    Caller = {c1, c2}
    Watcher = {w1, w2}
    MaxLoops = 2
    MaxSlow = 1
    MaxFaults = 1
    None = None
    c1 = c1
    c2 = c2
    w1 = w1
    w2 = w2
INVARIANTS TypeOK OneEngine OffIsOff OneFallback
PROPERTIES StopEnds UpgradeHappens FallbackFollowsData
