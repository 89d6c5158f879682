\* Two tabs, each of which approves, rejects and deletes.
SPECIFICATION FairSpec
CONSTANTS
    Web = {w1, w2}
    Kinds = {"single", "batch", "multileg"}
    MaxOrders = 2
    MaxRestarts = 1
    w1 = w1
    w2 = w2
INVARIANTS TypeOK SentOnceUnlessRaced
PROPERTIES DeletesOnlyDecided ApprovedIsRecorded
CHECK_DEADLOCK FALSE
