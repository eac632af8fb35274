\* Three writers, four ids, two of each length, and one client that may come and go.
SPECIFICATION Spec
CONSTANTS
    w1 = w1
    w2 = w2
    w3 = w3
    c1 = c1
    None = None
    Writers = {w1, w2, w3}
    Clients = {c1}
    FirstId = 8
    LastId = 11
INVARIANTS
    TypeOK
    FeedKeepsOrder
PROPERTIES
    StreamIsFeed
    EveryEventArrives
