\* One writer, whose events are written one after another, at ids 9 and 10.
SPECIFICATION Spec
CONSTANTS
    w1 = w1
    w2 = w2
    w3 = w3
    c1 = c1
    None = None
    Writers = {w1}
    Clients = {c1}
    FirstId = 9
    LastId = 10
INVARIANT EventsInOrder
