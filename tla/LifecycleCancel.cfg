\* One run that may be canceled at any time; workers and stores do not fail, heartbeats
\* may be late. The scheduling is fair.
SPECIFICATION FairSpec
CONSTANTS
    r1 = r1
    r2 = r2
    s1 = s1
    w1 = w1
    w2 = w2
    w3 = w3
    None = None
    Runs = {r1}
    Strays = {s1}
    Workers = {w1, w2}
    Cancellable = {r1}
    Unreliable = {}
    LateHeartbeats = TRUE
PROPERTIES
    EarlyCancelIsHonoured
    EarlyCancelSettles
CHECK_DEADLOCK FALSE
