\* Two runs, nobody cancels and heartbeats are in time; worker w1 may fail anywhere,
\* worker w2 may not. The scheduling is fair.
SPECIFICATION FairSpec
CONSTANTS
    r1 = r1
    r2 = r2
    s1 = s1
    w1 = w1
    w2 = w2
    w3 = w3
    None = None
    Runs = {r1, r2}
    Strays = {}
    Workers = {w1, w2}
    Cancellable = {}
    Unreliable = {w1}
    LateHeartbeats = FALSE
INVARIANT ReliableConsumersSurvive
PROPERTIES
    StartedRunsSettle
    PublishedRunsSettle
