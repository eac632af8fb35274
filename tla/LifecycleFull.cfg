\* One run, one stray entry and two workers in the worst environment: the run may be
\* canceled at any time, both workers may fail anywhere, and heartbeats may be late.
SPECIFICATION Spec
CONSTANTS
    r1 = r1
    r2 = r2
    s1 = s1
    w1 = w1
    w2 = w2
    w3 = w3
    None = None
    Runs = {r1}
    Strays = {s1}
    Workers = {w1, w2}
    Cancellable = {r1}
    Unreliable = {w1, w2}
    LateHeartbeats = TRUE
INVARIANTS
    TypeOK
    NothingIsDropped
    OutcomeMatchesOutputs
PROPERTY DispatchIsAtMostOnce
SYMMETRY WorkersAlike
\* Every worker may have stopped, and then nothing happens any more.
CHECK_DEADLOCK FALSE
