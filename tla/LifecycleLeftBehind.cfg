\* One run that may be canceled; workers and stores do not fail.
SPECIFICATION Spec
CONSTANTS
    r1 = r1
    r2 = r2
    s1 = s1
    w1 = w1
    w2 = w2
    w3 = w3
    None = None
    Runs = {r1}
    Strays = {}
    Workers = {w1, w2}
    Cancellable = {r1}
    Unreliable = {}
    LateHeartbeats = FALSE
INVARIANT NoMessageLeftBehind
