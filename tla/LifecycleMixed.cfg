\* Two runs, of which r2 may be canceled at any time, and two workers that may both fail
\* anywhere. Heartbeats are in time.
SPECIFICATION Spec
CONSTANTS
    r1 = r1
    r2 = r2
    s1 = s1
    w1 = w1
    w2 = w2
    w3 = w3
    None = None
    Runs = {r1, r2}
    Strays = {}
    Workers = {w1, w2}
    Cancellable = {r2}
    Unreliable = {w1, w2}
    LateHeartbeats = FALSE
INVARIANTS
    LivenessIsTruthful
    LoggedOutcomeIsStatus
    AckedIsSweepable
PROPERTY StatusFollowsPolicy
SYMMETRY WorkersAlike
\* Every worker may have stopped, and then nothing happens any more.
CHECK_DEADLOCK FALSE
