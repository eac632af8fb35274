\* A gateway that may die, a worker that starts beside it, and two requests of every kind.
SPECIFICATION Spec
CONSTANTS
    g1 = g1
    w1 = w1
    r1 = r1
    r2 = r2
    None = None
    Processes = {g1, w1}
    Failing = {g1}
    Gateways = {g1}
    Requests = {r1, r2}
    Bodies <- TheBodies
    Reported = {"running"}
    Manifests <- TheManifests
    OnDisk = None
CHECK_DEADLOCK FALSE
INVARIANTS
    TypeOK
    ServingHasTables
    OperationsMatchRecords
    EventsTellOutcome
    RecordIsLatest
    VerdictsKnowRecords
PROPERTIES
    StartsSettle
