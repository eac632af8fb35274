\* Every adapter, with every set of gateway methods; the run may be canceled and any call
\* may fail at any time.
SPECIFICATION Spec
CONSTANT Adapters <- AllAdapters
INVARIANTS
    TypeOK
    CancelReachesRuntime
    ResultIsFinal
    MessageHasSession
PROPERTIES
    RequestIsHeard
    KeepsContract
\* An execution that has ended does nothing any more.
CHECK_DEADLOCK FALSE
