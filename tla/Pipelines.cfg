\* Two pipelines that may call each other, a model service and a mock; the run may be
\* canceled and may break at any time.
SPECIFICATION Spec
CONSTANTS
    outer = outer
    inner = inner
    model = model
    mock = mock
    stranger = stranger
    a = a
    b = b
    None = None
    Pipelines = {outer, inner}
    Services = {model}
    Mocks = {mock}
    Strangers = {stranger}
    NodeIds = {a, b}
    Root = outer
    MaxDepth = 3
    Manifests <- MCManifests
INVARIANTS
    TypeOK
    ExecutionFollowsManifests
    OneLateCall
PROPERTIES
    RequestIsHeard
    KeepsContract
\* An execution that has ended does nothing any more.
CHECK_DEADLOCK FALSE
