SPECIFICATION StreamsSpec
CONSTANTS
    s1 = s1
    s2 = s2
    f1 = f1
    f2 = f2
    t1 = t1
    e1 = e1
    e2 = e2
    NoNode = NoNode
    Nobody = Nobody
    Event <- MCEvent
    Emitter = {e1, e2}
    Emits <- MCEmits
    Projector = {p1, p2}
    Slice = {p1, p2}
    MaxNoise = 2
    MaxFailures = 2
    MaxClosingRetries = 1
    Window = 1
    AnchorCap = 1
    Page = 1
    MaxTrace = 3
    MaxVersion = 4
    MaxRequests = 2
SYMMETRY Symmetry
INVARIANTS
    StreamsTypeOK
    GraphIsAFunctionOfTheLedger
    TraceIsWhatWasEmitted
    ClosingRowsAreNotDropped
    AnchorsReachTheView
PROPERTIES
    ImplementsEvidenceLog
    SnapshotsNeverGoBack
CHECK_DEADLOCK FALSE
