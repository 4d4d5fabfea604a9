SPECIFICATION Spec
CONSTANTS
    Worker = {w1, w2}
    Client = {c1}
    Nobody = Nobody
    NPhases = 2
    GatePhase = 2
    MaxRetries = 1
    Fault = {"crash", "connection", "abort", "blip"}
    MaxFaults = 1
    MaxReruns = 0
SYMMETRY Symmetry
INVARIANTS
    CheckpointIsBacked
    CompletionIsBacked
\* A finished task may stay as it is.
CHECK_DEADLOCK FALSE
