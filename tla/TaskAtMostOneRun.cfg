SPECIFICATION SerialSpec
CONSTANTS
    Worker = {w1, w2}
    Client = {c1}
    Nobody = Nobody
    NPhases = 2
    GatePhase = 2
    MaxRetries = 1
    Fault = {}
    MaxFaults = 0
    MaxReruns = 0
INVARIANT
    AtMostOneRun
\* A finished task may stay as it is.
CHECK_DEADLOCK FALSE
