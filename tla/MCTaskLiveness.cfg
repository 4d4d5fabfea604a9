SPECIFICATION FairSpec
CONSTANTS
    Worker = {w1}
    Client = {c1}
    Nobody = Nobody
    NPhases = 2
    GatePhase = 2
    MaxRetries = 1
    Fault = {"crash", "connection", "abort", "blip"}
    MaxFaults = 2
    MaxReruns = 1
PROPERTIES
    QueuedTaskComesToRest
    EventsAreProjected
\* A finished task may stay as it is.
CHECK_DEADLOCK FALSE
