SPECIFICATION FloorSpec
CONSTANTS
    s1 = s1
    s2 = s2
    c1 = c1
    x1 = x1
    n1 = n1
    Nobody = Nobody
    Roster <- MCRoster
    MaxAttempts = 2
    Concurrency = 2
    Deadline = 3
    AttemptTimeout = 2
    Pause = 1
    NPhases = 2
    CallCost = 1
    ModelBudget = 1
    Repairs = 1
    TransportRetries = 3
    Bench <- MCRoster
    Claims <- MCClaims
    Sources <- MCSources
    Stranger = Stranger
    Quarantine <- MCQuarantine
    Malformed = Malformed
INVARIANTS
    FloorTypeOK
    AbsenceIsExplained
    PaidCallsAreRecorded
    CallIsAccountedFor
    RoundsKeepWhatIsSaid
    OnlyReusedIdsEndThePass
PROPERTIES
    PassEnds
\* A council may stay as it is.
CHECK_DEADLOCK FALSE
