SPECIFICATION Spec
CONSTANTS
    NPhases = 4
    JointModeling = 3
    text = text
    NoGuidance = NoGuidance
    Guidance <- MCGuidance
    AlwaysRun <- MCAlwaysRun
    MaxInterruptions = 1
    MaxReruns = 2
INVARIANT
    GuidanceReachesJointModeling
\* A finished task may stay as it is.
CHECK_DEADLOCK FALSE
