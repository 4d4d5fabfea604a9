SPECIFICATION CouncilSpec
CONSTANTS
    NPhases = 4
    JointModeling = 3
    text = text
    NoGuidance = NoGuidance
    Guidance <- MCGuidance
    AlwaysRun <- MCAlwaysRun
    MaxInterruptions = 1
    MaxReruns = 1
    p1 = p1
    p2 = p2
    p3 = p3
    t1 = t1
    t2 = t2
    u1 = u1
    Paper <- MCPaper
    Text <- MCText
    Adversarial <- MCAdversarial
    UserDois <- MCUserDois
    Upload <- MCUpload
    KbDoc = {}
    Retracted <- MCRetracted
    AfterCutoff <- MCAfterCutoff
    OffTopic <- MCOffTopic
    SourceLimit = 2
    ToolLimit = 3
    MaxCrashes = 1
    m1 = m1
    m2 = m2
    Members <- MCMembers
    PhaseKinds <- MCPhaseKinds
    ManageThreshold = 5
    MaxFallback = 1
    Weight <- MCWeight
    MaxWeight = 1
    RecallBudget = 2
    MaxMishaps = 2
    Leaders <- MCLeaders
    RecordedRow <- MCRecordedRow
    ShownPerField = 1
    Unknown = Unknown
    ModelSteps = {"causality", "mechanism"}
    MaxRows = 3
    MaxLosses = 1
    MaxOverruns = 1
INVARIANTS
    TypeOK
    GateNotBypassed
    GuidanceIsTheAnswer
    CheckpointCoversLedger
    CompletionIsHonest
    OneRowPerPaper
    AcquisitionIsAccountedFor
    BudgetBuysExactlyN
    MemoryFollowsTheLedger
    NothingIsLostOnTheWay
PROPERTIES
    PhasesInProtocolOrder
    CompletedPhaseNotRepolled
    DeliberationFinishes
\* A finished task may stay as it is, and a recorded pass is over.
CHECK_DEADLOCK FALSE
