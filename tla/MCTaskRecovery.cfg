SPECIFICATION RecoverySpec
CONSTANTS
    Worker = {w1}
    Client = {c1}
    Nobody = Nobody
    NPhases = 3
    GatePhase = 2
    MaxRetries = 1
    Fault = {"crash", "connection", "abort", "blip"}
    MaxFaults = 2
    MaxReruns = 2
    Handler = {h1, h2}
    Name = {m1}
    Email = {e1}
    GuessLimit = 1
    DailyLimit = 1
    MaxCodes = 2
    MaxChanges = 3
    Caller = {h1, h2}
    Task = {k1, k2}
    Pdf = {f1}
    AtomicClaim = {a1}
    TrialLimit = 1
    MaxContinuations = 1
    HistoryTurns = 2
    HistoryLength = 2
    MaxDeltas = 3
    MaxQuestions = 2
    Base = {b1, b2}
    Document = {d1, d2}
    Text = {x1}
    Librarian = {h1, h2}
    Study = {p1}
    Skill = {s1, s2, s3}
    Repository = {"collection", "single", "bare"}
    Carries <- MCCarries
    Conventional = {"single"}
    Legacy = {s1}
    MaxListed = 1
INVARIANTS
    TypeOK
    CodesAreLimited
    TrialsAreCounted
    DeletedTaskLeavesNoRows
    AnswersAreWhole
    DocumentsBackTheirSources
    SkillsKeepTheirText
PROPERTIES
    FinishedStaysFinished
    CompletedWorkIsKept
\* A finished task may stay as it is.
SYMMETRY Symmetry
CHECK_DEADLOCK FALSE
