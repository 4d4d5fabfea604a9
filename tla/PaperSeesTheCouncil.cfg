SPECIFICATION ReportSpec
CONSTANTS
    Leaders <- MCLeaders
    RecordedRow <- MCRecordedRow
    ShownPerField = 1
    Unknown = Unknown
    ModelSteps = {"causality", "mechanism"}
    MaxRows = 3
    MaxLosses = 0
    MaxOverruns = 1
INVARIANT PaperSeesTheCouncil
\* A written paper stays as it is.
CHECK_DEADLOCK FALSE
