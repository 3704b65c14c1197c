SPECIFICATION FairSpec
CONSTANTS
    Proc = {t1, t2}
    Plan = {"p1"}
    Path <- MCPath
    Text <- MCText
    Absent = Absent
    None = None
    Hidden = {"log"}
    Steps <- FaultySteps
    MaxStepsPerPlan = 25
    Disk0 <- MCDisk0
    OutsideEdits <- NoEdits
    MaxSubmits = 2
    MaxEdits = 0
    MaxCrashes = 1
    MaxFaults = 1
CHECK_DEADLOCK FALSE
INVARIANTS
    ApprovalsSpendSubmissions
    ApprovedIsReadable
    StartsNeedApproval
    SummaryMatchesMarker
PROPERTIES
    CommandsEnd
    InFlightIsDecided
    ImplementsExecutionRecord
    FailedLeavesNoTrace
