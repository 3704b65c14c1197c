SPECIFICATION Spec
CONSTANTS
    Proc = {t1}
    Plan = {"p1"}
    Path <- MCPath
    Text <- MCText
    Absent = Absent
    None = None
    Hidden = {}
    Steps <- ApprovalSteps
    MaxStepsPerPlan = 25
    Disk0 <- MCDisk0
    OutsideEdits <- NoEdits
    MaxSubmits = 2
    MaxEdits = 0
    MaxCrashes = 0
    MaxFaults = 0
CHECK_DEADLOCK FALSE
INVARIANTS
    DenialsAreReplays
