SPECIFICATION Spec
CONSTANTS
    Proc = {t1}
    Plan = {"p1"}
    Path <- MCPath
    Text <- MCText
    Absent = Absent
    None = None
    Hidden = {}
    Steps <- ApprovalSteps
    MaxStepsPerPlan = 25
    Disk0 <- MCDisk0
    OutsideEdits <- NoEdits
    MaxSubmits = 1
    MaxEdits = 0
    MaxCrashes = 0
    MaxFaults = 1
CHECK_DEADLOCK FALSE
INVARIANTS
    ExecutedTookEffect
