SPECIFICATION Spec
CONSTANTS
    Proc = {t1, t2}
    Plan = {"p1", "p2"}
    Path <- MCPath
    Text <- MCText
    Absent = Absent
    None = None
    Hidden = {}
    Steps <- RaceSteps
    MaxStepsPerPlan = 25
    Disk0 <- MCDisk0
    OutsideEdits <- NoEdits
    MaxSubmits = 1
    MaxEdits = 0
    MaxCrashes = 0
    MaxFaults = 0
CHECK_DEADLOCK FALSE
PROPERTIES
    StartsOnApprovedWorkspace
