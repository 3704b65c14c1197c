SPECIFICATION CycleSpec
CONSTANTS
    MaxCycles = 3
    MaxRuntime = 2
    MaxMutations = 3
    TicksPerSecond = 2
    MaxTicks = 4
    MaxPlan = 2
    MaxFailures = 1
CHECK_DEADLOCK FALSE
INVARIANTS
    DeniedSubmitsNothing
