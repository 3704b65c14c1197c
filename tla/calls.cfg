SPECIFICATION AgentSpec
CONSTANTS
    Char <- MCChar
    LineSep <- UnixLineSep
    Absent = Absent
    Requests <- MCRequests
    Contents <- MCContents
    MaxFaults = 1
    Word <- MCWord
    Normal <- MCNormal
    Dashed <- MCDashed
    Override <- MCOverride
    Inside <- MCInside
    Forbidden <- MCForbidden
    Chained <- MCChained
    Outside <- MCOutside
    RootOption <- MCRootOption
    Inline <- MCInline
    Commands <- MCCommands
    Proc = {t1}
    Issuers = {t1}
    Operators = {t1}
    Token = {k1, k2}
    Empty = Empty
    Garbled = Garbled
    None = None
    TTL = 1
    MaxTime = 2
    MaxCrashes = 2
    MaxCycles = 2
    MaxRuntime = 2
    MaxMutations = 3
    TicksPerSecond = 2
    MaxTicks = 4
    MaxPlan = 2
    MaxFailures = 2
    File = {"helper", "tests"}
    Function <- MCFunction
    Test <- MCTest
    Owner <- MCOwner
    MaxChanged = 2
CHECK_DEADLOCK FALSE
INVARIANTS
    TypeOK
    ScanIsGreedy
    EffectIsWanted
    DeniedWritesNothing
    FailureRestoresText
    ArgvTypeOK
    RunsTheGrammar
    ChangesNeedToken
    TokensTypeOK
    RevokedIsDenied
    FilesTellTheGrants
    CycleTypeOK
    SubmissionsAreCharged
    PlansFitTheBudget
    OverspendIsBounded
    SelectionTypeOK
    ImpactIsReachability
    QueueIsBounded
PROPERTIES
    StepEnds
    ArgvIsDecided
    CallerStops
    SelectionEnds
