SPECIFICATION GatewaySpec
CONSTANTS
    Char <- MCChar
    LineSep <- UnixLineSep
    Absent = Absent
    Requests = {}
    Contents = {}
    MaxFaults = 0
    Word <- MCWord
    Normal <- MCNormal
    Dashed <- MCDashed
    Override <- MCOverride
    Inside <- MCInside
    Forbidden <- MCForbidden
    Chained <- MCChained
    Outside <- MCOutside
    RootOption <- MCRootOption
    Inline <- MCInline
    Commands <- MCCommands
CHECK_DEADLOCK FALSE
INVARIANTS
    OverridesAreDenied
