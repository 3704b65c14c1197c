SPECIFICATION Spec
CONSTANTS
    Char <- MCChar
    LineSep <- UnixLineSep
    Absent = Absent
    Requests <- MCRequests
    Contents <- MCContents
    MaxFaults = 0
CHECK_DEADLOCK FALSE
INVARIANTS
    FailureRestoresFile
