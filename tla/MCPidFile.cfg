\* Starts and stops in any order, with every failure; one may be without a console,
\* or have a relative pid_file.
SPECIFICATION Spec
CONSTANTS
    p1 = p1
    p2 = p2
    p3 = p3
    Starts = {p1, p2, p3}
    Paths <- MCPaths
    Configs <- MCConfigs
    Absent = Absent
    Invalid = Invalid
INVARIANTS
    TypeOK
    OneAtATime
    PidFileNamesRunner
    NothingLeftBehind
CHECK_DEADLOCK FALSE
