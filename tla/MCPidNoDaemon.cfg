\* One of the calls has --no-daemon.
SPECIFICATION Spec
CONSTANTS
    p1 = p1
    p2 = p2
    p3 = p3
    Starts = {p1, p2, p3}
    Paths <- MCPaths
    Configs <- MCConfigs
    Absent = Absent
    Invalid = Invalid
INVARIANT
    AtMostOneRunning
CHECK_DEADLOCK FALSE
