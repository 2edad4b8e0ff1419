\* Every outcome of every call, up to the bound on the clock.
SPECIFICATION Spec
CONSTANTS
    Step <- MCStep
    Longest <- MCLongest
    MaxTime = 14
INVARIANTS
    TypeOK
    SentInTime
PROPERTY
    WaitsAsAnnounced
CHECK_DEADLOCK FALSE
