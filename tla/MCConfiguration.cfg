\* Any three lines, after any two arguments.
SPECIFICATION Spec
CONSTANTS
    Homes <- MCHomes
    UserHome <- MCUserHome
    Arguments <- MCArguments
    Numerals <- MCNumerals
    Lines <- MCLines
    MaxArgs = 2
    MaxLines = 3
INVARIANTS
    TypeOK
    ArgumentsPrevail
    AsWritten
    HostAsSet
CHECK_DEADLOCK FALSE
