\* Every second is polled, and the connection holds: songs one after the other, one that is
\* repeated, stopped, played again, paused or sought.
SPECIFICATION Spec
CONSTANTS
    long = long
    stream = stream
    untagged = untagged
    LongTime = 12
    ShortTime = 2
    Tracks = {long}
    Info <- MCInfo
    MbidOnly = FALSE
    MinTime = 4
    LongPlay = 6
    Crossfade = 0
    StartWindow = 3
    MaxGap = 1
    MaxPlays = 2
    MaxMoves = 1
    MaxEdits = 0
    SeekTo = {0, 8}
    MaxOutages = 0
    None = None
INVARIANTS
    TypeOK
    HeardEnough
    OncePerPlay
    OwnStartTime
    HeardIsKept
CHECK_DEADLOCK FALSE
