\* A request to the server blocks the loop for longer than StartWindow.
SPECIFICATION Spec
CONSTANTS
    long = long
    stream = stream
    untagged = untagged
    LongTime = 12
    ShortTime = 2
    Tracks = {long}
    Info <- MCInfo
    MbidOnly = FALSE
    MinTime = 4
    LongPlay = 6
    Crossfade = 0
    StartWindow = 3
    MaxGap = 4
    MaxPlays = 2
    MaxMoves = 0
    MaxEdits = 0
    SeekTo = {0, 8}
    MaxOutages = 0
    None = None
INVARIANT
    OwnStartTime
CHECK_DEADLOCK FALSE
