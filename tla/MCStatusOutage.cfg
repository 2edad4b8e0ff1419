\* Songs, streams and songs without tags follow one another, the playlist is edited, and the
\* connection to MPD is lost, a status refused, a request left unanswered.
SPECIFICATION Spec
CONSTANTS
    long = long
    stream = stream
    untagged = untagged
    LongTime = 10
    ShortTime = 2
    Tracks = {long, stream, untagged}
    Info <- MCInfo
    MbidOnly = FALSE
    MinTime = 5
    LongPlay = 5
    Crossfade = 0
    StartWindow = 3
    MaxGap = 1
    MaxPlays = 2
    MaxMoves = 0
    MaxEdits = 1
    SeekTo = {}
    MaxOutages = 1
    None = None
INVARIANTS
    HeardEnough
    NoStreamNotified
CHECK_DEADLOCK FALSE
