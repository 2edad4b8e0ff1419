\* A poll may see the playlist and the song change together, as when MPD removes
\* a song that was played (consume mode) or a new playlist is loaded and played.
SPECIFICATION Spec
CONSTANTS
    long = long
    stream = stream
    untagged = untagged
    LongTime = 12
    ShortTime = 2
    Tracks = {long}
    Info <- MCInfo
    MbidOnly = FALSE
    MinTime = 4
    LongPlay = 6
    Crossfade = 0
    StartWindow = 3
    MaxGap = 1
    MaxPlays = 2
    MaxMoves = 2
    MaxEdits = 1
    SeekTo = {0, 8}
    MaxOutages = 0
    None = None
PROPERTY
    MetadataUpdate
CHECK_DEADLOCK FALSE
