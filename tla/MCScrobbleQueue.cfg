\* Three plays, two stops: a song may be on disk, one in SubmitQueue and one
\* playing when the first stop comes, and the second may hit the recovery.
SPECIFICATION Spec
CONSTANTS
    s1 = s1
    s2 = s2
    s3 = s3
    Songs = {s1, s2, s3}
    NoSong = NoSong
    Garbage = Garbage
    MaxStops = 2
SYMMETRY Symmetry
INVARIANTS
    TypeOK
    Indexed
    Mirror
    FinishedIsGone
    CacheCovered
PROPERTIES
    GracefulStopKeeps
    ServiceSpec
