\* Liveness is checked without symmetry, on two plays and one stop.
SPECIFICATION FairSpec
CONSTANTS
    s1 = s1
    s2 = s2
    s3 = s3
    Songs = {s1, s2}
    NoSong = NoSong
    Garbage = Garbage
    MaxStops = 1
PROPERTY
    QueuedIsDelivered
