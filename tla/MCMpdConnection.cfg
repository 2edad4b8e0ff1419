\* Every failure of MPD and of the network, with a password.
SPECIFICATION FairSpec
CONSTANTS
    BufferMax <- MCBufferMax
    Width <- MCWidth
    HasPassword = TRUE
    MayRefuse = TRUE
INVARIANTS
    TypeOK
    StatusIsOwn
    TaintedSongIsLast
PROPERTIES
    LinesInOrder
    StatusComesBack
