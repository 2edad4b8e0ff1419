\* MPD refuses the password.
SPECIFICATION Spec
CONSTANTS
    BufferMax <- MCBufferMax
    Width <- MCWidth
    HasPassword = TRUE
    MayRefuse = TRUE
INVARIANT
    FailedConnectIsRetried

