\* Frames of up to 140 bytes through a socket of three, two calls on the connection.
CONSTANTS
    MaxCategory = 1
    MaxAdvertiser = 1
    MaxAffinities = 1
    MaxExcluded = 1
    MaxRecommendCount = 1
    MaxMessage = 1
    Codecs = {"binary", "protobuf"}
    Requests <- MCRequests
    Replies <- MCReplies
    Mangled <- MCMangled
    MaxFrame = 140
    SockBuf = 3
    MaxCalls = 2

SPECIFICATION Spec

\* The connection ends.
CHECK_DEADLOCK FALSE

INVARIANTS
    EndToEnd
    BoundariesKept
    AcceptedIsCanonical
