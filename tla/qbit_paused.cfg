\* As qbit.cfg, with no call that fails.
CONSTANTS
    a = a
    b = b
    Torrents <- MCTorrents
    NoHash = NoHash
    Parts <- MCParts
    Streams = {1, 2}
    Failing = {}
    MaxBegins = 2
SPECIFICATION Spec
PROPERTIES PausesOnlyUnwatched
CHECK_DEADLOCK FALSE
