\* Two requests, at once or one after the other, for any of the files.
\* Every call may fail but those that select files.
CONSTANTS
    a = a
    b = b
    Torrents <- MCTorrents
    NoHash = NoHash
    Parts <- MCParts
    Streams = {1, 2}
    Failing = {"add", "resume", "info", "pause", "list", "remove"}
    MaxBegins = 2
SPECIFICATION FairSpec
INVARIANTS TypeOK OneTorrentStays DirectIsDownloaded
PROPERTIES ResponseEnds
\* When all requests have been made and have ended nothing is left to do.
CHECK_DEADLOCK FALSE
