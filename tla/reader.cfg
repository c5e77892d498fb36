\* A file across three pieces of four, every header of a 4-bit int64, and the
\* fairness of the download.
CONSTANTS
    MaxInt = 7
    PieceSize = 2
    FileOffset = 1
    FileSize = 4
    TorrentSize = 7
    MaxRead = 3
SPECIFICATION FairSpec
INVARIANTS TypeOK StartsDownloaded BodyIsTheRange
PROPERTIES StreamEnds
