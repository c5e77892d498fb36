\* The hourly loop and a cleanup asked for at once, over two torrents of which
\* the limit holds one, each old enough to go when two others were used since.
\* A request lowers it and, a step later, sets an age that overflows.
CONSTANTS
    small = small
    large = large
    Torrents <- MCTorrents
    SizeOf <- MCSizeOf
    Cleaners = {loop, api}
    Loop = loop
    CacheSizes = {1, 2}
    MaxAges = {1, 5}
    Changes <- MCChanges
    Configured <- MCConfigured
    Width = 4
    MaxUpdates = 1
    MaxStreams = 2
    MaxNow = 1
SPECIFICATION FairSpec
INVARIANTS TypeOK
PROPERTIES SelectionSound LogFollowsEngine UsageFits
