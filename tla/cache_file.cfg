\* Accesses, syncs and cleanups of two torrents, two saves that accesses start
\* and the cleanup's, two restarts and two failures of the disk.
CONSTANTS
    a = a
    b = b
    first = first
    second = second
    cleaner = cleaner
    Torrents <- MCTorrents
    Saves <- MCSaves
    Cleaner = cleaner
    MaxNow = 2
    MaxRestarts = 2
    MaxFaults = 2
SYMMETRY MCSymmetry
SPECIFICATION Spec
INVARIANTS TypeOK FileIsCurrent DatesStand
