\* Two torrents, two calls at once, three numbers.
CONSTANTS
    Hashes = {a, b}
    NoHash = NoHash
    Calls = {c1, c2}
    MaxIDs = 3
SPECIFICATION Spec
INVARIANTS TypeOK NumbersAreRight
