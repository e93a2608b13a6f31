CONSTANTS
    N = 2
    Threads = {p, q}
    Blobs = {"b", "c", "r", "e", "g", "s", "u"}
    Trees = {"t"}
    Entries <- MCEntries
    Splittable = {"b", "t", "g"}
    Chunks <- MCChunks
    TooLarge = {"b", "t", "r", "g"}
    Keys = {"a", "e", "d"}
    Values = {"r", "e", "s", "u"}
    NoValue = NoValue
    ValueBlob <- MCValueBlob
    Outputs <- MCOutputs
    Unlinked <- MCNothing
    Implied <- MCImplied
    Requests <- MCBoth
    Watched <- MCWatched
    IgnoredWritesFail = FALSE
SPECIFICATION MCSpec
INVARIANTS TreeInvariant LargeInvariant CacheInvariant NothingReferencedLost
PROPERTY UplinkKeepsFreshEntry
SYMMETRY MCSymmetry
