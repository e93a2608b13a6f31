CONSTANTS
    N = 2
    Threads = {p}
    Blobs = {"b", "c", "r"}
    Trees = {"t"}
    Entries <- MCEntries
    Splittable = {"b", "t"}
    Chunks <- MCChunks
    TooLarge = {"b", "t"}
    Keys = {"a"}
    Values = {"r"}
    NoValue = NoValue
    ValueBlob <- MCValueBlob
    Outputs <- MCOutputs
    Unlinked <- MCNothing
    Implied <- MCImplied
    Requests <- MCRequests
    Watched = {}
    IgnoredWritesFail = TRUE
SPECIFICATION MCSpec
PROPERTY CompactificationKeepsObjects
