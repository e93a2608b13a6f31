CONSTANTS
    t1 = t1
    t2 = t2
    Threads = {t1, t2}
    Commits = {"commit"}
    Archives = {"archive", "zip"}
    Distdirs = {"dir", "page"}
    FilePaths = {"path"}
    PlainTrees = {"tree"}
    Files = {"file"}
    TreeOf <- MCTreeOf
    Resolved <- MCResolved
    Below <- MCBelow
    Generations = 2
    MaxTrouble = 1
    MaxCollections = 2
    Casts <- MCCasts
SPECIFICATION Spec
INVARIANTS  IdsAreBacked PresentRootsAvailable AbsentRootsServed NetworkIsLast FailureHasCause
CHECK_DEADLOCK FALSE
