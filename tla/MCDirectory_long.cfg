CONSTANTS
    Names <- LongNames
    Inums = {3}
    Self = 1
    Parent = 2
    Dot <- DotName
    DotDot <- DotDotName
    BUCKETSLOTS = 2
    HASHBASE = 1
    HASHRANGE = 3
    OVFIRST = 6
    OVEND = 10
    DIRSIZ = 2
    Garbage <- StackBytes
    BLOCKSLOTS = 2
    RootArgs <- NoRoot
SPECIFICATION Spec
INVARIANTS
    EveryEntryFound
