CONSTANTS
    Names <- StdNames
    Inums = {3, 4}
    Self = 1
    Parent = 2
    Dot <- DotName
    DotDot <- DotDotName
    BUCKETSLOTS = 2
    HASHBASE = 1
    HASHRANGE = 3
    OVFIRST = 6
    OVEND = 10
    DIRSIZ = 3
    Garbage <- StackBytes
    BLOCKSLOTS = 2
    RootArgs <- StdRoot
SPECIFICATION Spec
INVARIANTS
    TypeOK
    EveryEntryFound
PROPERTIES
    AbsSpec
