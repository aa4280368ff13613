\* One standard-layout file grown into the triple-indirect tree and
\* truncated.
CONSTANTS
    f1 = f1
    f2 = f2
    Files <- ExtFiles
    Kind <- TripleKind
    NDIRECT = 1
    NINDIRECT = 1
    NBLOCKS = 12
    NMETA = 2
    RADIX = 256
    MaxBlocks = 4
    r0 = r0
    Root = r0
    Installed <- NoInstalled
    RootBlocks = {}
    MkfsMax = 0
SPECIFICATION Spec
INVARIANT BitmapMatchesInodes
