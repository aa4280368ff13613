\* One extent-layout file written contiguously one block past what the
\* length field of an extent word can hold (RADIX - 1 blocks).
CONSTANTS
    f1 = f1
    f2 = f2
    Files <- ExtFiles
    Kind <- ExtKind
    NDIRECT = 1
    NINDIRECT = 2
    NBLOCKS = 8
    NMETA = 2
    RADIX = 4
    MaxBlocks = 4
    r0 = r0
    Root = r0
    Installed <- NoInstalled
    RootBlocks = {}
    MkfsMax = 0
SPECIFICATION Spec
INVARIANT ReadYourWrites
