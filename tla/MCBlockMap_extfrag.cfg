\* An extent-layout file and a standard file writing in turn, so that the
\* extent file's blocks are not contiguous on disk.
CONSTANTS
    f1 = f1
    f2 = f2
    Files <- MixFiles
    Kind <- MixKind
    NDIRECT = 2
    NINDIRECT = 1
    NBLOCKS = 10
    NMETA = 2
    RADIX = 4
    MaxBlocks = 2
    r0 = r0
    Root = r0
    Installed <- NoInstalled
    RootBlocks = {}
    MkfsMax = 0
SPECIFICATION Spec
INVARIANT ReadYourWrites
