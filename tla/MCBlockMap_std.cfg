\* The root directory and a file mkfs installed, growing through direct, single and double
\* indirect blocks, interleaving on one bitmap.
CONSTANTS
    f1 = f1
    f2 = f2
    r0 = r0
    Files <- StdFiles
    Kind <- StdKind
    NDIRECT = 1
    NINDIRECT = 2
    NBLOCKS = 16
    NMETA = 2
    RADIX = 256
    MaxBlocks = 4
    Root = f1
    Installed <- StdInstalled
    RootBlocks <- StdRootBlocks
    MkfsMax = 3
SPECIFICATION Spec
VIEW LiveView
INVARIANT TypeOK
INVARIANT BitmapMatchesInodes
INVARIANT ReadYourWrites
INVARIANT BlocksExclusive
INVARIANT NoPanic
PROPERTY FileContents
