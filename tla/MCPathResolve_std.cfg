CONSTANTS
    p1 = p1
    p2 = p2
    None = None
    Procs <- MCProcs
    Inodes <- MCInodes
    ROOTINO = 1
    Cwd = 2
    Type <- MCType
    Dir <- MCDir
    Target <- MCTarget
    Slash = "/"
    Requests <- StdRequests
    MAXREQ = 1
SPECIFICATION Spec
INVARIANTS
    TypeOK
    ResolvesAsReference
    HoldsOnlyCurrent
PROPERTIES
    CallsReturn
