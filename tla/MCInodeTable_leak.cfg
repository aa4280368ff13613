CONSTANTS
    p1 = p1
    p2 = p2
    None = None
    Procs <- TwoProcs
    NINODES = 5
    NINODE = 2
    ROOTINO = 1
    Types <- TwoTypes
    MaxNamed = 3
    MAXDUP = 1
    DirType <- T_DIR
    FileType <- T_FILE
    MkfsFiles = {0}
SPECIFICATION Spec
SYMMETRY ProcSymmetry
INVARIANTS
    NoInodeLeak
