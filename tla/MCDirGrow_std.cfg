CONSTANTS
    NDIRECT = 2
    NINDIRECT = 3
    BSIZE = 2
    SBBLOCK = 1
    BMAPBLOCK = 2
    IBLOCK = 3
    Data <- MCData
    LOGCAP = 6
    LOGSLACK = 3
    PreWrites <- EntryLogs
    MAXOPS = 3
SPECIFICATION Spec
INVARIANTS
    TypeOK
    GrowthCommitted
