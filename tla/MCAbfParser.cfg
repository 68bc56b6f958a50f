CONSTANTS
    BlockSize = 3
    MaxLength = 14
    Threads <- MCThreads
    Files <- MCFiles
    Trailings <- MCTrailings
    Modulus = 64
SPECIFICATION FairSpec
INVARIANTS
    TypeOK
    Accounted
    BufferMapsModel
    OnlyDamageIsRejected
    TrailingBlocksKept
    ResultExact
    ProperTrailingWorks
    ParserInv
PROPERTIES
    Terminates
