CONSTANTS
    BlockSize = 3
    MaxLength = 14
    Threads <- MCThreads
    Files <- MCFiles
    Trailings <- MCTrailings
    Modulus = 64
SPECIFICATION Spec
INVARIANTS
    ReadsStayInBuffer
