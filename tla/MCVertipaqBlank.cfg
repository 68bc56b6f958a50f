SPECIFICATION Spec
CONSTANTS
    Columns <- MCColumns
    Chunk = 2
    WordBits = 6
    IdSpace = 64
    Marker = 63
    Unit = 4
    Digit = 2
    IntMax = 40000
INVARIANTS
    BlankIsRead
