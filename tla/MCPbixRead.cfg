CONSTANTS
    Names = {"a", "b"}
    Versions <- MCVersions
    NoVersion = NoVersion
    VectorSize = 2
    MaxGarbage = 3
    MaxReplacements = 2
SPECIFICATION FairSpec
INVARIANTS
    TypeOK
    SteadyExact
    SteadyComplete
    NoShift
    
    ReadInv
PROPERTIES
    OneLoad
    Terminates
