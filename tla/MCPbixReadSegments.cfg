CONSTANTS
    Names = {"a", "b"}
    Versions <- MCVersions
    NoVersion = NoVersion
    VectorSize = 2
    MaxGarbage = 3
    MaxReplacements = 2
SPECIFICATION Spec
INVARIANT
    ReadsWholeTable
