SPECIFICATION Spec
CONSTANTS
    Archives <- MCArchives
    Window = 256
    IntSpace = 32
INVARIANTS
    CatalogInv
    IntactIsRead
    DatabaseIsWhole
    FilesFound
