SPECIFICATION Spec
CONSTANTS
    MaxLength = 8
    MaxChars = 3
    BatchSize = 3
    MaxSplitDepth = 1
INVARIANTS
    TypeOK
    StoredWhole
    ChunksPacked
    UnitsKeptWhole
    GivesUpOnlyWhenHopeless
    CallsBounded
PROPERTIES
    FileEnds
