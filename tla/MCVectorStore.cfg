SPECIFICATION Spec
CONSTANTS
    Procs = {p1, p2}
    NFiles = 2
    MaxVersion = 2
    MaxChunks = 2
    MaxStarts = 3
SYMMETRY ProcSymmetry
CHECK_DEADLOCK FALSE
INVARIANTS
    TypeOK
    OneVectorPerRow
    OnlyALoadUnpairs
    WholeVersions
    IndexedIsStored
    ReingestHeals
PROPERTY
    SavesKeepFiles
