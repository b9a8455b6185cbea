SPECIFICATION Spec
CONSTANTS
    Procs = {p1}
    NFiles = 1
    MaxVersion = 2
    MaxChunks = 1
    MaxStarts = 3
CHECK_DEADLOCK FALSE
INVARIANT
    LoadSeesOneSave
