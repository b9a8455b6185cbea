SPECIFICATION Spec
CONSTANTS
    OutputLimit = 2
    MaxWritten = 3
INVARIANTS
    TypeOK
    NothingLeftBehind
    CompletedOnWholeOutput
    CaptureBounded
PROPERTIES
    TriageEnds
