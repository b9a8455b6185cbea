SPECIFICATION Spec
CONSTANTS
    MaxArgs = 3
    MaxQueries = 2
    MaxMacro = 2
INVARIANTS
    TypeOK
    ExitTellsReceipt
    RerunsEarned
PROPERTIES
    QueryAnswered
