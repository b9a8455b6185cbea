SPECIFICATION Spec
CONSTANTS
    NSections = 2
    MaxQA = 1
INVARIANT
    FailureNamesItsStage
