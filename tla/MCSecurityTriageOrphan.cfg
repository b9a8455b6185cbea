SPECIFICATION Spec
CONSTANTS
    OutputLimit = 2
    MaxWritten = 3
INVARIANT TimeoutKillsProcess
