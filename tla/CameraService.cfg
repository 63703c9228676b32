CONSTANTS
    MaxMessages = 2
    PipelineFaults = {"build", "playing", "null"}
    Faults <- AllFaults
    MaxSignals = 2
    ArgumentLists <- AllArgumentLists
    Numbers <- AllNumbers
    MaxGint = 7
    Dashed <- AllDashed
SPECIFICATION FairSpec
INVARIANTS
    TypeOK
    NeverKilled
    ExitStatusTruthful
    NothingLeftBehind
PROPERTY StopsWhenTold
CHECK_DEADLOCK FALSE
