CONSTANTS
    MaxMessages = 1
    PipelineFaults = {}
    Faults = {}
    MaxSignals = 0
    ArgumentLists <- FiniteRun
    Numbers <- AllNumbers
    MaxGint = 7
    Dashed <- AllDashed
SPECIFICATION Spec
INVARIANT DeadlineIsAbsolute
CHECK_DEADLOCK FALSE
