CONSTANTS
    MaxMessages = 3
    PipelineFaults = {"build", "playing", "null"}
    ArgumentLists <- AllArgumentLists
    Numbers <- AllNumbers
    MaxGint = 7
    Dashed <- AllDashed
SPECIFICATION MCSpec
INVARIANTS
    PipelineTypeOK
    ErrorEndsTheRun
    ZeroMeansCleanRun
PROPERTIES
    OneRunPerBuild
    AlwaysEnds
CHECK_DEADLOCK FALSE
