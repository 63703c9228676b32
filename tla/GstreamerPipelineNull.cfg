CONSTANTS
    MaxMessages = 1
    PipelineFaults = {"null"}
SPECIFICATION PipelineSpec
INVARIANT ReleasedInNull
