\* Captures of up to three frames, one of the lengths zero, cut anywhere.
SPECIFICATION PipeSpec
CONSTANTS
    Lengths = {0, 1, 3}
    MaxFrames = 3
    Intervals = {0, 2}
    MaxLoaded = 2
    MaxApplied = 3
INVARIANTS
    FramesInOrder
    NoFalseTruncation
    CompleteCountsAll
    CaptureIsPrefix
PROPERTY
    PipelineEnds
