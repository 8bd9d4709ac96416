\* The same captures: one cut right after a length prefix.
SPECIFICATION Spec
CONSTANTS
    Lengths = {0, 1, 3}
    MaxFrames = 3
INVARIANT
    TruncatedFrameIsError
