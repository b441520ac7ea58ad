SPECIFICATION Spec
CONSTANTS
    Input <- MCInput
    TopK = 2
    Sample = {0, 1}
    StrideLen = 2
    WindowLen = 3
    BlockLen = 2
    ContextLen = 2
    MaxChunk = 3
    MaxAudio = 8
INVARIANTS
    FormsDecoded
    PictureReported
    SpeechDecoded
    FramesInContext
    PeopleIndexed
CHECK_DEADLOCK FALSE
