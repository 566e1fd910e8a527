SPECIFICATION Spec
CONSTANTS
    Chunks = 2
    MaxCalls = 3
    EofKinds = {"alone", "withData"}
    NoFile = NoFile
INVARIANT
    UploadIsComplete
CHECK_DEADLOCK FALSE
