SPECIFICATION Spec
CONSTANTS
    Chunks = 2
    MaxCalls = 3
    EofKinds = {"alone"}
    NoFile = NoFile
INVARIANTS
    MetaMeansComplete
    ResultIsTrue
    UploadIsComplete
PROPERTIES
    OperationsReturn
CHECK_DEADLOCK FALSE
