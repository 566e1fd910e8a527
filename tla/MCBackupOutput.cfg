SPECIFICATION MCSpec
CONSTANTS
    MaxSeq = 7
    MaxWrites = 4
    None = None
    MaxMsgs = 4
    a = a
    b = b
    Subjects = {a, b}
    Any = Any
    Kinds <- MCKinds
    Sources <- MCSources
    Heads <- MCHeads
    Options <- MCOptions
INVARIANTS
    PublishedIsRestorable
    Recorded
    WritesSurvivors
    OutputIsRestorable
