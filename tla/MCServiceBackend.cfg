SPECIFICATION FairSpec
CONSTANTS
    a = a
    b = b
    Callers <- TwoCallers
    NoCaller = NoCaller
    MaxKey = 3
    MaxLate = 1
INVARIANTS
    ClosedKeepsNoKey
PROPERTIES
    FetchesOnlyNewKeys
    KeyErrorNeedsTwoRotations
    SaveSuccessIsStored
    CallsReturn
