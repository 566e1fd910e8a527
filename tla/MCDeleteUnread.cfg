SPECIFICATION MCSpec
CONSTANTS
    a = a
    b = b
    Name = {a, b}
    NoName = NoName
    Slot = a
    g1 = g1
    g2 = g2
    Caller = {g1, g2}
    NoCaller = NoCaller
    Backends = {"file", "rootless", "single", "memory"}
    DefaultURL = "nats://127.0.0.1:4222"
    Payloads <- MCPayloads
    OptionSets <- MCOptionSets
    Machines <- MCMachines
    MaxSaves = 2
INVARIANT
    DeleteSparesActive
