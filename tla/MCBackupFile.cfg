SPECIFICATION MCSpec
CONSTANTS
    cap = cap
    ob1 = ob1
    ob2 = ob2
    ob3 = ob3
    NoDir = NoDir
    EmptyDir = EmptyDir
    NoKey = NoKey
    Earlier = Earlier
    Writers <- MCWriters
    Obfuscators <- MCObfuscators
    KeyReusers <- MCReusers
    MaxSeq = 3
    MaxLen = 5
    Archives <- MCArchives
INVARIANTS
    FinalIsComplete
    KeyRevealsBackup
    VerdictIsRight
    ReportExact
PROPERTIES
    WritersReturn
    ImplementsAtomicPublish
