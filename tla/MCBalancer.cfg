SPECIFICATION FairSpec
CONSTANTS
    s1 = s1
    s2 = s2
    s3 = s3
    Servers = {s1, s2, s3}
    NoServer = NoServer
    Group <- MCGroup
    BALANCERUNS = 5
    MaxElections = 1
INVARIANTS
    GivesUpSurplusOnly
    ShareKept
PROPERTY
    BalanceReturns
