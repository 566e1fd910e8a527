SPECIFICATION MCSpec
CONSTANTS
    MaxPage = 2
    BadNames <- MCBadNames
    Timeout = 1
    Quiet = 0
    Worlds <- MCWorlds
    Configurations <- MCConfigurations
    ClusterFilter <- MCClusterFilter
    PageLimit = 1
    MaxFaults = 1
    Second = 2
    Worst = 3
    AuditServers <- MCAuditServers
    MaxExamples = 1
    Offers <- MCOffers
    Batches <- MCBatches
    SkippedCodes <- MCSkippedCodes
    SkippedSuites = {"a", "b"}
    Values = {"good", "bad"}
    ValidValues = {"good"}
    HandlerOutcomes = {"Fail", "error"}
INVARIANTS
    ArchiveReadsBack
    SourcesAgree
    MissingReplicaExplained
    ReportAccounts
PROPERTIES
    ResultsAreFinal
    AlarmsFollowReadings
    VerdictsFollowArchive
    GatherEnds
