SPECIFICATION FairSpec
CONSTANTS
    Items <- MCItems
    Watches <- MCWatches
    Metrics <- MCMetrics
    OperatorNS = "op"
    ResolverNS = "op"
    NamespaceAll = "all"
    NoPeriod = NoPeriod
    NoAddress = "none"
    DefaultAddress = "default"
    AllowedAddresses = {"ok"}
    Day = 2
    Horizon = 5
INVARIANTS OnceInScope DownOnlyIfIdle PeriodRespected
PROPERTY OthersDoNotMatter
