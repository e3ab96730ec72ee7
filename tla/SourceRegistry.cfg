CONSTANTS
    a1 = a1
    a2 = a2
    market = market
    startups = startups
    extra = extra
    NoDomain = NoDomain
    Apis <- MCApis
    Defaults <- MCDefaults
    Others <- MCOthers
    MaxAttempts = 2
    MaxRows = 2
    MaxJobs = 1
    MaxIncidents = 1
SPECIFICATION FairSpec
INVARIANT TypeOK
INVARIANT BootstrapOnce
INVARIANT SeedsOnce
PROPERTY EverySourceCrawled
