\* Two invocations over six probes: all files, one probe leaving in between.
CONSTANTS
    Probes = {1, 2, 3, 4, 5, 6}
    Info <- MCInfo
    Cells = {"west", "east", "ashburn", "gibraltar", "madrid", "atlantic"}
    CountryZone <- MCCountryZone
    DefaultNS <- MCDefaultNS
    Cfgs <- MCCfgs
    Files <- MCFiles
    Pools <- MCPools
    Orderer <- DefaultOrder
    OrderKey <- CacheKey
    NoConfig = NoConfig
    OtherNamespaces <- MCOtherNamespaces
SPECIFICATION Spec
INVARIANTS
    TypeOK
    NoDoubleSelection
    CachedOrderIsOwn
    RoundRobin
    OnlyItsSlotOpensUnshuffled
    EstimateCoversSelection
    HourlyWithinDaily
    ReportedBandsDroveSelection
    TagsFindTheirCohort
    ForeignTagsIgnored
PROPERTY
    FollowsDraft
\* A command ends: it is refused, cancelled or done.
CHECK_DEADLOCK FALSE
