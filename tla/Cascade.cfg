\* The default configuration: one cohort of three, one probe per cell.
CONSTANTS
    Probes = {1, 2, 3, 4, 5, 6}
    Info <- MCInfo
    Cells = {"west", "east", "ashburn", "gibraltar", "madrid", "atlantic"}
    CountryZone <- MCCountryZone
    DefaultNS <- MCDefaultNS
    Cfgs <- MCCfgs
    Files <- MCDefaultFiles
    Pools <- MCDefaultPools
    Orderer <- DefaultOrder
    OrderKey <- CacheKey
    NoConfig = NoConfig
    OtherNamespaces <- MCOtherNamespaces
SPECIFICATION Spec
INVARIANTS
    OnlyItsSlotOpens
\* A command ends: it is cancelled or done.
CHECK_DEADLOCK FALSE
