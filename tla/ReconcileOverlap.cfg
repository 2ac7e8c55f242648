\* Two overlapping runs over one key, an edit and a fault.
CONSTANTS
    Keys = {"a"}
    Namespaces = {"atlasctl", "prod"}
    DefaultNamespace = "atlasctl"
    NoNS = NoNS
    Attrs = {"ping", "dns"}
    HttpAttrs = {}
    HttpOpts = {NoHttp}
    NoHttp = NoHttp
    Probes = {1, 2}
    MsmIDs = {1, 2, 3, 4}
    NoSpec = NoSpec
    NoRecord = NoRecord
    NoMsm = NoMsm
    NoConfig = NoConfig
    NoKey = NoKey
    Procs = {p, q}
    Configs <- MCOneKeyConfigs
    Fleets <- MCOwnedFleets
    Provider = TRUE
    StopIdempotent = TRUE
    FaultKinds = {"giveup", "create", "stop", "add_probes", "remove_probes", "lost", "cancel", "crash", "extstop"}
    MaxFaults = 1
    MaxEdits = 1
SPECIFICATION Spec
INVARIANTS
    RecordsTruthful
    CreatesOnlyDesired
    StopsOnlyOutdated
    OutdatedStopped
