\* One run at a time, any two faults, two edits.
CONSTANTS
    Keys = {"a", "b"}
    Namespaces = {"atlasctl", "prod"}
    DefaultNamespace = "atlasctl"
    NoNS = NoNS
    Attrs = {"ping", "dns"}
    HttpAttrs = {}
    HttpOpts = {NoHttp}
    NoHttp = NoHttp
    Probes = {1, 2}
    MsmIDs = {1, 2, 3, 4}
    NoSpec = NoSpec
    NoRecord = NoRecord
    NoMsm = NoMsm
    NoConfig = NoConfig
    NoKey = NoKey
    Procs = {p}
    Configs <- MCConfigs
    Fleets <- MCFleets
    Provider = FALSE
    StopIdempotent = FALSE
    FaultKinds = {"giveup", "create", "stop", "add_probes", "remove_probes", "lost", "cancel", "crash"}
    MaxFaults = 2
    MaxEdits = 2
SPECIFICATION Spec
INVARIANTS
    TypeOK
    RecordsTruthful
    CreatesOnlyDesired
    StopsOnlyOutdated
    OutdatedStopped
    DriftReported
