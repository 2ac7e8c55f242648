\* An edit of the HTTP fields of a running measurement.
CONSTANTS
    Keys = {"a"}
    Namespaces = {"atlasctl", "prod"}
    DefaultNamespace = "atlasctl"
    NoNS = NoNS
    Attrs = {"ping", "http"}
    HttpAttrs = {"http"}
    HttpOpts = {NoHttp, "get", "head"}
    NoHttp = NoHttp
    Probes = {1, 2}
    MsmIDs = {1, 2, 3, 4}
    NoSpec = NoSpec
    NoRecord = NoRecord
    NoMsm = NoMsm
    NoConfig = NoConfig
    NoKey = NoKey
    Procs = {p}
    Configs <- MCHttpConfigs
    Fleets <- MCEmptyFleet
    Provider = FALSE
    StopIdempotent = FALSE
    FaultKinds = {}
    MaxFaults = 1
    MaxEdits = 1
SPECIFICATION Spec
INVARIANTS
    OutdatedStopped
