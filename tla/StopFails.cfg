\* A stop fails and the create that follows it succeeds.
CONSTANTS
    Keys = {"a"}
    Namespaces = {"atlasctl", "prod"}
    DefaultNamespace = "atlasctl"
    NoNS = NoNS
    Attrs = {"ping", "dns"}
    HttpAttrs = {}
    HttpOpts = {NoHttp}
    NoHttp = NoHttp
    Probes = {1, 2}
    MsmIDs = {1, 2, 3, 4}
    NoSpec = NoSpec
    NoRecord = NoRecord
    NoMsm = NoMsm
    NoConfig = NoConfig
    NoKey = NoKey
    Procs = {p}
    Configs <- MCOneKeyConfigs
    Fleets <- MCEmptyFleet
    Provider = FALSE
    StopIdempotent = FALSE
    FaultKinds = {"stop"}
    MaxFaults = 1
    MaxEdits = 1
SPECIFICATION Spec
INVARIANTS
    OneMeasurementPerPair
