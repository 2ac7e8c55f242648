\* One run at a time, repeated, after crashes and lost replies.
CONSTANTS
    Keys = {"a", "b"}
    Namespaces = {"atlasctl", "prod"}
    DefaultNamespace = "atlasctl"
    NoNS = NoNS
    Attrs = {"ping", "dns"}
    HttpAttrs = {}
    HttpOpts = {NoHttp}
    NoHttp = NoHttp
    Probes = {1, 2}
    MsmIDs = {1, 2, 3, 4, 5, 6, 7, 8, 9, 10}
    NoSpec = NoSpec
    NoRecord = NoRecord
    NoMsm = NoMsm
    NoConfig = NoConfig
    NoKey = NoKey
    Procs = {p}
    Configs <- MCConfigs
    Fleets <- MCRunningFleets
    Provider = FALSE
    StopIdempotent = TRUE
    FaultKinds = {"giveup", "create", "stop", "add_probes", "remove_probes", "lost", "cancel", "crash"}
    MaxFaults = 2
    MaxEdits = 1
SPECIFICATION FairSpec
PROPERTIES
    Recovers
