\* One run at a time; faults that leave the account as Apply was told.
CONSTANTS
    Keys = {"a", "b"}
    Namespaces = {"atlasctl", "prod"}
    DefaultNamespace = "atlasctl"
    NoNS = NoNS
    Attrs = {"ping", "dns"}
    HttpAttrs = {}
    HttpOpts = {NoHttp}
    NoHttp = NoHttp
    Probes = {1, 2}
    MsmIDs = {1, 2, 3, 4, 5, 6, 7, 8, 9}
    NoSpec = NoSpec
    NoRecord = NoRecord
    NoMsm = NoMsm
    NoConfig = NoConfig
    NoKey = NoKey
    Procs = {p}
    Configs <- MCConfigs
    Fleets <- MCOwnedFleets
    Provider = FALSE
    StopIdempotent = TRUE
    FaultKinds = {"giveup", "create", "add_probes", "remove_probes", "cancel"}
    MaxFaults = 2
    MaxEdits = 2
SPECIFICATION FairSpec
INVARIANTS
    EveryMeasurementRecorded
PROPERTIES
    Converges
