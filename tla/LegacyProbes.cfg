\* Probe edits for a record older than namespace tracking, run after run.
CONSTANTS
    Keys = {"a"}
    Namespaces = {"atlasctl", "prod"}
    DefaultNamespace = "atlasctl"
    NoNS = NoNS
    Attrs = {"ping", "dns"}
    HttpAttrs = {}
    HttpOpts = {NoHttp}
    NoHttp = NoHttp
    Probes = {1, 2}
    MsmIDs = {1, 2, 3, 4}
    NoSpec = NoSpec
    NoRecord = NoRecord
    NoMsm = NoMsm
    NoConfig = NoConfig
    NoKey = NoKey
    Procs = {p}
    Configs <- MCProbeConfigs
    Fleets <- MCMovedFleet
    Provider = FALSE
    StopIdempotent = FALSE
    FaultKinds = {}
    MaxFaults = 1
    MaxEdits = 1
SPECIFICATION FairSpec
PROPERTIES
    ProbeEditsApplied
