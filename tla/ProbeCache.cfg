\* Two callers with a client, one without, one refresh.
CONSTANTS
    Callers = {p, q, o}
    Offline = {o}
    Refreshers = {r}
    TTL = 0
    MaxTime = 1
    MaxPool = 1
    NoFile = NoFile
    NoAnswer = NoAnswer
SPECIFICATION FairSpec
CHECK_DEADLOCK FALSE
INVARIANTS
    TypeOK
    OneWriter
    NoNeedlessFetch
PROPERTIES
    ReadsThrough
    EveryCallReturns
