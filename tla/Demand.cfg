SPECIFICATION FairSpec
CONSTANTS
    a = a
    b = b
    t = t
    x = x
    f0 = f0
    f1 = f1
    f2 = f2
    f3 = f3
    fl = fl
    ed = ed
    None = None
    Veh = {a, b, t}
    FileVeh = {a, b}
    TrigVeh = {t}
    TraciVeh = {}
    Flow = {}
    FlowVeh <- FlowIds
    Number <- TwoRepetitions
    Begin <- AtStart
    Offset <- EveryStep
    Volatile = {}
    ProbFlow = {}
    RepEnd <- UntilTwo
    Quotas = {0, 1}
    Edge = {ed}
    EdgeOf <- OneEdge
    StopOf <- MixedStops
    Riders = 1
    MaxDepartDelay <- Off
    MaxVehicleNumber <- Off
    CheckEdgesOnce = TRUE
    PreCheck = FALSE
    ClientCommands = {}
    Horizon = 2
    MaxLoaded = 6
    FileHorizon = 2
INVARIANT TypeOK
INVARIANT WaitsOnce
INVARIANT PersonWaitExact
INVARIANT EndIsComplete
PROPERTY OnlyWaitingDiscarded
PROPERTY RunEnds
