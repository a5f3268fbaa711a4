SPECIFICATION Spec
CONSTANTS
    a = a
    b = b
    t = t
    x = x
    f0 = f0
    f1 = f1
    f2 = f2
    f3 = f3
    fl = fl
    ed = ed
    None = None
    Veh = {t}
    FileVeh = {}
    TrigVeh = {t}
    TraciVeh = {}
    Flow = {}
    FlowVeh <- FlowIds
    Number <- TwoRepetitions
    Begin <- AtStart
    Offset <- EveryStep
    Volatile = {}
    ProbFlow = {}
    RepEnd <- UntilTwo
    Quotas = {1}
    Edge = {ed}
    EdgeOf <- OneEdge
    StopOf <- RoadStop
    Riders = 2
    MaxDepartDelay <- Off
    MaxVehicleNumber <- Off
    CheckEdgesOnce = TRUE
    PreCheck = FALSE
    ClientCommands = {}
    Horizon = 2
    MaxLoaded = 6
    FileHorizon = 2
INVARIANT PersonWaitExact
