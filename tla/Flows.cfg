SPECIFICATION FairSpec
CONSTANTS
    a = a
    b = b
    t = t
    x = x
    f0 = f0
    f1 = f1
    f2 = f2
    f3 = f3
    fl = fl
    ed = ed
    None = None
    Veh = {t, f0, f1, f2, f3}
    FileVeh = {}
    TrigVeh = {t}
    TraciVeh = {}
    Flow = {fl}
    FlowVeh <- FourFlowIds
    Number <- TwoRepetitions
    Begin <- AtStart
    Offset <- EveryStep
    Volatile = {}
    ProbFlow = {}
    RepEnd <- UntilTwo
    Quotas = {0, 1, 2}
    Edge = {ed}
    EdgeOf <- OneEdge
    StopOf <- RoadStop
    Riders = 2
    MaxDepartDelay = 1
    MaxVehicleNumber = 2
    CheckEdgesOnce = TRUE
    PreCheck = FALSE
    ClientCommands = {}
    Horizon = 4
    MaxLoaded = 6
    FileHorizon = 1
INVARIANT FlowBlockIsReal
INVARIANT MaxNumberKept
INVARIANT SkippedInTime
PROPERTY DepartInOrder
PROPERTY PendingResolved
PROPERTY FlowsUnblock
PROPERTY InsertionSparesRoad
