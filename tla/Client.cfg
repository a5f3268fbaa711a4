SPECIFICATION Spec
CONSTANTS
    a = a
    b = b
    t = t
    x = x
    f0 = f0
    f1 = f1
    f2 = f2
    f3 = f3
    fl = fl
    ed = ed
    None = None
    Veh = {a, x, f0}
    FileVeh = {a}
    TrigVeh = {}
    TraciVeh = {x, f0}
    Flow = {fl}
    FlowVeh <- OneFlowId
    Number <- OneRepetition
    Begin <- AtStart
    Offset <- EveryStep
    Volatile = {}
    ProbFlow = {fl}
    RepEnd <- UntilOne
    Quotas = {1}
    Edge = {ed}
    EdgeOf <- OneEdge
    StopOf <- FileParks
    Riders = 0
    MaxDepartDelay <- Off
    MaxVehicleNumber <- Off
    CheckEdgesOnce = TRUE
    PreCheck = TRUE
    ClientCommands = {"add", "addInvalid", "remove", "moveTo", "clearPending"}
    Horizon = 1
    MaxLoaded = 4
    FileHorizon = 1
INVARIANT RunningIsDeparted
INVARIANT LoadedBalance
INVARIANT WaitsOnce
INVARIANT TransferExact
INVARIANT WaitingIsReal
