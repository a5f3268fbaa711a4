SPECIFICATION Spec
CONSTANTS
    Speed = {1}
    MaxCars = 4
    LanesCount = 2
    EdgeLanes = {2}
    FixedLanes = {}
    ClientCommands <- Platooning
    Verdicts = {TRUE}
    Unguarded = TRUE
    LateData = FALSE
    Horizon = 2
INVARIANT DataBeforeUse
