SPECIFICATION Spec
CONSTANTS
    Speed = {1, 2}
    MaxCars = 3
    LanesCount = 2
    EdgeLanes = {2, 3}
    FixedLanes <- SignedLanes
    ClientCommands <- Driving
    Verdicts = {TRUE}
    Unguarded = TRUE
    LateData = FALSE
    Horizon = 3
INVARIANT RadarHonest
